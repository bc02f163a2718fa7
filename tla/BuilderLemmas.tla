---------------------------- MODULE BuilderLemmas ---------------------------
(***************************************************************************)
(* What each call on a builder keeps of its arena, for every scalar and    *)
(* every op table: the facts the proofs about clients of a builder cite.   *)
(* First, how a loop over an arena is reasoned about.  The library states  *)
(* induction for a predicate, an operator no prover here instantiates;     *)
(* stated for the set of the numbers that have a property it is a fact of  *)
(* first-order logic.                                                      *)
(***************************************************************************)
EXTENDS Interpreter, FiniteSetTheorems, TLAPS

(* Induction over a set of numbers: if it has 0 and the successor of every   *)
(* member, it has them all.  With m missing, the successor would map its     *)
(* members up to m into those other than 0, which are fewer.                 *)
LEMMA SetInduction ==
  ASSUME NEW S, 0 \in S, \A n \in Nat : n \in S => n + 1 \in S
  PROVE  \A n \in Nat : n \in S
<1>1. SUFFICES ASSUME NEW m \in Nat, m \notin S PROVE FALSE
  OBVIOUS
<1> DEFINE U == S \cap (0..m)
           V == U \ {0}
           next == [n \in U |-> n + 1]
<1>2. IsFiniteSet(U) /\ IsFiniteSet(V) /\ Cardinality(V) < Cardinality(U)
  <2>1. IsFiniteSet(0..m)
    BY FS_Interval
  <2>2. IsFiniteSet(U)
    BY <2>1, FS_Subset
  <2>3. 0 \in U
    OBVIOUS
  <2> HIDE DEF U
  <2>4. IsFiniteSet(U \ {0}) /\ Cardinality(U \ {0}) = Cardinality(U) - 1
    BY <2>2, <2>3, FS_RemoveElement
  <2>5. Cardinality(U) \in Nat
    BY <2>2, FS_CardinalityType
  <2>. QED BY <2>2, <2>4, <2>5
<1>3. next \in [U -> V]
  <2> SUFFICES ASSUME NEW n \in U PROVE n + 1 \in V
    OBVIOUS
  <2>1. n \in S /\ n \in 0..m
    OBVIOUS
  <2>2. n # m
    BY <1>1, <2>1, Zenon
  <2>3. n + 1 \in S /\ n + 1 \in 0..m /\ n + 1 # 0
    BY <2>1, <2>2
  <2>. QED BY <2>3
<1>4. ASSUME NEW x \in U, NEW y \in U, x # y PROVE next[x] # next[y]
  BY <1>4
<1>. HIDE DEF next, U, V
<1>5. \E x, y \in U : x # y /\ next[x] = next[y]
  BY <1>2, <1>3, FS_PigeonHole
<1>. QED BY <1>4, <1>5

(* What a loop keeps: k iterations in, it is in one of the states G[k].      *)
LEMMA LoopInvariant ==
  ASSUME NEW n \in Nat, NEW f, NEW G, f[0] \in G[0],
         \A k \in 1..n : f[k - 1] \in G[k - 1] => f[k] \in G[k]
  PROVE  \A k \in 0..n : f[k] \in G[k]
<1> DEFINE S == {k \in Nat : k <= n => f[k] \in G[k]}
<1>1. 0 \in S
  OBVIOUS
<1>2. ASSUME NEW k \in Nat, k \in S PROVE k + 1 \in S
  <2> SUFFICES ASSUME k + 1 <= n PROVE f[k + 1] \in G[k + 1]
    OBVIOUS
  <2>1. k + 1 \in 1..n /\ (k + 1) - 1 = k /\ f[k] \in G[k]
    BY <1>2
  <2>. QED BY <2>1
<1>3. \A k \in Nat : k \in S
  <2> HIDE DEF S
  <2>. QED BY <1>1, <1>2, SetInduction
<1>. QED BY <1>3

(* A loop of n iterations over V, whose k-th takes any of the states it can  *)
(* be reached in to one of those that the next can be reached in, has a run. *)
IsLoop(n, V, base, G, next) ==
  /\ n \in Nat /\ base \in G[0]
  /\ \A k \in 0..n : G[k] \subseteq V
  /\ \A k \in 1..n : \A s \in G[k - 1] : next[k][s] \in G[k]
IsRun(f, n, base, G, next) ==
  /\ f[0] = base
  /\ \A k \in 1..n : f[k - 1] \in G[k - 1] /\ f[k] = next[k][f[k - 1]]
LEMMA LoopRuns ==
  ASSUME NEW n, NEW V, NEW base, NEW G, NEW next, IsLoop(n, V, base, G, next)
  PROVE  \E f \in [0..n -> V] : IsRun(f, n, base, G, next)
<1>0. /\ n \in Nat /\ base \in G[0]
      /\ \A k \in 0..n : G[k] \subseteq V
      /\ \A k \in 1..n : \A s \in G[k - 1] : next[k][s] \in G[k]
  BY DEF IsLoop
<1> DEFINE Run(m, f) == f = [k \in 0..m |-> IF k = 0 THEN base ELSE next[k][f[k - 1]]]
           S == {m \in Nat : \E f : Run(m, f)}
<1>1. 0 \in S
  <2>1. Run(0, [k \in 0..0 |-> base])
    BY SMT
  <2>. QED BY <2>1
<1>2. ASSUME NEW m \in Nat, m \in S PROVE m + 1 \in S
  <2>1. PICK f : Run(m, f)
    BY <1>2
  <2> DEFINE g == [k \in 0..(m + 1) |-> IF k = m + 1 THEN next[m + 1][f[m]] ELSE f[k]]
  <2>2. ASSUME NEW k \in 0..(m + 1)
        PROVE  g[k] = IF k = 0 THEN base ELSE next[k][g[k - 1]]
    <3>1. CASE k = m + 1
      BY <3>1
    <3>2. CASE k \in 0..m
      <4>1. f[k] = IF k = 0 THEN base ELSE next[k][f[k - 1]]
        BY <2>1, <3>2
      <4>. QED BY <3>2, <4>1
    <3>. QED BY <3>1, <3>2
  <2>3. Run(m + 1, g)
    BY <2>2
  <2> HIDE DEF Run, g
  <2>. QED BY <2>3
<1>3. \E f : Run(n, f)
  <2>1. n \in S
    <3> HIDE DEF S
    <3>. QED BY <1>0, <1>1, <1>2, SetInduction
  <2>. QED BY <2>1
<1>4. PICK f : Run(n, f)
  BY <1>3
<1>5. f[0] = base /\ \A k \in 1..n : f[k] = next[k][f[k - 1]]
  BY <1>0, <1>4
<1>6. \A k \in 0..n : f[k] \in G[k]
  <2>1. f[0] \in G[0] /\ \A k \in 1..n : f[k - 1] \in G[k - 1] => f[k] \in G[k]
    BY <1>0, <1>5
  <2>. QED BY <1>0, <2>1, LoopInvariant
<1>7. f \in [0..n -> V]
  BY <1>0, <1>4, <1>6
<1>8. ASSUME NEW k \in 1..n PROVE f[k - 1] \in G[k - 1]
  <2>1. k - 1 \in 0..n
    BY <1>0
  <2>. QED BY <1>6, <2>1
<1>. HIDE DEF Run
<1>. QED BY <1>5, <1>7, <1>8 DEF IsRun

-----------------------------------------------------------------------------

Sound(B) == B \in Arenas /\ WellFormed(B)

(* What WellFormed asks of one node, to be formed next. *)
FitsArena(B, n) ==
  /\ n \in Node
  /\ n.op \in UnaryOps \cup BinaryOps => n.a \in Ids(B)
  /\ n.op \in BinaryOps => n.b \in Ids(B)
  /\ n.op \notin BinaryOps => n.b = NoNode
  /\ n.op \notin UnaryOps \cup BinaryOps => n.a = NoNode
  /\ n.op = "Var" => n.slot \in 1..Len(B.symbols)

(* A reply that keeps what the invariants need of the arena it was asked of. *)
Keeps(B, C) ==
  /\ Sound(C)
  /\ Extends(C, B)
  /\ NodesOnce(B) => NodesOnce(C)
  /\ C.symbols = B.symbols
Answers(B, reply) == Keeps(B, reply.arena) /\ reply.id \in Ids(reply.arena)

-----------------------------------------------------------------------------
LEMMA ExtendsRefl ==
  ASSUME NEW B, Sound(B)
  PROVE  Keeps(B, B)
  BY DEF Keeps, Sound, Arenas, Extends, Ids

LEMMA KeepsTransitive ==
  ASSUME NEW A, NEW B, NEW C, Sound(A), Keeps(A, B), Keeps(B, C)
  PROVE  Keeps(A, C)
<1>1. Sound(B) /\ Sound(C) /\ Extends(B, A) /\ Extends(C, B)
  BY DEF Keeps
<1>2. Extends(C, A)
  BY <1>1 DEF Extends, Ids, Sound, Arenas
<1> QED
  BY <1>1, <1>2 DEF Keeps

LEMMA IdsGrow ==
  ASSUME NEW B, NEW C, Sound(B), Keeps(B, C)
  PROVE  Ids(B) \subseteq Ids(C)
  BY DEF Keeps, Extends, Ids, Sound, Arenas

LEMMA NodeOf ==
  ASSUME NEW B, Sound(B), NEW v \in Ids(B)
  PROVE  B.nodes[v] \in Node
  BY DEF Sound, Arenas, Ids

LEMMA SameNodeSymmetric ==
  ASSUME NEW m \in Node, NEW n \in Node, SameNode(m, n)
  PROVE  SameNode(n, m)
  BY ScalarAssumption DEF SameNode, Node

(* intern(): a node that fits is found or appended; nothing else moves.      *)
LEMMA InternAnswers ==
  ASSUME NEW B, Sound(B), NEW n, FitsArena(B, n)
  PROVE  Answers(B, Intern(B, n))
<1> DEFINE found == {v \in Ids(B) : SameNode(B.nodes[v], n)}
           C == [nodes |-> Append(B.nodes, n), symbols |-> B.symbols]
<1>1. CASE found # {}
  <2>1. Intern(B, n) = [arena |-> B, id |-> CHOOSE v \in found : TRUE]
    BY <1>1 DEF Intern, FoundOrAppended
  <2>2. (CHOOSE v \in found : TRUE) \in Ids(B)
    BY <1>1
  <2> QED
    BY <2>1, <2>2, ExtendsRefl DEF Answers
<1>2. CASE found = {}
  <2>1. Intern(B, n) = [arena |-> C, id |-> Len(B.nodes) + 1]
    BY <1>2 DEF Intern, FoundOrAppended
  <2>2. /\ B.nodes \in Seq(Node) /\ B.symbols \in Seq(Name) /\ n \in Node
        /\ B = [nodes |-> B.nodes, symbols |-> B.symbols]
    BY DEF Sound, Arenas, FitsArena
  <2>3. /\ C.nodes = Append(B.nodes, n) /\ C.symbols = B.symbols
        /\ C \in Arenas
        /\ Len(C.nodes) = Len(B.nodes) + 1
        /\ \A v \in Ids(B) : C.nodes[v] = B.nodes[v]
        /\ C.nodes[Len(B.nodes) + 1] = n
    BY <2>2 DEF Arenas, Ids
  <2>4. Ids(C) = Ids(B) \cup {Len(B.nodes) + 1} /\ Len(B.nodes) + 1 \notin Ids(B)
    BY <2>2, <2>3 DEF Ids
  <2>5. WellFormed(C)
    <3> SUFFICES ASSUME NEW v \in Ids(C) PROVE
          LET m == C.nodes[v]
          IN  /\ m.op \in UnaryOps \cup BinaryOps => m.a \in 1..(v - 1)
              /\ m.op \in BinaryOps => m.b \in 1..(v - 1)
              /\ m.op \notin BinaryOps => m.b = NoNode
              /\ m.op \notin UnaryOps \cup BinaryOps => m.a = NoNode
              /\ m.op = "Var" => m.slot \in 1..Len(C.symbols)
      BY DEF WellFormed
    <3>1. CASE v \in Ids(B)
      BY <3>1, <2>3 DEF Sound, WellFormed
    <3>2. CASE v = Len(B.nodes) + 1
      BY <3>2, <2>2, <2>3 DEF FitsArena, Ids
    <3> QED
      BY <3>1, <3>2, <2>4
  <2>6. Extends(C, B)
    BY <2>2, <2>3 DEF Extends, Ids
  <2>7. ASSUME NodesOnce(B) PROVE NodesOnce(C)
    <3> SUFFICES ASSUME NEW v \in Ids(C), NEW w \in Ids(C), SameNode(C.nodes[v], C.nodes[w])
                 PROVE  v = w
      BY DEF NodesOnce
    <3>1. CASE v \in Ids(B) /\ w \in Ids(B)
      BY <3>1, <2>3, <2>7 DEF NodesOnce
    <3>2. CASE v \in Ids(B) /\ w = Len(B.nodes) + 1
      BY <3>2, <2>3, <1>2
    <3>3. CASE v = Len(B.nodes) + 1 /\ w \in Ids(B)
      <4>1. SameNode(n, B.nodes[w])
        BY <3>3, <2>3
      <4>2. SameNode(B.nodes[w], n)
        BY <4>1, <3>3, <2>2, NodeOf, SameNodeSymmetric
      <4> QED
        BY <4>2, <3>3, <1>2
    <3> QED
      BY <3>1, <3>2, <3>3, <2>4
  <2>8. Keeps(B, C)
    BY <2>3, <2>5, <2>6, <2>7 DEF Keeps, Sound
  <2> HIDE DEF C
  <2>9. Intern(B, n).arena = C /\ Intern(B, n).id = Len(B.nodes) + 1
    BY <2>1
  <2>10. Intern(B, n).id \in Ids(C)
    BY <2>4, <2>9
  <2> QED
    BY <2>8, <2>9, <2>10 DEF Answers
<1> QED
  BY <1>1, <1>2

LEMMA ConstantAnswers ==
  ASSUME NEW B, Sound(B), NEW v \in Scalar
  PROVE  Answers(B, Constant(B, v))
<1>1. FitsArena(B, ConstNode(v))
  BY OpAssumption DEF FitsArena, ConstNode, Node, NoNode
<1> QED
  BY <1>1, InternAnswers DEF Constant

LEMMA ExistingAnswers ==
  ASSUME NEW B, Sound(B), NEW v \in Ids(B)
  PROVE  Answers(B, Existing(B, v))
  BY ExtendsRefl DEF Answers, Existing

(* fold() answers with a node of the arena it leaves, or with none and the   *)
(* arena as it was.                                                          *)
LEMMA FoldUnaryAnswers ==
  ASSUME NEW B, Sound(B), NEW op \in UnaryOps, NEW a \in Ids(B)
  PROVE  \/ Answers(B, FoldUnary(B, op, a)) /\ FoldUnary(B, op, a).id # NoNode
         \/ FoldUnary(B, op, a) = Unfolded(B)
<1>0. B.nodes[a] \in Node
  BY NodeOf
<1>1. CASE IsConst(B, a)
  <2>1. Apply1(op, B.nodes[a].value) \in Scalar
    BY <1>0, ScalarAssumption DEF Node
  <2>2. FoldUnary(B, op, a) = Constant(B, Apply1(op, B.nodes[a].value))
    BY <1>1 DEF FoldUnary
  <2>3. Answers(B, FoldUnary(B, op, a))
    BY <2>1, <2>2, ConstantAnswers
  <2> QED
    BY <2>3 DEF Answers, Ids, NoNode
<1>2. CASE ~IsConst(B, a) /\ op = "Neg" /\ B.nodes[a].op = "Neg"
  <2>1. B.nodes[a].a \in Ids(B)
    BY <1>2 DEF Sound, Arenas, WellFormed, Ids
  <2>2. FoldUnary(B, op, a) = Existing(B, B.nodes[a].a)
    BY <1>2 DEF FoldUnary
  <2> QED
    BY <2>1, <2>2, ExistingAnswers DEF Existing, Ids, NoNode
<1>3. CASE ~IsConst(B, a) /\ ~(op = "Neg" /\ B.nodes[a].op = "Neg")
  BY <1>3 DEF FoldUnary
<1> QED
  BY <1>1, <1>2, <1>3

LEMMA FoldBinaryAnswers ==
  ASSUME NEW B, Sound(B), NEW op \in BinaryOps, NEW a \in Ids(B), NEW b \in Ids(B)
  PROVE  \/ Answers(B, FoldBinary(B, op, a, b)) /\ FoldBinary(B, op, a, b).id # NoNode
         \/ FoldBinary(B, op, a, b) = Unfolded(B)
<1> DEFINE Done(reply) == \/ Answers(B, reply) /\ reply.id # NoNode
                          \/ reply = Unfolded(B)
<1>1. \A v \in Ids(B) : Done(Existing(B, v))
  BY ExistingAnswers DEF Existing, Ids, NoNode
<1>2. \A v \in Scalar : Done(Constant(B, v))
  BY ConstantAnswers DEF Answers, Ids, NoNode
<1>3. Done(Unfolded(B))
  OBVIOUS
<1>4. Zero \in Scalar /\ One \in Scalar
  BY ScalarAssumption
<1>5. ASSUME NEW q \in Ids(B), B.nodes[q].op = "Div" PROVE B.nodes[q].a \in Ids(B)
  <2>1. "Div" \in UnaryOps \cup BinaryOps
    BY <1>5, NodeOf DEF Node
  <2> QED
    BY <1>5, <2>1 DEF Sound, Arenas, WellFormed, Ids
<1> HIDE DEF Done
<1>6. Done(FoldAdd(B, a, b))
  BY <1>1, <1>3 DEF FoldAdd
<1>7. Done(FoldMul(B, a, b))
  BY <1>1, <1>2, <1>3, <1>4, <1>5 DEF FoldMul, IsQuotientBy
<1>8. Done(FoldDiv(B, a, b))
  BY <1>1, <1>2, <1>3, <1>4 DEF FoldDiv
<1>9. Done(FoldPow(B, a, b))
  BY <1>1, <1>2, <1>3, <1>4 DEF FoldPow
<1>10. Done(FoldBinary(B, op, a, b))
  <2>1. CASE IsConst(B, a) /\ IsConst(B, b)
    <3>1. B.nodes[a].value \in Scalar /\ B.nodes[b].value \in Scalar
      BY NodeOf DEF Node
    <3>2. Apply2(op, B.nodes[a].value, B.nodes[b].value) \in Scalar
      BY <3>1, ScalarAssumption
    <3> QED
      BY <2>1, <3>2, <1>2 DEF FoldBinary
  <2>2. CASE ~(IsConst(B, a) /\ IsConst(B, b))
    BY <2>2, <1>3, <1>6, <1>7, <1>8, <1>9 DEF FoldBinary
  <2> QED
    BY <2>1, <2>2
<1> QED
  BY <1>10 DEF Done

(* make(): what it answers, whether a rewrite applied or a node was formed.  *)
LEMMA MakeUnaryAnswers ==
  ASSUME NEW B, Sound(B), NEW op \in UnaryOps, NEW a \in Ids(B)
  PROVE  Answers(B, Make(B, op, a, NoNode))
<1>1. Fold(B, op, a, NoNode) = FoldUnary(B, op, a)
  BY DEF Fold
<1>2. CASE FoldUnary(B, op, a).id # NoNode
  BY <1>1, <1>2, FoldUnaryAnswers DEF Make, FoldedOr, Unfolded
<1>3. CASE FoldUnary(B, op, a).id = NoNode
  <2>1. Make(B, op, a, NoNode) = Intern(B, OpNode(op, a, NoNode))
    BY <1>1, <1>3 DEF Make, FoldedOr, Canonical
  <2>2. FitsArena(B, OpNode(op, a, NoNode))
    BY ScalarAssumption, OpAssumption DEF FitsArena, OpNode, Node, NoNode, Ids
  <2> QED
    BY <2>1, <2>2, InternAnswers
<1> QED
  BY <1>2, <1>3

LEMMA MakeBinaryAnswers ==
  ASSUME NEW B, Sound(B), NEW op \in BinaryOps, NEW a \in Ids(B), NEW b \in Ids(B)
  PROVE  Answers(B, Make(B, op, a, b))
<1>1. Fold(B, op, a, b) = FoldBinary(B, op, a, b)
  BY OpAssumption DEF Fold
<1>2. CASE FoldBinary(B, op, a, b).id # NoNode
  BY <1>1, <1>2, FoldBinaryAnswers DEF Make, FoldedOr, Unfolded
<1>3. CASE FoldBinary(B, op, a, b).id = NoNode
  <2>1. \/ Make(B, op, a, b) = Intern(B, OpNode(op, a, b))
        \/ Make(B, op, a, b) = Intern(B, OpNode(op, b, a))
    BY <1>1, <1>3 DEF Make, FoldedOr, Canonical
  <2>2. ASSUME NEW u \in Ids(B), NEW w \in Ids(B) PROVE FitsArena(B, OpNode(op, u, w))
    BY ScalarAssumption, OpAssumption DEF FitsArena, OpNode, Node, NoNode, Ids
  <2> QED
    BY <2>1, <2>2, InternAnswers
<1> QED
  BY <1>2, <1>3

(* variable(): a name keeps the slot it was given first, and its leaf. *)
LEMMA VariableAnswers ==
  ASSUME NEW B, Sound(B), NEW name \in Name
  PROVE  LET C == Variable(B, name).arena
         IN  /\ Sound(C) /\ Extends(C, B)
             /\ NodesOnce(B) => NodesOnce(C)
             /\ SymbolsOnce(B) => SymbolsOnce(C)
             /\ NodesOnce(B) /\ LeafEach(B) => LeafEach(C)
<1> DEFINE C == Variable(B, name).arena
           known == {s \in 1..Len(B.symbols) : B.symbols[s] = name}
<1>0. /\ B.nodes \in Seq(Node) /\ B.symbols \in Seq(Name)
      /\ B = [nodes |-> B.nodes, symbols |-> B.symbols]
  BY DEF Sound, Arenas
<1>1. CASE known # {}
  <2> DEFINE s == CHOOSE t \in known : TRUE
  <2>1. s \in 1..Len(B.symbols)
    BY <1>1
  <2>2. Variable(B, name) = Intern(B, VarNode(s))
    BY <1>1 DEF Variable
  <2> HIDE DEF s
  <2>3. FitsArena(B, VarNode(s))
    BY <1>0, <2>1, ScalarAssumption, OpAssumption DEF FitsArena, VarNode, Node, NoNode
  <2>4. Keeps(B, C)
    BY <2>2, <2>3, InternAnswers DEF Answers
  <2>5. C.symbols = B.symbols /\ Sound(C) /\ Extends(C, B) /\ (NodesOnce(B) => NodesOnce(C))
    BY <2>4 DEF Keeps
  <2>6. \A v \in Ids(B) : v \in Ids(C) /\ C.nodes[v] = B.nodes[v]
    BY <1>0, <2>5 DEF Extends, Ids, Sound, Arenas
  <2>7. LeafEach(B) => LeafEach(C)
    BY <2>5, <2>6 DEF LeafEach
  <2>8. SymbolsOnce(B) => SymbolsOnce(C)
    BY <2>5 DEF SymbolsOnce
  <2> QED
    BY <2>5, <2>7, <2>8
<1>2. CASE known = {}
  <2> DEFINE s == Len(B.symbols) + 1
             D == [nodes |-> B.nodes, symbols |-> Append(B.symbols, name)]
  <2>1. /\ D.nodes = B.nodes /\ D.symbols = Append(B.symbols, name)
        /\ D \in Arenas /\ Len(D.symbols) = s
        /\ \A t \in 1..Len(B.symbols) : D.symbols[t] = B.symbols[t]
        /\ D.symbols[s] = name
    BY <1>0 DEF Arenas
  <2>2. s \in Nat /\ 1..Len(D.symbols) = 1..Len(B.symbols) \cup {s} /\ s \notin 1..Len(B.symbols)
    BY <1>0, <2>1
  <2>3. Variable(B, name) = Intern(D, VarNode(s))
    BY <1>2 DEF Variable
  <2> HIDE DEF D, s
  <2>4. WellFormed(D)
    BY <1>0, <2>1, <2>2 DEF Sound, WellFormed, Ids
  <2>5. FitsArena(D, VarNode(s))
    BY <2>1, <2>2, ScalarAssumption, OpAssumption DEF FitsArena, VarNode, Node, NoNode
  <2>6. Answers(D, Intern(D, VarNode(s)))
    BY <2>1, <2>4, <2>5, InternAnswers DEF Sound
  <2>7. Keeps(D, C)
    BY <2>3, <2>6 DEF Answers
  <2>8. Sound(C) /\ Extends(C, B)
    BY <1>0, <2>1, <2>2, <2>7 DEF Keeps, Sound, Extends, Ids
  <2>9. NodesOnce(B) => NodesOnce(C)
    BY <2>1, <2>7 DEF Keeps, NodesOnce, Ids
  <2>10. SymbolsOnce(B) => SymbolsOnce(C)
    BY <1>2, <2>1, <2>2, <2>7 DEF Keeps, SymbolsOnce
  <2>11. ASSUME LeafEach(B) PROVE LeafEach(C)
    <3>1. \A v \in Ids(D) : ~SameNode(D.nodes[v], VarNode(s))
      BY <2>1, <2>2, OpAssumption DEF SameNode, VarNode, Sound, WellFormed, Ids
    <3>2. C = [nodes |-> Append(D.nodes, VarNode(s)), symbols |-> D.symbols]
      BY <2>3, <3>1 DEF Intern, FoundOrAppended
    <3>3. /\ C.nodes[Len(D.nodes) + 1] = VarNode(s)
          /\ Len(D.nodes) + 1 \in Ids(C)
          /\ \A v \in Ids(B) : v \in Ids(C) /\ C.nodes[v] = B.nodes[v]
          /\ C.symbols = D.symbols
      BY <1>0, <2>1, <2>5, <3>2 DEF Ids, FitsArena
    <3> QED
      BY <2>2, <2>11, <3>3 DEF LeafEach
  <2> QED
    BY <2>8, <2>9, <2>10, <2>11
<1> QED
  BY <1>1, <1>2

-----------------------------------------------------------------------------
(* The scalars themselves, as one kind of numbers. *)
LEMMA AmongScalars ==
  /\ Scalars.all = Scalar /\ Scalars.none = NaN
  /\ \A c \in Scalar : Scalars.of[c] = c
  /\ \A op \in UnaryOps, u \in Scalar : On1(Scalars, op, u) = Apply1(op, u)
  /\ \A op \in BinaryOps, l, r \in Scalar : On2(Scalars, op, l, r) = Apply2(op, l, r)
<1>1. Scalars.all = Scalar /\ Scalars.none = NaN
  BY DEF Scalars
<1>2. \A c \in Scalar : Scalars.of[c] = c
  BY DEF Scalars
<1>3. ASSUME NEW op \in UnaryOps, NEW u \in Scalar PROVE On1(Scalars, op, u) = Apply1(op, u)
  <2>1. Scalars.one = [o \in UnaryOps |-> [v \in Scalar |-> Apply1(o, v)]]
    BY DEF Scalars
  <2>. QED BY <2>1 DEF On1
<1>4. ASSUME NEW op \in BinaryOps, NEW l \in Scalar, NEW r \in Scalar
      PROVE  On2(Scalars, op, l, r) = Apply2(op, l, r)
  <2>1. Scalars.two = [o \in BinaryOps |-> [x \in Scalar |-> [y \in Scalar |-> Apply2(o, x, y)]]]
    BY DEF Scalars
  <2>. QED BY <2>1 DEF On2
<1>. QED BY <1>1, <1>2, <1>3, <1>4

LEMMA ScalarsConvert == Conversion(Scalars)
<1>1. \A c \in Scalar : Scalars.of[c] \in Scalars.all
  BY AmongScalars
<1>2. ASSUME NEW op \in UnaryOps, NEW u \in Scalars.all PROVE On1(Scalars, op, u) \in Scalars.all
  BY AmongScalars, ScalarAssumption
<1>3. ASSUME NEW op \in UnaryOps, NEW c \in Scalar
      PROVE  Is(Scalars, On1(Scalars, op, Scalars.of[c]), Scalars.of[Apply1(op, c)])
  <2>1. Scalars.of[c] = c /\ On1(Scalars, op, c) = Apply1(op, c)
    BY AmongScalars
  <2>2. Scalars.of[Apply1(op, c)] = Apply1(op, c)
    BY AmongScalars, ScalarAssumption
  <2>. QED BY <2>1, <2>2 DEF Is
<1>4. ASSUME NEW op \in BinaryOps, NEW u \in Scalars.all, NEW v \in Scalars.all
      PROVE  On2(Scalars, op, u, v) \in Scalars.all
  BY AmongScalars, ScalarAssumption
<1>5. ASSUME NEW op \in BinaryOps, NEW c \in Scalar, NEW d \in Scalar
      PROVE  Is(Scalars, On2(Scalars, op, Scalars.of[c], Scalars.of[d]), Scalars.of[Apply2(op, c, d)])
  <2>1. Scalars.of[c] = c /\ Scalars.of[d] = d /\ On2(Scalars, op, c, d) = Apply2(op, c, d)
    BY AmongScalars
  <2>2. Scalars.of[Apply2(op, c, d)] = Apply2(op, c, d)
    BY AmongScalars, ScalarAssumption
  <2>. QED BY <2>1, <2>2 DEF Is
<1>. QED BY <1>1, <1>2, <1>3, <1>4, <1>5 DEF Conversion

(* A node is computed from its operands, and from nothing else. *)
AgreeOn(ids, s, t) == \A u \in ids : s[u] = t[u]
LEMMA NodeValueReads ==
  ASSUME NEW K, NEW B, Sound(B), NEW v \in Ids(B), NEW n, n = B.nodes[v], NEW point,
         NEW s, NEW t, AgreeOn(Operands(n), s, t)
  PROVE  NodeValue(K, n, s, point) = NodeValue(K, n, t, point)
<1>1. n \in Node
  BY NodeOf
<1>2. /\ n.op \in UnaryOps \cup BinaryOps => n.a \in 1..(v - 1)
      /\ n.op \in BinaryOps => n.b \in 1..(v - 1)
  BY DEF Sound, WellFormed
<1>3. CASE n.op \in {"Const", "Var"}
  BY <1>3, OpAssumption DEF NodeValue
<1>4. CASE n.op \in UnaryOps
  <2>1. n.a \in Operands(n)
    BY <1>2, <1>4 DEF Operands, NoNode
  <2>2. n.op \notin {"Const", "Var"} /\ n.op \notin BinaryOps
    BY <1>4, OpAssumption
  <2>. QED BY <1>4, <2>1, <2>2 DEF NodeValue, AgreeOn
<1>5. CASE n.op \in BinaryOps
  <2>1. n.a \in Operands(n) /\ n.b \in Operands(n)
    BY <1>2, <1>5 DEF Operands, NoNode
  <2>2. n.op \notin {"Const", "Var"} /\ n.op \notin UnaryOps
    BY <1>5, OpAssumption
  <2>. QED BY <1>5, <2>1, <2>2 DEF NodeValue, AgreeOn
<1>. QED BY <1>1, <1>3, <1>4, <1>5 DEF Node

(* Operands come first. *)
LEMMA OperandsBelow ==
  ASSUME NEW B, Sound(B), NEW v \in Ids(B)
  PROVE  Operands(B.nodes[v]) \subseteq 1..(v - 1)
<1>1. B.nodes[v] \in Node
  BY NodeOf
<1>. QED BY <1>1 DEF Sound, WellFormed, Operands, Node, NoNode

LEMMA NodeValueNumber ==
  ASSUME NEW K, Conversion(K), NEW B, Sound(B), NEW v \in Ids(B),
         NEW point, point \in PointFor(K, B), NEW s,
         \A u \in 1..(v - 1) : s[u] \in K.all
  PROVE  NodeValue(K, B.nodes[v], s, point) \in K.all
<1>1. B.nodes[v] \in Node
  BY NodeOf
<1>2. /\ B.nodes[v].op \in UnaryOps \cup BinaryOps => B.nodes[v].a \in 1..(v - 1)
      /\ B.nodes[v].op \in BinaryOps => B.nodes[v].b \in 1..(v - 1)
      /\ B.nodes[v].op = "Var" => B.nodes[v].slot \in 1..Len(B.symbols)
  BY DEF Sound, WellFormed
<1>3. CASE B.nodes[v].op = "Const"
  BY <1>1, <1>3, OpAssumption DEF NodeValue, Node, Conversion
<1>4. CASE B.nodes[v].op = "Var"
  BY <1>2, <1>4, OpAssumption DEF NodeValue, PointFor
<1>5. CASE B.nodes[v].op \in UnaryOps
  <2>1. B.nodes[v].op \notin {"Const", "Var"} /\ B.nodes[v].op \notin BinaryOps
    BY <1>5, OpAssumption
  <2>2. On1(K, B.nodes[v].op, s[B.nodes[v].a]) \in K.all
    BY <1>2, <1>5 DEF Conversion
  <2>. QED BY <1>5, <2>1, <2>2 DEF NodeValue
<1>6. CASE B.nodes[v].op \in BinaryOps
  <2>1. B.nodes[v].op \notin {"Const", "Var"} /\ B.nodes[v].op \notin UnaryOps
    BY <1>6, OpAssumption
  <2>2. On2(K, B.nodes[v].op, s[B.nodes[v].a], s[B.nodes[v].b]) \in K.all
    BY <1>2, <1>6 DEF Conversion
  <2>. QED BY <1>6, <2>1, <2>2 DEF NodeValue
<1>. QED BY <1>1, <1>3, <1>4, <1>5, <1>6 DEF Node

(* The interpreter's pass: every node has a value, which is its operation's  *)
(* on its operands' values.                                                  *)
Interprets(K, B, point, vals) ==
  /\ vals \in Seq(K.all) /\ Len(vals) = Len(B.nodes)
  /\ \A v \in Ids(B) : vals[v] = NodeValue(K, B.nodes[v], vals, point)
LEMMA ValuesAnswers ==
  ASSUME NEW K, Conversion(K), NEW B, Sound(B), NEW point, point \in PointFor(K, B)
  PROVE  Interprets(K, B, point, ValuesAt(K, B, point))
<1> DEFINE n == Len(B.nodes)
           base == <<>>
           States == Seq(K.all)
           Solved(k, s) == \A v \in 1..k : s[v] = NodeValue(K, B.nodes[v], s, point)
           Reached(k) == {s \in States : Len(s) = k /\ Solved(k, s)}
           G == [k \in 0..n |-> Reached(k)]
           next == [k \in 1..n |-> [s \in States |-> Computed(K, s, B.nodes[k], point)]]
           Run(f) == f = [k \in 0..n |-> IF k = 0 THEN base ELSE Computed(K, f[k - 1], B.nodes[k], point)]
           after == CHOOSE f : Run(f)
<1>0. n \in Nat
  BY DEF Sound, Arenas
<1>1. base \in Reached(0)
  OBVIOUS
<1>2. ASSUME NEW k \in 1..n, NEW s \in Reached(k - 1) PROVE Computed(K, s, B.nodes[k], point) \in Reached(k)
  <2> DEFINE t == Computed(K, s, B.nodes[k], point)
             val == NodeValue(K, B.nodes[k], s, point)
  <2>1. s \in Seq(K.all) /\ Len(s) = k - 1 /\ Solved(k - 1, s)
    OBVIOUS
  <2>2. k \in Ids(B) /\ \A u \in 1..(k - 1) : s[u] \in K.all
    BY <1>0, <2>1 DEF Ids
  <2>3. val \in K.all
    BY <2>2, NodeValueNumber
  <2>4. t = Append(s, val)
    BY DEF Computed
  <2> HIDE DEF val, t
  <2>5. /\ t \in Seq(K.all) /\ Len(t) = k /\ t[k] = val
        /\ \A u \in 1..(k - 1) : t[u] = s[u]
    BY <1>0, <2>1, <2>3, <2>4
  <2>6. ASSUME NEW v \in 1..k PROVE t[v] = NodeValue(K, B.nodes[v], t, point)
    <3>1. v \in Ids(B)
      BY <1>0 DEF Ids
    <3>2. Operands(B.nodes[v]) \subseteq 1..(v - 1)
      BY <3>1, OperandsBelow
    <3>3. AgreeOn(Operands(B.nodes[v]), s, t)
      BY <2>5, <3>1, <3>2 DEF Ids, AgreeOn
    <3>4. NodeValue(K, B.nodes[v], s, point) = NodeValue(K, B.nodes[v], t, point)
      BY <3>1, <3>3, NodeValueReads
    <3>5. CASE v = k
      BY <2>5, <3>4, <3>5 DEF val
    <3>6. CASE v \in 1..(k - 1)
      BY <2>1, <2>5, <3>4, <3>6
    <3>. QED BY <1>0, <3>5, <3>6
  <2>. QED BY <2>5, <2>6 DEF t
<1> HIDE DEF n, base, States
<1>3. \A k \in 0..n : Reached(k) \subseteq States
  OBVIOUS
<1> HIDE DEF Reached
<1>4. PICK f \in [0..n -> States] :
           /\ f[0] = base
           /\ \A k \in 1..n : f[k - 1] \in G[k - 1] /\ f[k] = next[k][f[k - 1]]
  <2>1. base \in G[0] /\ \A k \in 0..n : G[k] \subseteq States
    BY <1>0, <1>1, <1>3
  <2>2. ASSUME NEW k \in 1..n, NEW s \in G[k - 1] PROVE next[k][s] \in G[k]
    <3>1. k \in 0..n /\ k - 1 \in 0..n
      BY <1>0
    <3>2. s \in Reached(k - 1)
      BY <3>1
    <3>3. s \in States /\ Computed(K, s, B.nodes[k], point) \in Reached(k)
      BY <1>2, <1>3, <3>1, <3>2
    <3>. QED BY <3>1, <3>3
  <2> HIDE DEF next, G
  <2>3. IsLoop(n, States, base, G, next)
    BY <1>0, <2>1, <2>2 DEF IsLoop
  <2>. QED BY <2>3, LoopRuns DEF IsRun
<1>5. ASSUME NEW k \in 1..n PROVE f[k] = Computed(K, f[k - 1], B.nodes[k], point)
  <2>1. f[k - 1] \in States /\ f[k] = next[k][f[k - 1]]
    <3> HIDE DEF next, G
    <3>. QED BY <1>0, <1>4
  <2>. QED BY <2>1
<1>6. Run(after)
  <2> HIDE DEF next
  <2>1. Run(f)
    BY <1>0, <1>4, <1>5
  <2>. QED BY <2>1
<1> HIDE DEF after
<1>7. \A k \in 0..n : after[k] \in Reached(k)
  <2>1. after[0] \in G[0]
    BY <1>0, <1>1, <1>6
  <2>2. ASSUME NEW k \in 1..n, after[k - 1] \in G[k - 1] PROVE after[k] \in G[k]
    <3>1. k \in 0..n /\ k - 1 \in 0..n
      BY <1>0
    <3>2. after[k - 1] \in Reached(k - 1) /\ after[k] = Computed(K, after[k - 1], B.nodes[k], point)
      BY <1>0, <1>6, <2>2, <3>1
    <3>3. after[k] \in Reached(k)
      BY <1>2, <3>2
    <3>. QED BY <3>1, <3>3
  <2>3. \A k \in 0..n : after[k] \in G[k]
    BY <1>0, <2>1, <2>2, LoopInvariant
  <2>. QED BY <2>3
<1>8. ValuesAt(K, B, point) = after[n]
  BY DEF ValuesAt, after, n, base
<1>9. after[n] \in Reached(n)
  BY <1>0, <1>7
<1>. QED BY <1>8, <1>9 DEF Reached, States, n, Interprets, Ids

-----------------------------------------------------------------------------
(* An arena that has all that B has, and finds it again: a call that formed  *)
(* B from an arena before it answers the same ids when it is made in C.      *)
Recalls(B, C) == Keeps(B, C) /\ NodesOnce(C) /\ Regular(C)

LEMMA RecallsBefore ==
  ASSUME NEW A, NEW B, NEW C, Sound(A), Keeps(A, B), Recalls(B, C)
  PROVE  Recalls(A, C)
  BY KeepsTransitive DEF Recalls

(* What is the same as one node is the same as what that is the same as. *)
LEMMA SameNodeTransitive ==
  ASSUME NEW l \in Node, NEW m \in Node, NEW n \in Node, SameNode(l, m), SameNode(m, n)
  PROVE  SameNode(l, n)
<1>1. l.op = m.op /\ m.op = n.op /\ l.a = n.a /\ l.b = n.b
  BY DEF SameNode
<1>2. CASE l.op = "Const"
  <2>1. Eq(l.value, m.value) /\ Eq(m.value, n.value)
    BY <1>1, <1>2 DEF SameNode
  <2>2. Eq(l.value, n.value)
    BY <2>1, EqAssumption DEF Node
  <2>. QED BY <1>1, <1>2, <2>2 DEF SameNode
<1>3. CASE l.op # "Const"
  BY <1>1, <1>3 DEF SameNode
<1>. QED BY <1>2, <1>3

LEMMA InternAgain ==
  ASSUME NEW B, Sound(B), NEW n, FitsArena(B, n), NEW C, Recalls(Intern(B, n).arena, C)
  PROVE  Intern(C, n) = [arena |-> C, id |-> Intern(B, n).id]
<1> DEFINE r == Intern(B, n)
           found == {v \in Ids(B) : SameNode(B.nodes[v], n)}
           again == {v \in Ids(C) : SameNode(C.nodes[v], n)}
<1>1. /\ Answers(B, r) /\ Sound(r.arena) /\ Sound(C) /\ n \in Node
      /\ Extends(C, r.arena) /\ NodesOnce(C) /\ Regular(C)
  BY InternAnswers DEF Answers, Keeps, Recalls, FitsArena
<1>2. r.id \in Ids(r.arena) /\ r.id \in Ids(C) /\ C.nodes[r.id] = r.arena.nodes[r.id]
  BY <1>1, IdsGrow DEF Answers, Recalls, Extends
<1>3. SameNode(C.nodes[r.id], n)
  <2>1. CASE found # {}
    <3>1. r = [arena |-> B, id |-> CHOOSE v \in found : TRUE]
      BY <2>1 DEF Intern, FoundOrAppended
    <3>2. (CHOOSE v \in found : TRUE) \in found
      BY <2>1
    <3>. QED BY <1>2, <3>1, <3>2
  <2>2. CASE found = {}
    <3>1. r = [arena |-> [nodes |-> Append(B.nodes, n), symbols |-> B.symbols],
               id |-> Len(B.nodes) + 1]
      BY <2>2 DEF Intern, FoundOrAppended
    <3>2. r.arena.nodes[r.id] = n
      BY <1>1, <3>1 DEF Sound, Arenas
    <3>3. n.op = "Const" => Eq(n.value, n.value)
      BY <1>1, <1>2, <3>2 DEF Regular
    <3>. QED BY <1>2, <3>2, <3>3 DEF SameNode
  <2>. QED BY <2>1, <2>2
<1>4. ASSUME NEW v \in Ids(C), SameNode(C.nodes[v], n) PROVE v = r.id
  <2>1. C.nodes[v] \in Node /\ C.nodes[r.id] \in Node
    BY <1>1, <1>2, NodeOf
  <2>2. SameNode(n, C.nodes[r.id])
    BY <1>1, <1>3, <2>1, SameNodeSymmetric
  <2>3. SameNode(C.nodes[v], C.nodes[r.id])
    BY <1>1, <1>4, <2>1, <2>2, SameNodeTransitive
  <2>. QED BY <1>1, <1>2, <2>3 DEF NodesOnce
<1> HIDE DEF r
<1>5. again = {r.id}
  BY <1>2, <1>3, <1>4
<1>6. Intern(C, n) = [arena |-> C, id |-> CHOOSE v \in again : TRUE]
  <2>1. again # {}
    BY <1>5
  <2>. QED BY <2>1 DEF Intern, FoundOrAppended
<1>7. (CHOOSE v \in again : TRUE) = r.id
  BY <1>5
<1>. QED BY <1>6, <1>7 DEF r

LEMMA ConstantAgain ==
  ASSUME NEW B, Sound(B), NEW v \in Scalar, NEW C, Recalls(Constant(B, v).arena, C)
  PROVE  Constant(C, v) = [arena |-> C, id |-> Constant(B, v).id]
<1>1. FitsArena(B, ConstNode(v))
  BY OpAssumption DEF FitsArena, ConstNode, Node, NoNode
<1> QED
  BY <1>1, InternAgain DEF Constant

(* What fold() and make() look at is what their operands are, and theirs.    *)
LEMMA FoldUnaryAgain ==
  ASSUME NEW B, Sound(B), NEW op \in UnaryOps, NEW a \in Ids(B),
         NEW C, Recalls(FoldUnary(B, op, a).arena, C), Keeps(B, C)
  PROVE  FoldUnary(C, op, a) = [arena |-> C, id |-> FoldUnary(B, op, a).id]
<1>1. C.nodes[a] = B.nodes[a] /\ (IsConst(C, a) <=> IsConst(B, a))
  BY DEF Keeps, Extends, IsConst
<1>2. CASE IsConst(B, a)
  <2>1. Apply1(op, B.nodes[a].value) \in Scalar
    BY NodeOf, ScalarAssumption DEF Node
  <2>2. FoldUnary(B, op, a) = Constant(B, Apply1(op, B.nodes[a].value))
    BY <1>2 DEF FoldUnary
  <2>3. FoldUnary(C, op, a) = Constant(C, Apply1(op, B.nodes[a].value))
    BY <1>1, <1>2 DEF FoldUnary
  <2>. QED BY <2>1, <2>2, <2>3, ConstantAgain
<1>3. CASE ~IsConst(B, a)
  BY <1>1, <1>3 DEF FoldUnary, Existing, Unfolded
<1>. QED BY <1>2, <1>3

LEMMA FoldBinaryAgain ==
  ASSUME NEW B, Sound(B), NEW op \in BinaryOps, NEW a \in Ids(B), NEW b \in Ids(B),
         NEW C, Recalls(FoldBinary(B, op, a, b).arena, C), Keeps(B, C)
  PROVE  FoldBinary(C, op, a, b) = [arena |-> C, id |-> FoldBinary(B, op, a, b).id]
<1> DEFINE Again(s, t) == Recalls(s.arena, C) => t = [arena |-> C, id |-> s.id]
<1>1. C.nodes[a] = B.nodes[a] /\ C.nodes[b] = B.nodes[b]
  BY DEF Keeps, Extends
<1>2. /\ IsConst(C, a) <=> IsConst(B, a)
      /\ IsConst(C, b) <=> IsConst(B, b)
      /\ \A k : (Holds(C, a, k) <=> Holds(B, a, k)) /\ (Holds(C, b, k) <=> Holds(B, b, k))
      /\ IsQuotientBy(C, a, b) <=> IsQuotientBy(B, a, b)
      /\ IsQuotientBy(C, b, a) <=> IsQuotientBy(B, b, a)
  BY <1>1 DEF IsConst, Holds, IsQuotientBy
<1>3. Zero \in Scalar /\ One \in Scalar
  BY ScalarAssumption
<1>4. \A v \in Scalar : Again(Constant(B, v), Constant(C, v))
  BY ConstantAgain
<1>5. \A v : Again(Existing(B, v), Existing(C, v))
  BY DEF Existing
<1>6. Again(Unfolded(B), Unfolded(C))
  BY DEF Unfolded
<1> HIDE DEF Again
<1>7. Again(FoldAdd(B, a, b), FoldAdd(C, a, b))
  BY <1>2, <1>5, <1>6 DEF FoldAdd
<1>8. Again(FoldMul(B, a, b), FoldMul(C, a, b))
  BY <1>1, <1>2, <1>3, <1>4, <1>5, <1>6 DEF FoldMul
<1>9. Again(FoldDiv(B, a, b), FoldDiv(C, a, b))
  BY <1>2, <1>3, <1>4, <1>5, <1>6 DEF FoldDiv
<1>10. Again(FoldPow(B, a, b), FoldPow(C, a, b))
  BY <1>2, <1>3, <1>4, <1>5, <1>6 DEF FoldPow
<1>11. Again(FoldBinary(B, op, a, b), FoldBinary(C, op, a, b))
  <2>1. CASE IsConst(B, a) /\ IsConst(B, b)
    <3>1. B.nodes[a].value \in Scalar /\ B.nodes[b].value \in Scalar
      BY NodeOf DEF Node
    <3>2. Apply2(op, B.nodes[a].value, B.nodes[b].value) \in Scalar
      BY <3>1, ScalarAssumption
    <3>. QED BY <1>1, <1>2, <1>4, <2>1, <3>2 DEF FoldBinary
  <2>2. CASE ~(IsConst(B, a) /\ IsConst(B, b))
    BY <1>2, <1>6, <1>7, <1>8, <1>9, <1>10, <2>2 DEF FoldBinary
  <2>. QED BY <2>1, <2>2
<1>. QED BY <1>11 DEF Again

LEMMA MakeUnaryAgain ==
  ASSUME NEW B, Sound(B), NEW op \in UnaryOps, NEW a \in Ids(B),
         NEW C, Recalls(Make(B, op, a, NoNode).arena, C)
  PROVE  Make(C, op, a, NoNode) = [arena |-> C, id |-> Make(B, op, a, NoNode).id]
<1> DEFINE folded == FoldUnary(B, op, a)
           again == FoldUnary(C, op, a)
<1>0. Keeps(B, C)
  BY MakeUnaryAnswers, RecallsBefore DEF Answers, Recalls
<1>1. /\ Fold(B, op, a, NoNode) = folded /\ Fold(C, op, a, NoNode) = again
      /\ Canonical(op, a, NoNode) = OpNode(op, a, NoNode)
  BY DEF Fold, Canonical
<1>2. CASE folded.id # NoNode
  <2>1. Make(B, op, a, NoNode) = folded
    BY <1>1, <1>2 DEF Make, FoldedOr
  <2>2. again = [arena |-> C, id |-> folded.id]
    BY <1>0, <2>1, FoldUnaryAgain
  <2>3. Make(C, op, a, NoNode) = again
    BY <1>1, <1>2, <2>2 DEF Make, FoldedOr
  <2>. QED BY <2>1, <2>2, <2>3
<1>3. CASE folded.id = NoNode
  <2>1. /\ Make(B, op, a, NoNode) = Intern(B, OpNode(op, a, NoNode))
        /\ folded = Unfolded(B)
    BY <1>1, <1>3, FoldUnaryAnswers DEF Make, FoldedOr
  <2>2. FitsArena(B, OpNode(op, a, NoNode))
    BY ScalarAssumption, OpAssumption DEF FitsArena, OpNode, Node, NoNode, Ids
  <2>3. Intern(C, OpNode(op, a, NoNode)) = [arena |-> C, id |-> Make(B, op, a, NoNode).id]
    BY <2>1, <2>2, InternAgain
  <2>4. Recalls(folded.arena, C)
    BY <1>0, <2>1 DEF Unfolded, Recalls
  <2>5. again.id = NoNode
    BY <1>0, <1>3, <2>4, FoldUnaryAgain
  <2>. QED BY <1>1, <2>3, <2>5 DEF Make, FoldedOr
<1>. QED BY <1>2, <1>3

LEMMA MakeBinaryAgain ==
  ASSUME NEW B, Sound(B), NEW op \in BinaryOps, NEW a \in Ids(B), NEW b \in Ids(B),
         NEW C, Recalls(Make(B, op, a, b).arena, C)
  PROVE  Make(C, op, a, b) = [arena |-> C, id |-> Make(B, op, a, b).id]
<1> DEFINE folded == FoldBinary(B, op, a, b)
           again == FoldBinary(C, op, a, b)
           n == Canonical(op, a, b)
<1>0. Keeps(B, C)
  BY MakeBinaryAnswers, RecallsBefore DEF Answers, Recalls
<1>1. Fold(B, op, a, b) = folded /\ Fold(C, op, a, b) = again
  BY OpAssumption DEF Fold
<1>2. CASE folded.id # NoNode
  <2>1. Make(B, op, a, b) = folded
    BY <1>1, <1>2 DEF Make, FoldedOr
  <2>2. again = [arena |-> C, id |-> folded.id]
    BY <1>0, <2>1, FoldBinaryAgain
  <2>3. Make(C, op, a, b) = again
    BY <1>1, <1>2, <2>2 DEF Make, FoldedOr
  <2>. QED BY <2>1, <2>2, <2>3
<1>3. CASE folded.id = NoNode
  <2>1. Make(B, op, a, b) = Intern(B, n) /\ folded = Unfolded(B)
    BY <1>1, <1>3, FoldBinaryAnswers DEF Make, FoldedOr
  <2>2. FitsArena(B, n)
    <3>1. ASSUME NEW u \in Ids(B), NEW w \in Ids(B) PROVE FitsArena(B, OpNode(op, u, w))
      BY ScalarAssumption, OpAssumption DEF FitsArena, OpNode, Node, NoNode, Ids
    <3>. QED BY <3>1 DEF Canonical
  <2> HIDE DEF n
  <2>3. Intern(C, n) = [arena |-> C, id |-> Make(B, op, a, b).id]
    BY <2>1, <2>2, InternAgain
  <2>4. Recalls(folded.arena, C)
    BY <1>0, <2>1 DEF Unfolded, Recalls
  <2>5. again.id = NoNode
    BY <1>0, <1>3, <2>4, FoldBinaryAgain
  <2>. QED BY <1>1, <2>3, <2>5 DEF Make, FoldedOr, n
<1>. QED BY <1>2, <1>3

-----------------------------------------------------------------------------
(* The values make() answers *)

(* When fold() answers, as a condition on the operands. *)
FoldsUnary(B, op, a) == IsConst(B, a) \/ (op = "Neg" /\ B.nodes[a].op = "Neg")
FoldsBinary(B, op, a, b) ==
  \/ IsConst(B, a) /\ IsConst(B, b)
  \/ op = "Add" /\ (Holds(B, a, Zero) \/ Holds(B, b, Zero))
  \/ /\ op = "Mul"
     /\ \/ Holds(B, a, Zero) \/ Holds(B, b, Zero) \/ Holds(B, a, One) \/ Holds(B, b, One)
        \/ IsQuotientBy(B, a, b) \/ (CommutativeMul /\ IsQuotientBy(B, b, a))
  \/ op = "Div" /\ (a = b \/ Holds(B, a, Zero) \/ Holds(B, b, One))
  \/ op = "Pow" /\ (Holds(B, b, Zero) \/ Holds(B, b, One))

LEMMA FoldUnaryWhen ==
  ASSUME NEW B, Sound(B), NEW op \in UnaryOps, NEW a \in Ids(B)
  PROVE  Fold(B, op, a, NoNode).id = NoNode <=> ~FoldsUnary(B, op, a)
<1>1. Fold(B, op, a, NoNode) = FoldUnary(B, op, a)
  BY DEF Fold
<1>2. CASE IsConst(B, a)
  <2>1. Apply1(op, B.nodes[a].value) \in Scalar
    BY NodeOf, ScalarAssumption DEF Node
  <2>2. Constant(B, Apply1(op, B.nodes[a].value)).id # NoNode
    BY <2>1, ConstantAnswers DEF Answers, Ids, NoNode
  <2> QED BY <1>1, <1>2, <2>2 DEF FoldUnary, FoldsUnary
<1>3. CASE ~IsConst(B, a) /\ op = "Neg" /\ B.nodes[a].op = "Neg"
  <2>1. B.nodes[a].a # NoNode
    BY <1>3 DEF Sound, Arenas, WellFormed, Ids, NoNode
  <2> QED BY <1>1, <1>3, <2>1 DEF FoldUnary, FoldsUnary, Existing
<1>4. CASE ~FoldsUnary(B, op, a)
  BY <1>1, <1>4 DEF FoldUnary, FoldsUnary, Unfolded
<1> QED BY <1>2, <1>3, <1>4 DEF FoldsUnary

LEMMA FoldBinaryWhen ==
  ASSUME NEW B, Sound(B), NEW op \in BinaryOps, NEW a \in Ids(B), NEW b \in Ids(B)
  PROVE  Fold(B, op, a, b).id = NoNode <=> ~FoldsBinary(B, op, a, b)
<1>1. Fold(B, op, a, b) = FoldBinary(B, op, a, b)
  BY OpAssumption DEF Fold
<1>2. \A v \in Scalar : Constant(B, v).id # NoNode
  BY ConstantAnswers DEF Answers, Ids, NoNode
<1>3. \A v \in Ids(B) : Existing(B, v).id # NoNode
  BY DEF Existing, Ids, NoNode
<1>4. Unfolded(B).id = NoNode
  BY DEF Unfolded
<1>5. Zero \in Scalar /\ One \in Scalar
  BY ScalarAssumption
<1>6. ASSUME NEW q \in Ids(B), B.nodes[q].op = "Div" PROVE B.nodes[q].a \in Ids(B)
  <2>1. "Div" \in UnaryOps \cup BinaryOps
    BY <1>6, NodeOf DEF Node
  <2> QED BY <1>6, <2>1 DEF Sound, Arenas, WellFormed, Ids
<1>7. CASE IsConst(B, a) /\ IsConst(B, b)
  <2>1. Apply2(op, B.nodes[a].value, B.nodes[b].value) \in Scalar
    BY NodeOf, ScalarAssumption DEF Node
  <2> QED BY <1>1, <1>2, <1>7, <2>1 DEF FoldBinary, FoldsBinary
<1>8. CASE ~(IsConst(B, a) /\ IsConst(B, b))
  <2>1. CASE op = "Add"
    <3>1. Fold(B, op, a, b) = FoldAdd(B, a, b)
      BY <1>1, <1>8, <2>1 DEF FoldBinary
    <3> QED BY <1>3, <1>4, <1>8, <2>1, <3>1 DEF FoldAdd, FoldsBinary
  <2>2. CASE op = "Mul"
    <3>1. Fold(B, op, a, b) = FoldMul(B, a, b)
      BY <1>1, <1>8, <2>2 DEF FoldBinary
    <3> QED BY <1>2, <1>3, <1>4, <1>5, <1>6, <1>8, <2>2, <3>1 DEF FoldMul, FoldsBinary, IsQuotientBy
  <2>3. CASE op = "Div"
    <3>1. Fold(B, op, a, b) = FoldDiv(B, a, b)
      BY <1>1, <1>8, <2>3 DEF FoldBinary
    <3> QED BY <1>2, <1>3, <1>4, <1>5, <1>8, <2>3, <3>1 DEF FoldDiv, FoldsBinary
  <2>4. CASE op = "Pow"
    <3>1. Fold(B, op, a, b) = FoldPow(B, a, b)
      BY <1>1, <1>8, <2>4 DEF FoldBinary
    <3> QED BY <1>2, <1>3, <1>4, <1>5, <1>8, <2>4, <3>1 DEF FoldPow, FoldsBinary
  <2>5. CASE op \notin {"Add", "Mul", "Div", "Pow"}
    <3>1. Fold(B, op, a, b) = Unfolded(B)
      BY <1>1, <1>8, <2>5 DEF FoldBinary
    <3> QED BY <1>4, <1>8, <2>5, <3>1 DEF FoldsBinary
  <2> QED BY <2>1, <2>2, <2>3, <2>4, <2>5
<1> QED BY <1>7, <1>8

LEMMA OperandsIn ==
  ASSUME NEW B, Sound(B), NEW v \in Ids(B)
  PROVE  /\ B.nodes[v].op \in UnaryOps => B.nodes[v].a \in Ids(B) /\ B.nodes[v].b = NoNode
         /\ B.nodes[v].op \in BinaryOps => B.nodes[v].a \in Ids(B) /\ B.nodes[v].b \in Ids(B)
BY OpAssumption DEF Sound, Arenas, WellFormed, Ids

(* The value of what intern() answers is the value of what it was asked for. *)
EqualIsSame == \A v, w \in Scalar : Eq(v, w) => v = w
LEMMA InternValue ==
  ASSUME EqualIsSame, NEW K, NEW B, Sound(B), NEW n, FitsArena(B, n), NEW p, NEW vals,
         Interprets(K, B, p, vals)
  PROVE  ReplyValue(K, Intern(B, n), vals, p) = NodeValue(K, n, vals, p)
<1> DEFINE found == {v \in Ids(B) : SameNode(B.nodes[v], n)}
<1>0. DOMAIN vals = Ids(B) /\ B.nodes \in Seq(Node) /\ n \in Node
  BY DEF Interprets, Ids, Sound, Arenas, FitsArena
<1>1. CASE found # {}
  <2> DEFINE w == CHOOSE v \in found : TRUE
  <2>1. w \in Ids(B) /\ SameNode(B.nodes[w], n)
    BY <1>1
  <2>2. Intern(B, n) = [arena |-> B, id |-> w]
    BY <1>1 DEF Intern, FoundOrAppended
  <2> HIDE DEF w
  <2>3. ReplyValue(K, Intern(B, n), vals, p) = NodeValue(K, B.nodes[w], vals, p)
    BY <1>0, <2>1, <2>2 DEF ReplyValue, Interprets
  <2>4. /\ B.nodes[w] \in Node /\ B.nodes[w].op = n.op /\ B.nodes[w].a = n.a /\ B.nodes[w].b = n.b
        /\ n.op = "Const" => B.nodes[w].value = n.value
        /\ n.op # "Const" => B.nodes[w].slot = n.slot
    <3>1. B.nodes[w] \in Node
      BY <2>1, NodeOf
    <3>2. /\ B.nodes[w].op = n.op /\ B.nodes[w].a = n.a /\ B.nodes[w].b = n.b
          /\ n.op = "Const" => Eq(B.nodes[w].value, n.value)
          /\ n.op # "Const" => B.nodes[w].slot = n.slot
      BY <2>1 DEF SameNode
    <3>3. B.nodes[w].value \in Scalar /\ n.value \in Scalar
      BY <1>0, <3>1 DEF Node
    <3>. QED BY <3>1, <3>2, <3>3 DEF EqualIsSame
  <2>5. NodeValue(K, B.nodes[w], vals, p) = NodeValue(K, n, vals, p)
    <3>1. CASE n.op = "Const"
      BY <2>4, <3>1 DEF NodeValue
    <3>2. CASE n.op = "Var"
      BY <2>4, <3>2 DEF NodeValue
    <3>3. CASE n.op \in UnaryOps
      BY <2>4, <3>3, OpAssumption DEF NodeValue
    <3>4. CASE n.op \in BinaryOps
      BY <2>4, <3>4, OpAssumption DEF NodeValue
    <3>. QED BY <1>0, <3>1, <3>2, <3>3, <3>4 DEF Node
  <2>. QED BY <2>3, <2>5
<1>2. CASE found = {}
  <2>1. Intern(B, n) = [arena |-> [nodes |-> Append(B.nodes, n), symbols |-> B.symbols],
                        id |-> Len(B.nodes) + 1]
    BY <1>2 DEF Intern, FoundOrAppended
  <2>2. Append(B.nodes, n)[Len(B.nodes) + 1] = n /\ Len(B.nodes) + 1 \notin Ids(B)
    BY <1>0 DEF Ids
  <2>. QED BY <1>0, <2>1, <2>2 DEF ReplyValue
<1>. QED BY <1>1, <1>2

LEMMA ConstantValue ==
  ASSUME EqualIsSame, NEW K, NEW B, Sound(B), NEW c \in Scalar, NEW p, NEW vals,
         Interprets(K, B, p, vals)
  PROVE  ReplyValue(K, Constant(B, c), vals, p) = K.of[c]
<1>1. FitsArena(B, ConstNode(c))
  BY OpAssumption DEF FitsArena, ConstNode, Node, NoNode
<1>2. NodeValue(K, ConstNode(c), vals, p) = K.of[c]
  BY OpAssumption DEF NodeValue, ConstNode
<1>. QED BY <1>1, <1>2, InternValue DEF Constant

LEMMA ExistingValue ==
  ASSUME NEW K, NEW B, NEW v \in Ids(B), NEW p, NEW vals, Interprets(K, B, p, vals)
  PROVE  ReplyValue(K, Existing(B, v), vals, p) = vals[v]
BY DEF ReplyValue, Existing, Interprets, Ids

(* What fold() looks at an operand for, as what the operand's value is. *)
LEMMA OperandValues ==
  ASSUME EqualIsSame, NEW K, NEW B, Sound(B), NEW p, NEW vals, Interprets(K, B, p, vals),
         NEW a \in Ids(B), NEW b \in Ids(B)
  PROVE  /\ vals[a] \in K.all
         /\ IsConst(B, a) => B.nodes[a].value \in Scalar /\ vals[a] = K.of[B.nodes[a].value]
         /\ Holds(B, a, Zero) => vals[a] = K.of[Zero]
         /\ Holds(B, a, One) => vals[a] = K.of[One]
<1>1. B.nodes[a] \in Node /\ vals[a] = NodeValue(K, B.nodes[a], vals, p)
  BY NodeOf DEF Interprets
<1>2. vals[a] \in K.all
  BY DEF Interprets, Ids
<1>3. IsConst(B, a) => B.nodes[a].value \in Scalar /\ vals[a] = K.of[B.nodes[a].value]
  BY <1>1, OpAssumption DEF IsConst, NodeValue, Node
<1>4. ASSUME NEW k \in Scalar, Holds(B, a, k) PROVE vals[a] = K.of[k]
  BY <1>1, <1>3, <1>4 DEF Holds, Node, EqualIsSame
<1>. QED BY <1>2, <1>3, <1>4, ScalarAssumption

LEMMA QuotientValue ==
  ASSUME NEW K, NEW B, Sound(B), NEW p, NEW vals, Interprets(K, B, p, vals),
         NEW a \in Ids(B), NEW b \in Ids(B), IsQuotientBy(B, a, b)
  PROVE  /\ "Div" \in BinaryOps /\ B.nodes[a].a \in Ids(B)
         /\ vals[a] = On2(K, "Div", vals[B.nodes[a].a], vals[b])
<1>1. B.nodes[a] \in Node /\ vals[a] = NodeValue(K, B.nodes[a], vals, p)
  BY NodeOf DEF Interprets
<1>2. B.nodes[a].op = "Div" /\ B.nodes[a].b = b /\ b # NoNode
  BY DEF IsQuotientBy, Ids, NoNode
<1>3. "Div" \in BinaryOps
  BY <1>1, <1>2 DEF Sound, WellFormed
<1>4. B.nodes[a].a \in Ids(B)
  BY <1>2, <1>3, OperandsIn
<1>5. NodeValue(K, B.nodes[a], vals, p) = On2(K, "Div", vals[B.nodes[a].a], vals[b])
  BY <1>2, <1>3, OpAssumption DEF NodeValue
<1>. QED BY <1>1, <1>3, <1>4, <1>5

(* Where a folded constant has the value that the operation has: among the    *)
(* scalars always, for they are what fold() computes in, and in other numbers *)
(* where the operation has a value.                                           *)
Given(K, op, u) == K = Scalars \/ On1(K, op, u) # K.none
LEMMA UnaryRewriteSound ==
  ASSUME NEW K, NumberLaws(K), NEW B, Sound(B), NEW p, NEW vals, Interprets(K, B, p, vals),
         NEW op \in UnaryOps, NEW a \in Ids(B), Given(K, op, vals[a])
  PROVE  ReplyValue(K, Make(B, op, a, NoNode), vals, p) = On1(K, op, vals[a])
<1>0. EqualIsSame
  BY DEF NumberLaws, EqualIsSame
<1>1. CASE FoldsUnary(B, op, a)
  <2>1. Make(B, op, a, NoNode) = FoldUnary(B, op, a)
    BY <1>1, FoldUnaryWhen DEF Make, FoldedOr, Fold
  <2>2. CASE IsConst(B, a)
    <3> DEFINE c == B.nodes[a].value
    <3>1. c \in Scalar /\ vals[a] = K.of[c]
      BY <1>0, <2>2, OperandValues
    <3>5. Apply1(op, c) \in Scalar
      BY <3>1, ScalarAssumption
    <3>2. ReplyValue(K, Make(B, op, a, NoNode), vals, p) = K.of[Apply1(op, c)]
      BY <1>0, <2>1, <2>2, <3>5, ConstantValue DEF FoldUnary
    <3>3. CASE K = Scalars
      BY <3>1, <3>2, <3>3, <3>5, AmongScalars
    <3>4. CASE On1(K, op, vals[a]) # K.none
      BY <3>1, <3>2, <3>4 DEF NumberLaws, Conversion, Is
    <3>. QED BY <3>3, <3>4 DEF Given
  <2>3. CASE ~IsConst(B, a)
    <3> DEFINE inner == B.nodes[a].a
    <3>1. op = "Neg" /\ B.nodes[a].op = "Neg"
      BY <1>1, <2>3 DEF FoldsUnary
    <3>2. inner \in Ids(B) /\ vals[inner] \in K.all
      BY <1>0, <3>1, OperandsIn, OperandValues
    <3>3. vals[a] = On1(K, "Neg", vals[inner])
      BY <3>1, OpAssumption DEF Interprets, NodeValue
    <3>4. ReplyValue(K, Make(B, op, a, NoNode), vals, p) = vals[inner]
      BY <2>1, <2>3, <3>1, <3>2, ExistingValue DEF FoldUnary
    <3>. QED BY <3>1, <3>2, <3>3, <3>4 DEF NumberLaws
  <2>. QED BY <2>2, <2>3
<1>2. CASE ~FoldsUnary(B, op, a)
  <2>1. Make(B, op, a, NoNode) = Intern(B, OpNode(op, a, NoNode))
    BY <1>2, FoldUnaryWhen DEF Make, FoldedOr, Canonical
  <2>2. FitsArena(B, OpNode(op, a, NoNode))
    BY ScalarAssumption, OpAssumption DEF FitsArena, OpNode, Node, NoNode, Ids
  <2>3. NodeValue(K, OpNode(op, a, NoNode), vals, p) = On1(K, op, vals[a])
    BY OpAssumption DEF NodeValue, OpNode
  <2>. QED BY <1>0, <2>1, <2>2, <2>3, InternValue
<1>. QED BY <1>1, <1>2

LEMMA BinaryFoldSound ==
  ASSUME NEW K, NumberLaws(K), NEW B, Sound(B), NEW p, NEW vals, Interprets(K, B, p, vals),
         NEW op \in BinaryOps, NEW a \in Ids(B), NEW b \in Ids(B),
         FoldsBinary(B, op, a, b), On2(K, op, vals[a], vals[b]) # K.none
  PROVE  ReplyValue(K, FoldBinary(B, op, a, b), vals, p) = On2(K, op, vals[a], vals[b])
<1> DEFINE l == vals[a]
           r == vals[b]
<1>0. EqualIsSame
  BY DEF NumberLaws, EqualIsSame
<1>1. \A c \in Scalar : ReplyValue(K, Constant(B, c), vals, p) = K.of[c]
  BY <1>0, ConstantValue
<1>2. \A v \in Ids(B) : ReplyValue(K, Existing(B, v), vals, p) = vals[v]
  BY ExistingValue
<1>3. Zero \in Scalar /\ One \in Scalar /\ l \in K.all /\ r \in K.all
  BY <1>0, OperandValues, ScalarAssumption
<1>4. /\ IsConst(B, a) => B.nodes[a].value \in Scalar /\ l = K.of[B.nodes[a].value]
      /\ IsConst(B, b) => B.nodes[b].value \in Scalar /\ r = K.of[B.nodes[b].value]
      /\ Holds(B, a, Zero) => l = K.of[Zero]
      /\ Holds(B, a, One) => l = K.of[One]
      /\ Holds(B, b, Zero) => r = K.of[Zero]
      /\ Holds(B, b, One) => r = K.of[One]
  BY <1>0, OperandValues
<1>5. CASE IsConst(B, a) /\ IsConst(B, b)
  <2> DEFINE c == B.nodes[a].value
             d == B.nodes[b].value
  <2>1. c \in Scalar /\ d \in Scalar /\ l = K.of[c] /\ r = K.of[d] /\ Apply2(op, c, d) \in Scalar
    BY <1>4, <1>5, ScalarAssumption
  <2>2. ReplyValue(K, FoldBinary(B, op, a, b), vals, p) = K.of[Apply2(op, c, d)]
    BY <1>1, <1>5, <2>1 DEF FoldBinary
  <2>. QED BY <2>1, <2>2 DEF NumberLaws, Conversion, Is
<1>6. CASE ~(IsConst(B, a) /\ IsConst(B, b))
  <2>1. CASE op = "Add"
    <3>1. FoldBinary(B, op, a, b) = FoldAdd(B, a, b)
      BY <1>6, <2>1 DEF FoldBinary
    <3>2. Is(K, On2(K, "Add", K.of[Zero], r), r) /\ Is(K, On2(K, "Add", l, K.of[Zero]), l)
      BY <1>3, <2>1 DEF NumberLaws
    <3>. QED BY <1>2, <1>4, <1>6, <2>1, <3>1, <3>2 DEF FoldAdd, FoldsBinary, Is
  <2>2. CASE op = "Mul"
    <3>1. FoldBinary(B, op, a, b) = FoldMul(B, a, b)
      BY <1>6, <2>2 DEF FoldBinary
    <3>2. /\ Is(K, On2(K, "Mul", K.of[Zero], r), K.of[Zero]) /\ Is(K, On2(K, "Mul", l, K.of[Zero]), K.of[Zero])
          /\ Is(K, On2(K, "Mul", K.of[One], r), r) /\ Is(K, On2(K, "Mul", l, K.of[One]), l)
      BY <1>3, <2>2 DEF NumberLaws
    <3>3. ASSUME IsQuotientBy(B, a, b)
          PROVE  ReplyValue(K, Existing(B, B.nodes[a].a), vals, p) = On2(K, "Mul", l, r)
      <4> DEFINE n == vals[B.nodes[a].a]
      <4>1. "Div" \in BinaryOps /\ B.nodes[a].a \in Ids(B) /\ l = On2(K, "Div", n, r)
        BY <3>3, QuotientValue
      <4>3. n \in K.all
        BY <4>1 DEF Interprets, Ids
      <4>2. Is(K, On2(K, "Mul", On2(K, "Div", n, r), r), n)
        BY <1>3, <2>2, <4>1, <4>3 DEF NumberLaws
      <4>. QED BY <1>2, <2>2, <4>1, <4>2 DEF Is
    <3>4. ASSUME CommutativeMul, IsQuotientBy(B, b, a)
          PROVE  ReplyValue(K, Existing(B, B.nodes[b].a), vals, p) = On2(K, "Mul", l, r)
      <4> DEFINE n == vals[B.nodes[b].a]
      <4>1. "Div" \in BinaryOps /\ B.nodes[b].a \in Ids(B) /\ r = On2(K, "Div", n, l)
        BY <3>4, QuotientValue
      <4>4. n \in K.all
        BY <4>1 DEF Interprets, Ids
      <4>2. Is(K, On2(K, "Mul", On2(K, "Div", n, l), l), n)
        BY <1>3, <2>2, <4>1, <4>4 DEF NumberLaws
      <4>3. On2(K, "Mul", l, r) = On2(K, "Mul", r, l)
        BY <1>3, <2>2, <3>4 DEF NumberLaws, IsCommutative
      <4>. QED BY <1>2, <2>2, <4>1, <4>2, <4>3 DEF Is
    <3>5. ASSUME Holds(B, a, Zero) \/ Holds(B, b, Zero)
          PROVE  ReplyValue(K, FoldBinary(B, op, a, b), vals, p) = On2(K, "Mul", l, r)
      BY <1>1, <1>3, <1>4, <2>2, <3>1, <3>2, <3>5 DEF FoldMul, Is
    <3>6. ASSUME ~(Holds(B, a, Zero) \/ Holds(B, b, Zero))
          PROVE  ReplyValue(K, FoldBinary(B, op, a, b), vals, p) = On2(K, "Mul", l, r)
      <4>1. CASE Holds(B, a, One)
        BY <1>2, <1>4, <2>2, <3>1, <3>2, <3>6, <4>1 DEF FoldMul, Is
      <4>2. CASE ~Holds(B, a, One) /\ Holds(B, b, One)
        BY <1>2, <1>4, <2>2, <3>1, <3>2, <3>6, <4>2 DEF FoldMul, Is
      <4>3. CASE ~Holds(B, a, One) /\ ~Holds(B, b, One) /\ IsQuotientBy(B, a, b)
        BY <3>1, <3>3, <3>6, <4>3 DEF FoldMul
      <4>4. CASE ~Holds(B, a, One) /\ ~Holds(B, b, One) /\ ~IsQuotientBy(B, a, b)
        <5>1. CommutativeMul /\ IsQuotientBy(B, b, a)
          BY <1>6, <2>2, <3>6, <4>4 DEF FoldsBinary
        <5>. QED BY <3>1, <3>4, <3>6, <4>4, <5>1 DEF FoldMul
      <4>. QED BY <4>1, <4>2, <4>3, <4>4
    <3>. QED BY <2>2, <3>5, <3>6
  <2>3. CASE op = "Div"
    <3>1. FoldBinary(B, op, a, b) = FoldDiv(B, a, b)
      BY <1>6, <2>3 DEF FoldBinary
    <3>2. /\ Is(K, On2(K, "Div", l, l), K.of[One]) /\ Is(K, On2(K, "Div", K.of[Zero], r), K.of[Zero])
          /\ Is(K, On2(K, "Div", l, K.of[One]), l)
      BY <1>3, <2>3 DEF NumberLaws
    <3>. QED BY <1>1, <1>2, <1>3, <1>4, <1>6, <2>3, <3>1, <3>2 DEF FoldDiv, FoldsBinary, Is
  <2>4. CASE op = "Pow"
    <3>1. FoldBinary(B, op, a, b) = FoldPow(B, a, b)
      BY <1>6, <2>4 DEF FoldBinary
    <3>2. Is(K, On2(K, "Pow", l, K.of[Zero]), K.of[One]) /\ Is(K, On2(K, "Pow", l, K.of[One]), l)
      BY <1>3, <2>4 DEF NumberLaws
    <3>. QED BY <1>1, <1>2, <1>3, <1>4, <1>6, <2>4, <3>1, <3>2 DEF FoldPow, FoldsBinary, Is
  <2>. QED BY <1>6, <2>1, <2>2, <2>3, <2>4 DEF FoldsBinary
<1>. QED BY <1>5, <1>6

LEMMA BinaryRewriteSound ==
  ASSUME NEW K, NumberLaws(K), NEW B, Sound(B), NEW p, NEW vals, Interprets(K, B, p, vals),
         NEW op \in BinaryOps, NEW a \in Ids(B), NEW b \in Ids(B),
         On2(K, op, vals[a], vals[b]) # K.none
  PROVE  ReplyValue(K, Make(B, op, a, b), vals, p) = On2(K, op, vals[a], vals[b])
<1>0. EqualIsSame
  BY DEF NumberLaws, EqualIsSame
<1>1. CASE FoldsBinary(B, op, a, b)
  <2>1. Make(B, op, a, b) = FoldBinary(B, op, a, b)
    BY <1>1, FoldBinaryWhen, OpAssumption DEF Make, FoldedOr, Fold
  <2>. QED BY <1>1, <2>1, BinaryFoldSound
<1>2. CASE ~FoldsBinary(B, op, a, b)
  <2> DEFINE n == Canonical(op, a, b)
  <2>1. Make(B, op, a, b) = Intern(B, n)
    BY <1>2, FoldBinaryWhen DEF Make, FoldedOr
  <2>2. ASSUME NEW u \in Ids(B), NEW w \in Ids(B)
        PROVE  /\ FitsArena(B, OpNode(op, u, w))
               /\ NodeValue(K, OpNode(op, u, w), vals, p) = On2(K, op, vals[u], vals[w])
    <3>1. FitsArena(B, OpNode(op, u, w))
      BY ScalarAssumption, OpAssumption DEF FitsArena, OpNode, Node, NoNode, Ids
    <3>2. NodeValue(K, OpNode(op, u, w), vals, p) = On2(K, op, vals[u], vals[w])
      BY OpAssumption DEF NodeValue, OpNode
    <3>. QED BY <3>1, <3>2
  <2>3. CASE n = OpNode(op, b, a) /\ IsCommutative(op)
    <3>1. On2(K, op, vals[b], vals[a]) = On2(K, op, vals[a], vals[b])
      <4>1. vals[a] \in K.all /\ vals[b] \in K.all
        BY <1>0, OperandValues
      <4>. QED BY <2>3, <4>1 DEF NumberLaws
    <3>. QED BY <1>0, <2>1, <2>2, <2>3, <3>1, InternValue
  <2>4. CASE n = OpNode(op, a, b)
    BY <1>0, <2>1, <2>2, <2>4, InternValue
  <2>. QED BY <2>3, <2>4 DEF Canonical
<1>. QED BY <1>1, <1>2

-----------------------------------------------------------------------------
(* The same values in the arena that anything formed since has left: every   *)
(* arena keeps the values of what it had, and an answer's is what it was.    *)

LEMMA FunctionIsSequence ==
  ASSUME NEW T, NEW n \in Nat, NEW f \in [1..n -> T]
  PROVE  f \in Seq(T) /\ Len(f) = n
<1>1. f = [i \in 1..n |-> f[i]]
  OBVIOUS
<1>2. [i \in 1..n |-> f[i]] \in Seq(T) /\ Len([i \in 1..n |-> f[i]]) = n
  OBVIOUS
<1> QED
  BY <1>1, <1>2

(* One point gives a node one value, however many nodes there are by now. *)
LEMMA ValuesKept ==
  ASSUME NEW K, NEW B, Sound(B), NEW C, Keeps(B, C), NEW p, NEW v, Interprets(K, B, p, v),
         NEW w, Interprets(K, C, p, w)
  PROVE  \A u \in Ids(B) : w[u] = v[u]
<1> DEFINE S == {n \in Nat : \A u \in Ids(B) : u <= n => w[u] = v[u]}
<1>0. Len(B.nodes) \in Nat /\ Sound(C)
  BY DEF Sound, Arenas, Keeps
<1>1. 0 \in S
  BY <1>0 DEF Ids
<1>2. ASSUME NEW n \in Nat, n \in S PROVE n + 1 \in S
  <2>1. ASSUME NEW u \in Ids(B), u <= n + 1 PROVE w[u] = v[u]
    <3>1. u \in Ids(C) /\ C.nodes[u] = B.nodes[u]
      BY IdsGrow DEF Keeps, Extends
    <3>2. ASSUME NEW t \in Operands(B.nodes[u]) PROVE w[t] = v[t]
      <4>1. t \in 1..(u - 1) /\ u \in 1..Len(B.nodes)
        BY OperandsBelow DEF Ids
      <4>2. t \in Ids(B) /\ t <= n
        BY <1>0, <2>1, <4>1 DEF Ids
      <4>. QED BY <1>2, <4>2
    <3>3. NodeValue(K, B.nodes[u], w, p) = NodeValue(K, B.nodes[u], v, p)
      BY <3>2, NodeValueReads DEF AgreeOn
    <3>. QED BY <3>1, <3>3 DEF Interprets
  <2>. QED BY <2>1
<1>3. \A n \in Nat : n \in S
  <2> HIDE DEF S
  <2>. QED BY <1>1, <1>2, SetInduction
<1>. QED BY <1>0, <1>3 DEF Ids

(* The values of an earlier arena are the first of a later one's. *)
Before(B, w) == [u \in Ids(B) |-> w[u]]
LEMMA ValuesBefore ==
  ASSUME NEW K, NEW B, Sound(B), NEW C, Keeps(B, C), NEW p, NEW w, Interprets(K, C, p, w)
  PROVE  Interprets(K, B, p, Before(B, w))
<1> DEFINE v == Before(B, w)
<1>0. Len(B.nodes) \in Nat
  BY DEF Sound, Arenas
<1>1. v \in [1..Len(B.nodes) -> K.all]
  BY IdsGrow DEF Before, Interprets, Ids
<1>2. v \in Seq(K.all) /\ Len(v) = Len(B.nodes)
  <2> HIDE DEF v
  <2>. QED BY <1>0, <1>1, FunctionIsSequence
<1>3. ASSUME NEW u \in Ids(B) PROVE v[u] = NodeValue(K, B.nodes[u], v, p)
  <2>1. u \in Ids(C) /\ C.nodes[u] = B.nodes[u]
    BY IdsGrow DEF Keeps, Extends
  <2>2. AgreeOn(Operands(B.nodes[u]), w, v)
    <3>1. Operands(B.nodes[u]) \subseteq Ids(B)
      BY <1>0, OperandsBelow DEF Ids
    <3>. QED BY <3>1 DEF AgreeOn, Before
  <2>3. NodeValue(K, B.nodes[u], w, p) = NodeValue(K, B.nodes[u], v, p)
    BY <2>2, NodeValueReads
  <2>. QED BY <2>1, <2>3 DEF Interprets, Before
<1>. QED BY <1>2, <1>3 DEF Interprets

LEMMA ReplyLater ==
  ASSUME NEW K, NEW B, Sound(B), NEW reply, Answers(B, reply),
         Len(reply.arena.nodes) <= Len(B.nodes) + 1,
         NEW C, Keeps(reply.arena, C), NEW p, NEW w, Interprets(K, C, p, w)
  PROVE  w[reply.id] = ReplyValue(K, reply, Before(B, w), p)
<1> DEFINE A == reply.arena
           v == Before(B, w)
<1>0. Len(B.nodes) \in Nat /\ Sound(A) /\ Len(A.nodes) \in Nat /\ DOMAIN v = Ids(B)
  BY DEF Sound, Arenas, Answers, Keeps, Before
<1>1. CASE reply.id \in Ids(B)
  BY <1>0, <1>1 DEF ReplyValue, Before
<1>2. CASE reply.id \notin Ids(B)
  <2>1. reply.id \in Ids(A) /\ reply.id = Len(B.nodes) + 1
    BY <1>0, <1>2 DEF Answers, Ids
  <2>2. reply.id \in Ids(C) /\ C.nodes[reply.id] = A.nodes[reply.id]
    BY <1>0, <2>1, IdsGrow DEF Keeps, Extends
  <2>3. AgreeOn(Operands(A.nodes[reply.id]), w, v)
    <3>1. Operands(A.nodes[reply.id]) \subseteq Ids(B)
      <4> DEFINE k == reply.id
      <4>1. Operands(A.nodes[k]) \subseteq 1..(k - 1)
        BY <1>0, <2>1, OperandsBelow
      <4> HIDE DEF k
      <4>. QED BY <1>0, <2>1, <4>1 DEF Ids, k
    <3>. QED BY <3>1 DEF AgreeOn, Before
  <2>4. NodeValue(K, A.nodes[reply.id], w, p) = NodeValue(K, A.nodes[reply.id], v, p)
    BY <1>0, <2>1, <2>3, NodeValueReads
  <2>. QED BY <1>0, <1>2, <2>2, <2>4 DEF ReplyValue, Interprets
<1>. QED BY <1>1, <1>2

LEMMA InternAddsOne ==
  ASSUME NEW B, Sound(B), NEW n
  PROVE  Len(Intern(B, n).arena.nodes) <= Len(B.nodes) + 1
BY DEF Intern, FoundOrAppended, Sound, Arenas

LEMMA MakeAddsOne ==
  ASSUME NEW B, Sound(B), NEW op, NEW a, NEW b
  PROVE  Len(Make(B, op, a, b).arena.nodes) <= Len(B.nodes) + 1
<1>0. Len(B.nodes) \in Nat /\ \A n : Len(Intern(B, n).arena.nodes) <= Len(B.nodes) + 1
  BY InternAddsOne DEF Sound, Arenas
<1>1. /\ \A v : Len(Constant(B, v).arena.nodes) <= Len(B.nodes) + 1
      /\ \A v : Existing(B, v).arena = B
      /\ Unfolded(B).arena = B
  BY <1>0 DEF Constant, Existing, Unfolded
<1>2. Len(FoldUnary(B, op, a).arena.nodes) <= Len(B.nodes) + 1
  BY <1>0, <1>1 DEF FoldUnary
<1>3. Len(FoldAdd(B, a, b).arena.nodes) <= Len(B.nodes) + 1
  BY <1>0, <1>1 DEF FoldAdd
<1>4. Len(FoldMul(B, a, b).arena.nodes) <= Len(B.nodes) + 1
  BY <1>0, <1>1 DEF FoldMul
<1>5. /\ Len(FoldDiv(B, a, b).arena.nodes) <= Len(B.nodes) + 1
      /\ Len(FoldPow(B, a, b).arena.nodes) <= Len(B.nodes) + 1
  BY <1>0, <1>1 DEF FoldDiv, FoldPow
<1>6. Len(FoldBinary(B, op, a, b).arena.nodes) <= Len(B.nodes) + 1
  BY <1>0, <1>1, <1>3, <1>4, <1>5 DEF FoldBinary
<1>. QED BY <1>0, <1>2, <1>6 DEF Make, FoldedOr, Fold

LEMMA ConstantLater ==
  ASSUME EqualIsSame, NEW K, NEW B, Sound(B), NEW c \in Scalar,
         NEW C, Keeps(Constant(B, c).arena, C), NEW p, NEW w, Interprets(K, C, p, w)
  PROVE  w[Constant(B, c).id] = K.of[c]
<1>1. Answers(B, Constant(B, c)) /\ Len(Constant(B, c).arena.nodes) <= Len(B.nodes) + 1
  BY ConstantAnswers, InternAddsOne DEF Constant
<1>2. Keeps(B, C)
  BY <1>1, KeepsTransitive DEF Answers
<1>3. Interprets(K, B, p, Before(B, w))
  BY <1>2, ValuesBefore
<1>4. w[Constant(B, c).id] = ReplyValue(K, Constant(B, c), Before(B, w), p)
  BY <1>1, ReplyLater
<1>5. ReplyValue(K, Constant(B, c), Before(B, w), p) = K.of[c]
  BY <1>3, ConstantValue
<1>. QED BY <1>4, <1>5

LEMMA MakeUnaryLater ==
  ASSUME NEW K, NumberLaws(K), NEW B, Sound(B), NEW op \in UnaryOps, NEW a \in Ids(B),
         NEW C, Keeps(Make(B, op, a, NoNode).arena, C), NEW p, NEW w, Interprets(K, C, p, w),
         Given(K, op, w[a])
  PROVE  w[Make(B, op, a, NoNode).id] = On1(K, op, w[a])
<1>1. Answers(B, Make(B, op, a, NoNode))
  BY MakeUnaryAnswers
<1>2. Keeps(B, C)
  BY <1>1, KeepsTransitive DEF Answers
<1>3. Interprets(K, B, p, Before(B, w)) /\ Before(B, w)[a] = w[a]
  BY <1>2, ValuesBefore DEF Before
<1>. QED BY <1>1, <1>3, ReplyLater, MakeAddsOne, UnaryRewriteSound

LEMMA MakeBinaryLater ==
  ASSUME NEW K, NumberLaws(K), NEW B, Sound(B), NEW op \in BinaryOps, NEW a \in Ids(B), NEW b \in Ids(B),
         NEW C, Keeps(Make(B, op, a, b).arena, C), NEW p, NEW w, Interprets(K, C, p, w),
         On2(K, op, w[a], w[b]) # K.none
  PROVE  w[Make(B, op, a, b).id] = On2(K, op, w[a], w[b])
<1>1. Answers(B, Make(B, op, a, b))
  BY MakeBinaryAnswers
<1>2. Keeps(B, C)
  BY <1>1, KeepsTransitive DEF Answers
<1>3. Interprets(K, B, p, Before(B, w)) /\ Before(B, w)[a] = w[a] /\ Before(B, w)[b] = w[b]
  BY <1>2, ValuesBefore DEF Before
<1>. QED BY <1>1, <1>3, ReplyLater, MakeAddsOne, BinaryRewriteSound
=============================================================================
