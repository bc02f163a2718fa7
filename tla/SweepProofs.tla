---------------------------- MODULE SweepProofs ----------------------------
(***************************************************************************)
(* The reverse sweep over any scalar and any model: every adjoint it names *)
(* is a node of the arena, and a sweep made again over a builder that has  *)
(* grown answers what it answered.  Over any ring of scalars the sums it   *)
(* keeps add up to the root's tangent, what it ends in is the gradient,    *)
(* and so is what the forward passes of symbolic_gradient() end in.        *)
(*                                                                         *)
(* A node formed now is read in an arena C of later, which has it at the   *)
(* same place: the lemmas take the values of C, at some point p of it, and *)
(* say what the nodes formed so far are there.                             *)
(***************************************************************************)
EXTENDS Sweep, DerivativeLemmas

-----------------------------------------------------------------------------
(* Forward accumulation of nodes.                                            *)
LEMMA ProductSumStage ==
  ASSUME NEW B, Sound(B), NEW dl, Stage(B, dl), NEW dr, Stage(dl.arena, dr),
         NEW da, Names(B, da), NEW db, Names(B, db)
  PROVE  LET left == Form(dr.arena, "Mul", dl.e, da)
             right == Form(left.arena, "Mul", dr.e, db)
             sum == ProductSum(dl, da, dr, db)
         IN  /\ sum = Form(right.arena, "Add", left.e, right.e)
             /\ Names(dr.arena, dl.e) /\ Names(dr.arena, da) /\ Sound(dr.arena) /\ Sound(dl.arena)
             /\ Stage(dr.arena, left) /\ Sound(left.arena)
             /\ Names(left.arena, dr.e) /\ Names(left.arena, db)
             /\ Stage(left.arena, right) /\ Sound(right.arena)
             /\ Names(right.arena, left.e) /\ Names(right.arena, right.e)
             /\ Stage(right.arena, sum) /\ Keeps(B, right.arena) /\ Stage(B, sum)
<1> DEFINE left == Form(dr.arena, "Mul", dl.e, da)
           right == Form(left.arena, "Mul", dr.e, db)
           sum == Form(right.arena, "Add", left.e, right.e)
<1>0. ProductSum(dl, da, dr, db) = sum
  BY DEF ProductSum, SumFrom, SumOf
<1>1. /\ Keeps(B, dl.arena) /\ Sound(dl.arena) /\ Names(dl.arena, dl.e)
      /\ Keeps(dl.arena, dr.arena) /\ Sound(dr.arena) /\ Names(dr.arena, dr.e)
  BY DEF Stage, Keeps
<1>2. /\ Keeps(B, dr.arena) /\ Names(dr.arena, dl.e) /\ Keeps(dr.arena, dr.arena)
  BY <1>1, KeepsTransitive, NamesKept, ExtendsRefl
<1>3. Names(dr.arena, da) /\ Names(dr.arena, db)
  BY <1>2, NamesKept
<1>4. Stage(dr.arena, left)
  BY <1>1, <1>2, <1>3, FormStage, RuleAssumption
<1> HIDE DEF left
<1>5. Keeps(dr.arena, left.arena) /\ Sound(left.arena) /\ Names(left.arena, left.e)
  BY <1>4 DEF Stage, Keeps
<1>6. /\ Names(left.arena, dr.e) /\ Names(left.arena, db) /\ Keeps(B, left.arena)
      /\ Keeps(left.arena, left.arena)
  BY <1>1, <1>2, <1>3, <1>5, NamesKept, KeepsTransitive, ExtendsRefl
<1>7. Stage(left.arena, right)
  BY <1>5, <1>6, FormStage, RuleAssumption
<1> HIDE DEF right
<1>8. Keeps(left.arena, right.arena) /\ Sound(right.arena) /\ Names(right.arena, right.e)
  BY <1>7 DEF Stage, Keeps
<1>9. /\ Names(right.arena, left.e) /\ Keeps(B, right.arena) /\ Keeps(right.arena, right.arena)
  BY <1>5, <1>6, <1>8, NamesKept, KeepsTransitive, ExtendsRefl
<1>10. Stage(B, sum) /\ Stage(right.arena, sum)
  BY <1>8, <1>9, FormStage, RuleAssumption
<1> HIDE DEF sum
<1>11. /\ ProductSum(dl, da, dr, db) = Form(right.arena, "Add", left.e, right.e)
       /\ Stage(right.arena, ProductSum(dl, da, dr, db)) /\ Stage(B, ProductSum(dl, da, dr, db))
  BY <1>0, <1>10 DEF sum
<1>. QED BY <1>1, <1>2, <1>3, <1>4, <1>5, <1>6, <1>7, <1>8, <1>9, <1>11 DEF left, right

LEMMA ProductSumGives ==
  ASSUME NEW K, NEW B, Sound(B), NEW dl, Stage(B, dl), NEW dr, Stage(dl.arena, dr),
         NEW da, Names(B, da), NEW db, Names(B, db),
         NEW C, NEW p, NEW w, Numbers(K, C, p, w), Keeps(ProductSum(dl, da, dr, db).arena, C),
         NEW x, x = Plus(K, Times(K, ValueOf(K, w, dl.e), ValueOf(K, w, da)),
                         Times(K, ValueOf(K, w, dr.e), ValueOf(K, w, db))), x # K.none
  PROVE  ValueOf(K, w, ProductSum(dl, da, dr, db).e) = x
<1> DEFINE left == Form(dr.arena, "Mul", dl.e, da)
           right == Form(left.arena, "Mul", dr.e, db)
           sum == ProductSum(dl, da, dr, db)
           x1 == Times(K, ValueOf(K, w, dl.e), ValueOf(K, w, da))
           x2 == Times(K, ValueOf(K, w, dr.e), ValueOf(K, w, db))
<1>1. /\ sum = Form(right.arena, "Add", left.e, right.e)
      /\ Names(dr.arena, dl.e) /\ Names(dr.arena, da) /\ Sound(dr.arena) /\ Sound(dl.arena)
      /\ Stage(dr.arena, left) /\ Sound(left.arena)
      /\ Names(left.arena, dr.e) /\ Names(left.arena, db)
      /\ Stage(left.arena, right) /\ Sound(right.arena)
      /\ Names(right.arena, left.e) /\ Names(right.arena, right.e)
      /\ Stage(right.arena, sum)
  BY ProductSumStage
<1>2. /\ Keeps(dr.arena, dr.arena) /\ Keeps(left.arena, left.arena)
      /\ Keeps(right.arena, right.arena)
  BY <1>1, ExtendsRefl
<1>3. Gives(K, dr.arena, left, C, w, x1)
  BY <1>1, <1>2, FormGives, RuleAssumption DEF Times
<1> HIDE DEF left
<1>4. Gives(K, left.arena, right, C, w, x2)
  BY <1>1, <1>2, FormGives, RuleAssumption DEF Times
<1> HIDE DEF right, sum, x1, x2
<1>5. Keeps(right.arena, C) /\ Keeps(left.arena, C) /\ Keeps(dr.arena, C)
  <2>1. Keeps(sum.arena, C)
    BY DEF sum
  <2>2. Keeps(right.arena, C)
    BY <1>1, <2>1, StageKept
  <2>3. Keeps(left.arena, C)
    BY <1>1, <2>2, StageKept
  <2>. QED BY <1>1, <2>2, <2>3, StageKept
<1>6. x1 \in K.all /\ x2 \in K.all
  <2>1. ValueOf(K, w, dl.e) \in K.all /\ ValueOf(K, w, da) \in K.all
    BY <1>1, <1>5, ValueIsNumber
  <2>2. ValueOf(K, w, dr.e) \in K.all /\ ValueOf(K, w, db) \in K.all
    BY <1>1, <1>5, ValueIsNumber
  <2>. QED BY <2>1, <2>2, SumsAreNumbers DEF x1, x2, Numbers
<1>7. x1 # K.none /\ x2 # K.none /\ x = Plus(K, x1, x2)
  BY <1>6, ValuesMultiply DEF x1, x2, Numbers, CalculusLaws
<1>8. ValueOf(K, w, left.e) = x1 /\ ValueOf(K, w, right.e) = x2
  BY <1>3, <1>4, <1>5, <1>7 DEF Gives
<1>9. Gives(K, right.arena, sum, C, w,
        On2(K, "Add", ValueOf(K, w, left.e), ValueOf(K, w, right.e)))
  BY <1>1, <1>2, FormGives, RuleAssumption
<1>10. Keeps(sum.arena, C)
  BY DEF sum
<1>. QED BY <1>7, <1>8, <1>9, <1>10 DEF Gives, Plus, sum

(* A pass over the n nodes that B had, k of them visited: a node each, whose *)
(* value is the tangent wherever there is one.                               *)
Tangents(K, n, k, s, pass) ==
  \A C, p, w, t :
    Keeps(pass.arena, C) /\ Reads(K, n, C, p, w, s, t) =>
      \A u \in 1..k : t[u] # K.none => w[pass.d[u]] = t[u]
Forward(K, B, s, k, pass) ==
  /\ pass \in [arena : Arenas, d : Seq(Nat)]
  /\ Keeps(B, pass.arena) /\ Len(pass.d) = k /\ k \in 0..Len(B.nodes)
  /\ \A u \in 1..k : pass.d[u] \in Ids(pass.arena)
  /\ Tangents(K, Len(B.nodes), k, s, pass)

LEMMA ChainStage ==
  ASSUME NEW K, NEW B, Sound(B), NEW s, NEW v \in Ids(B), NEW pass, Forward(K, B, s, v - 1, pass)
  PROVE  Stage(pass.arena, ChainOf(pass, pass.arena.nodes[v], v, s))
<1> DEFINE A == pass.arena
           node == A.nodes[v]
           op == node.op
<1>1. /\ Sound(A) /\ Keeps(B, A) /\ v \in Ids(A) /\ Keeps(A, A) /\ v \in Nat
      /\ \A u \in 1..(v - 1) : u \in Ids(A) /\ pass.d[u] \in Ids(A)
      /\ op \in {"Const", "Var"} \cup UnaryOps \cup BinaryOps
      /\ op \in UnaryOps \cup BinaryOps => node.a \in 1..(v - 1)
      /\ op \in BinaryOps => node.b \in 1..(v - 1)
  <2>1. Sound(A) /\ Keeps(B, A)
    BY DEF Forward, Keeps
  <2>2. v \in Ids(A) /\ Keeps(A, A) /\ v \in Nat
    BY <2>1, IdsGrow, ExtendsRefl DEF Ids
  <2>3. node \in Node
    BY <2>1, <2>2, NodeOf
  <2>4. \A u \in 1..(v - 1) : u \in Ids(A) /\ pass.d[u] \in Ids(A)
    BY <2>1, <2>2 DEF Forward, Ids, Sound, Arenas
  <2>. QED BY <2>1, <2>2, <2>3, <2>4 DEF Node, Sound, WellFormed
<1>2. CASE op \in {"Const", "Var"}
  <2> DEFINE c == IF op = "Var" /\ node.slot = s THEN One ELSE Zero
  <2>1. ChainOf(pass, node, v, s) = Start(A, Lit(c)) /\ c \in Scalar
    BY <1>2, OpAssumption, ScalarAssumption DEF ChainOf
  <2> HIDE DEF c
  <2>. QED BY <1>1, <2>1, LiteralNames, StartStage
<1>3. CASE op \in UnaryOps
  <2> DEFINE part == Partial(A, op, At(node.a), At(v))
  <2>1. /\ Names(A, At(node.a)) /\ Names(A, At(v)) /\ Names(A, At(pass.d[node.a]))
    BY <1>1, <1>3, NodeNames
  <2>2. Stage(A, part)
    BY <1>1, <1>3, <2>1, PartialStage
  <2>3. ChainOf(pass, node, v, s) = Then(part, "Mul", At(pass.d[node.a]))
    BY <1>3 DEF ChainOf
  <2> HIDE DEF part
  <2>. QED BY <1>1, <2>1, <2>2, <2>3, PipelineStage, RuleAssumption
<1>4. CASE op \in BinaryOps
  <2> DEFINE l == At(node.a)
             r == At(node.b)
             f == At(v)
             da == At(pass.d[node.a])
             db == At(pass.d[node.b])
             dl == LeftPartial(A, op, l, r, f)
             dr == RightPartial(dl.arena, op, l, r, f)
  <2>1. Names(A, l) /\ Names(A, r) /\ Names(A, f) /\ Names(A, da) /\ Names(A, db)
    BY <1>1, <1>4, NodeNames
  <2>2. ChainOf(pass, node, v, s) = ProductSum(dl, da, dr, db)
    BY <1>4, OpAssumption DEF ChainOf, ChainAfter
  <2> HIDE DEF l, r, f, da, db
  <2>3. Stage(A, dl)
    BY <1>1, <1>4, <2>1, PartialsStage
  <2> HIDE DEF dl
  <2>4. Keeps(A, dl.arena) /\ Sound(dl.arena)
    BY <2>3 DEF Stage, Keeps
  <2>5. Names(dl.arena, l) /\ Names(dl.arena, r) /\ Names(dl.arena, f)
    BY <1>1, <2>1, <2>4, NamesKept
  <2>6. Stage(dl.arena, dr)
    BY <1>4, <2>4, <2>5, PartialsStage
  <2> HIDE DEF dr
  <2>. QED BY <1>1, <2>1, <2>2, <2>3, <2>6, ProductSumStage
<1>. QED BY <1>1, <1>2, <1>3, <1>4

(* The tangent of a node that a pass has come to, of the pass so far. *)
(* A pass that has come to v, and what it forms there. *)
Comes(K, B, s, v, pass, chain, C, p, w, t) ==
  /\ Sound(B) /\ v \in Ids(B) /\ Forward(K, B, s, v - 1, pass)
  /\ chain = ChainOf(pass, pass.arena.nodes[v], v, s) /\ Keeps(chain.arena, C)
  /\ Reads(K, Len(B.nodes), C, p, w, s, t) /\ t[v] # K.none
LEMMA ChainGives ==
  ASSUME NEW K, NEW B, NEW s, NEW v, NEW pass, NEW chain, NEW C, NEW p, NEW w, NEW t,
         Comes(K, B, s, v, pass, chain, C, p, w, t)
  PROVE  ValueOf(K, w, chain.e) = t[v]
<1> SUFFICES ASSUME Sound(B), v \in Ids(B), Forward(K, B, s, v - 1, pass),
                    chain = ChainOf(pass, pass.arena.nodes[v], v, s), Keeps(chain.arena, C),
                    Reads(K, Len(B.nodes), C, p, w, s, t), t[v] # K.none
             PROVE  ValueOf(K, w, chain.e) = t[v]
  BY DEF Comes
<1> DEFINE A == pass.arena
           node == A.nodes[v]
           op == node.op
           n == Len(B.nodes)
<1>0. Stage(A, chain)
  BY ChainStage
<1>1. /\ Sound(A) /\ Keeps(B, A) /\ v \in Ids(A) /\ Keeps(A, A) /\ v \in Nat /\ Keeps(A, C)
      /\ \A u \in 1..(v - 1) : u \in Ids(A) /\ pass.d[u] \in Ids(A) /\ u \in 1..n
      /\ op \in {"Const", "Var"} \cup UnaryOps \cup BinaryOps
      /\ op \in UnaryOps \cup BinaryOps => node.a \in 1..(v - 1)
      /\ op \in BinaryOps => node.b \in 1..(v - 1)
  <2>1. Sound(A) /\ Keeps(B, A)
    BY DEF Forward, Keeps
  <2>2. v \in Ids(A) /\ Keeps(A, A) /\ v \in Nat
    BY <2>1, IdsGrow, ExtendsRefl DEF Ids
  <2>3. node \in Node
    BY <2>1, <2>2, NodeOf
  <2>4. \A u \in 1..(v - 1) : u \in Ids(A) /\ pass.d[u] \in Ids(A)
    BY <2>1, <2>2 DEF Forward, Ids, Sound, Arenas
  <2>5. Keeps(A, C)
    BY <1>0, <2>1, StageKept
  <2>6. \A u \in 1..(v - 1) : u \in 1..n
    BY DEF Ids, Sound, Arenas
  <2>. QED BY <2>1, <2>2, <2>3, <2>4, <2>5, <2>6 DEF Node, Sound, WellFormed
<1>2. /\ Numbers(K, C, p, w) /\ CalculusLaws(K)
      /\ \A u \in 1..n : t[u] \in K.all
      /\ \A u \in Ids(A) : w[u] \in K.all
      /\ w[v] = NodeValue(K, node, w, p) /\ t[v] = Tangent(K, node, w, t, s) /\ t[v] \in K.all
  <2>1. /\ Numbers(K, C, p, w) /\ CalculusLaws(K) /\ Interprets(K, C, p, w)
        /\ Differentiates(K, C, n, w, s, t) /\ v \in 1..n
    BY DEF Reads, Numbers, CalculusLaws, Ids
  <2>2. \A u \in Ids(A) : u \in Ids(C) /\ C.nodes[u] = A.nodes[u]
    BY <1>1, IdsGrow DEF Keeps, Extends
  <2>3. \A u \in 1..n : t[u] \in K.all
    BY <2>1 DEF Differentiates
  <2>4. \A u \in Ids(A) : w[u] \in K.all
    BY <2>1, <2>2 DEF Interprets, Ids
  <2>5. w[v] = NodeValue(K, node, w, p)
    BY <1>1, <2>1, <2>2 DEF Interprets
  <2>6. t[v] = Tangent(K, node, w, t, s)
    BY <1>1, <2>1, <2>2 DEF Differentiates
  <2>. QED BY <2>1, <2>3, <2>4, <2>5, <2>6
<1>3. ASSUME NEW u \in 1..(v - 1), t[u] # K.none
      PROVE  Names(A, At(pass.d[u])) /\ ValueOf(K, w, At(pass.d[u])) = t[u]
  <2>1. w[pass.d[u]] = t[u]
    BY <1>1, <1>3 DEF Forward, Tangents
  <2>2. pass.d[u] \in Ids(A) /\ pass.d[u] # NoNode
    BY <1>1 DEF Ids, NoNode
  <2>3. ValueOf(K, w, At(pass.d[u])) = w[pass.d[u]]
    BY <2>2, AtValue
  <2>. QED BY <1>1, <2>1, <2>2, <2>3, NodeNames
<1>4. ASSUME NEW u \in Ids(A) PROVE Names(A, At(u)) /\ ValueOf(K, w, At(u)) = w[u]
  <2>1. ValueOf(K, w, At(u)) = w[u]
    BY AtValue
  <2>. QED BY <1>1, <2>1, NodeNames
<1>5. CASE op \in {"Const", "Var"}
  <2> DEFINE c == IF op = "Var" /\ node.slot = s THEN One ELSE Zero
  <2>1. chain = Start(A, Lit(c)) /\ t[v] = K.of[c]
    BY <1>2, <1>5, OpAssumption DEF ChainOf, Tangent
  <2> HIDE DEF c
  <2>. QED BY <2>1 DEF Start, ValueOf, Lit, Pending
<1>6. CASE op \in UnaryOps
  <2> DEFINE a == node.a
             part == Partial(A, op, At(a), At(v))
             slope == K.slope[op][w[a]]
  <2>0. op \notin BinaryOps /\ op \notin {"Const", "Var"} /\ a \in 1..(v - 1)
    BY <1>1, <1>6, OpAssumption
  <2>1. w[v] = On1(K, op, w[a]) /\ t[v] = Times(K, slope, t[a])
    BY <1>2, <1>6, <2>0 DEF NodeValue, Tangent
  <2>2. slope \in K.all /\ t[a] \in K.all /\ w[a] \in K.all
    BY <1>1, <1>2, <1>6, <2>0, SlopeNumber DEF Numbers
  <2>3. slope # K.none /\ t[a] # K.none
    BY <1>2, <2>1, <2>2, ValuesMultiply
  <2>4. slope = RowOf(K, op, w[a])
    BY <1>2, <1>6, <2>2, <2>3 DEF Numbers, CalculusLaws, SlopeLaws
  <2>5. Names(A, At(a)) /\ Names(A, At(v)) /\ ValueOf(K, w, At(a)) = w[a]
          /\ ValueOf(K, w, At(v)) = w[v]
    BY <1>1, <1>4, <2>0
  <2>6. Names(A, At(pass.d[a])) /\ ValueOf(K, w, At(pass.d[a])) = t[a]
    BY <1>3, <2>0, <2>3
  <2>7. Gives(K, A, part, C, w, slope)
    <3>1. Gives(K, A, part, C, w, RowOf(K, op, ValueOf(K, w, At(a))))
      BY <1>1, <1>2, <1>6, <2>1, <2>5, PartialGives
    <3>. QED BY <2>4, <2>5, <3>1
  <2>8. chain = Then(part, "Mul", At(pass.d[a]))
    BY <1>6 DEF ChainOf
  <2> HIDE DEF part, slope, a
  <2>9. Gives(K, A, chain, C, w, On2(K, "Mul", slope, ValueOf(K, w, At(pass.d[a]))))
    BY <1>1, <1>2, <2>6, <2>7, <2>8, PipelineGives, RuleAssumption
  <2>. QED BY <2>1, <2>6, <2>9 DEF Gives, Times
<1>7. CASE op \in BinaryOps
  <2> DEFINE a == node.a
             b == node.b
             l == At(a)
             r == At(b)
             f == At(v)
             da == At(pass.d[a])
             db == At(pass.d[b])
             dl == LeftPartial(A, op, l, r, f)
             dr == RightPartial(dl.arena, op, l, r, f)
             left == K.left[op][w[a]][w[b]]
             right == K.right[op][w[a]][w[b]]
  <2>0. op \notin UnaryOps /\ op \notin {"Const", "Var"} /\ a \in 1..(v - 1) /\ b \in 1..(v - 1)
    BY <1>1, <1>7, OpAssumption
  <2>1. w[v] = On2(K, op, w[a], w[b])
          /\ t[v] = Plus(K, Times(K, left, t[a]), Times(K, right, t[b]))
    BY <1>2, <1>7, <2>0 DEF NodeValue, Tangent
  <2>2. /\ left \in K.all /\ right \in K.all /\ t[a] \in K.all /\ t[b] \in K.all
        /\ w[a] \in K.all /\ w[b] \in K.all
    BY <1>1, <1>2, <1>7, <2>0, SlopeNumber DEF Numbers
  <2>3. left # K.none /\ right # K.none /\ t[a] # K.none /\ t[b] # K.none
    <3> HIDE DEF left, right, a, b
    <3>1. Times(K, left, t[a]) \in K.all /\ Times(K, right, t[b]) \in K.all
      BY <1>2, <2>2, SumsAreNumbers
    <3>2. Times(K, left, t[a]) # K.none /\ Times(K, right, t[b]) # K.none
      BY <1>2, <2>1, <3>1, ValuesMultiply
    <3>. QED BY <1>2, <2>2, <3>2, ValuesMultiply
  <2>4. left = LeftOf(K, op, w[a], w[b]) /\ right = RightOf(K, op, w[a], w[b])
    BY <1>2, <1>7, <2>2, <2>3 DEF Numbers, CalculusLaws, SlopeLaws
  <2>5. /\ Names(A, l) /\ Names(A, r) /\ Names(A, f)
        /\ ValueOf(K, w, l) = w[a] /\ ValueOf(K, w, r) = w[b] /\ ValueOf(K, w, f) = w[v]
    BY <1>1, <1>4, <2>0
  <2>6. /\ Names(A, da) /\ ValueOf(K, w, da) = t[a] /\ Names(A, db) /\ ValueOf(K, w, db) = t[b]
    BY <1>3, <2>0, <2>3
  <2>7. chain = ProductSum(dl, da, dr, db)
    BY <1>7, OpAssumption DEF ChainOf, ChainAfter
  <2> HIDE DEF l, r, f, da, db, left, right
  <2>8. ASSUME NEW D, Sound(D), Names(D, l), Names(D, r), Names(D, f)
        PROVE  /\ Gives(K, D, LeftPartial(D, op, l, r, f), C, w, left)
               /\ Gives(K, D, RightPartial(D, op, l, r, f), C, w, right)
    <3>1. ValueOf(K, w, f) = On2(K, op, ValueOf(K, w, l), ValueOf(K, w, r))
      BY <2>1, <2>5
    <3>2. /\ Gives(K, D, LeftPartial(D, op, l, r, f), C, w,
               LeftOf(K, op, ValueOf(K, w, l), ValueOf(K, w, r)))
          /\ Gives(K, D, RightPartial(D, op, l, r, f), C, w,
               RightOf(K, op, ValueOf(K, w, l), ValueOf(K, w, r)))
      BY <1>2, <1>7, <2>8, <3>1, PartialsGive
    <3>. QED BY <2>4, <2>5, <3>2
  <2>9. Gives(K, A, dl, C, w, left)
    BY <1>1, <2>5, <2>8
  <2> HIDE DEF dl
  <2>10. Keeps(A, dl.arena) /\ Sound(dl.arena) /\ Stage(A, dl)
    BY <2>9 DEF Gives, Stage, Keeps
  <2>11. Gives(K, dl.arena, dr, C, w, right)
    <3>1. Names(dl.arena, l) /\ Names(dl.arena, r) /\ Names(dl.arena, f)
      BY <1>1, <2>5, <2>10, NamesKept
    <3>. QED BY <2>8, <2>10, <3>1
  <2> HIDE DEF dr, a, b
  <2>12. Stage(dl.arena, dr)
    BY <2>11 DEF Gives
  <2>13. Keeps(dr.arena, C) /\ Keeps(dl.arena, C)
    <3> DEFINE sum == ProductSum(dl, da, dr, db)
               first == Form(dr.arena, "Mul", dl.e, da)
               second == Form(first.arena, "Mul", dr.e, db)
    <3>1. /\ Stage(dr.arena, first) /\ Sound(first.arena) /\ Stage(first.arena, second)
          /\ Sound(second.arena) /\ Stage(second.arena, sum) /\ Sound(dr.arena)
      BY <1>1, <2>6, <2>10, <2>12, ProductSumStage
    <3> HIDE DEF sum, first, second
    <3>2. Keeps(sum.arena, C)
      BY <2>7 DEF sum
    <3>3. Keeps(second.arena, C)
      BY <3>1, <3>2, StageKept
    <3>4. Keeps(first.arena, C)
      BY <3>1, <3>3, StageKept
    <3>5. Keeps(dr.arena, C)
      BY <3>1, <3>4, StageKept
    <3>. QED BY <2>10, <2>12, <3>5, StageKept
  <2>14. ValueOf(K, w, dl.e) = left /\ ValueOf(K, w, dr.e) = right
    BY <2>3, <2>9, <2>11, <2>13 DEF Gives
  <2>15. t[v] = Plus(K, Times(K, ValueOf(K, w, dl.e), ValueOf(K, w, da)),
           Times(K, ValueOf(K, w, dr.e), ValueOf(K, w, db)))
    BY <2>1, <2>6, <2>14
  <2>. QED BY <1>1, <1>2, <2>6, <2>7, <2>10, <2>12, <2>15, ProductSumGives
<1>. QED BY <1>1, <1>5, <1>6, <1>7

(* A pass goes on to its next node, and so to all of them. *)
LEMMA ForwardStep ==
  ASSUME NEW K, CalculusLaws(K), NEW B, Sound(B), NEW s, NEW v \in Ids(B), NEW pass,
         Forward(K, B, s, v - 1, pass)
  PROVE  Forward(K, B, s, v, ForwardAt(pass, v, s))
<1> DEFINE A == pass.arena
           n == Len(B.nodes)
           chain == ChainOf(pass, A.nodes[v], v, s)
           reply == IdOf(chain)
           next == ForwardAt(pass, v, s)
<1>1. /\ next.arena = reply.arena /\ next.d = Append(pass.d, reply.id)
      /\ next = [arena |-> reply.arena, d |-> Append(pass.d, reply.id)]
  BY DEF ForwardAt, Pushed
<1>2. /\ Sound(A) /\ Keeps(B, A) /\ pass.d \in Seq(Nat) /\ Len(pass.d) = v - 1
      /\ v \in Nat /\ v \in 0..n /\ n \in Nat
      /\ \A u \in 1..(v - 1) : pass.d[u] \in Ids(A)
  BY DEF Forward, Keeps, Ids, Sound, Arenas
<1>3. Stage(A, chain)
  BY ChainStage
<1>4. Keeps(A, chain.arena) /\ Sound(chain.arena) /\ Names(chain.arena, chain.e)
  BY <1>3 DEF Stage, Keeps
<1>5. Answers(chain.arena, reply)
  BY <1>4, MaterialiseAnswers DEF IdOf
<1>6. Keeps(chain.arena, reply.arena) /\ reply.id \in Ids(reply.arena) /\ Sound(reply.arena)
      /\ reply.id \in Nat
  BY <1>5 DEF Answers, Keeps, Ids
<1>7. Keeps(A, reply.arena) /\ Keeps(B, reply.arena)
  BY <1>2, <1>4, <1>6, KeepsTransitive
<1>8. \A u \in 1..v : next.d[u] \in Ids(next.arena) /\ (u < v => next.d[u] = pass.d[u])
                      /\ (u = v => next.d[u] = reply.id)
  <2> HIDE DEF chain, reply
  <2>1. Ids(A) \subseteq Ids(reply.arena)
    BY <1>2, <1>7, IdsGrow
  <2>. QED BY <1>1, <1>2, <1>6, <2>1
<1>9. Tangents(K, n, v, s, next)
  <2> SUFFICES ASSUME NEW C, NEW p, NEW w, NEW t, Keeps(next.arena, C),
                      Reads(K, n, C, p, w, s, t),
                      NEW u \in 1..v, t[u] # K.none
               PROVE  w[next.d[u]] = t[u]
    BY DEF Tangents
  <2>1. Keeps(reply.arena, C)
    BY <1>1
  <2>2. Keeps(chain.arena, C) /\ Keeps(A, C)
    <3> HIDE DEF reply, chain
    <3>1. Keeps(chain.arena, C)
      BY <1>4, <1>6, <2>1, KeepsTransitive
    <3>. QED BY <1>2, <1>4, <3>1, KeepsTransitive
  <2>3. CASE u < v
    <3>1. u \in 1..(v - 1)
      BY <1>2, <2>3
    <3>2. w[pass.d[u]] = t[u]
      BY <2>2, <3>1 DEF Forward, Tangents
    <3>. QED BY <1>8, <2>3, <3>2
  <2>4. CASE u = v
    <3>1. ValueOf(K, w, chain.e) = t[v]
      <4>1. chain = ChainOf(pass, pass.arena.nodes[v], v, s)
        OBVIOUS
      <4>2. t[v] # K.none /\ Reads(K, Len(B.nodes), C, p, w, s, t) /\ Keeps(chain.arena, C)
        BY <2>2, <2>4
      <4>3. Comes(K, B, s, v, pass, chain, C, p, w, t)
        BY <4>1, <4>2 DEF Comes
      <4> HIDE DEF chain, n, A, reply, next
      <4>. QED BY <4>3, ChainGives
    <3> HIDE DEF chain
    <3>2. w[reply.id] = ValueOf(K, w, chain.e)
      <4>1. /\ reply = Materialise(chain.arena, chain.e) /\ Numbers(K, C, p, w)
            /\ Keeps(Materialise(chain.arena, chain.e).arena, C)
        BY <2>1 DEF Reads, IdOf
      <4> HIDE DEF reply
      <4>2. ASSUME NEW D, Sound(D), NEW e, Names(D, e), Keeps(Materialise(D, e).arena, C)
            PROVE  w[Materialise(D, e).id] = ValueOf(K, w, e)
        BY ONLY <4>1, <4>2, MaterialiseValue
      <4>. QED BY <1>4, <4>1, <4>2
    <3>. QED BY <1>8, <2>4, <3>1, <3>2
  <2>. QED BY <1>2, <2>3, <2>4
<1>10. next \in [arena : Arenas, d : Seq(Nat)] /\ Len(next.d) = v
  <2> HIDE DEF reply, chain, next
  <2>1. reply.arena \in Arenas /\ next.d \in Seq(Nat) /\ Len(next.d) = v
    BY <1>1, <1>2, <1>6 DEF Sound
  <2>. QED BY <1>1, <2>1
<1> HIDE DEF next
<1>11. Forward(K, B, s, v, next)
  BY <1>1, <1>2, <1>7, <1>8, <1>9, <1>10 DEF Forward
<1>. QED BY <1>11 DEF next

LEMMA ForwardPassAnswers ==
  ASSUME NEW K, CalculusLaws(K), NEW B, Sound(B), NEW s
  PROVE  Forward(K, B, s, Len(B.nodes), ForwardPass(B, s))
<1> DEFINE n == Len(B.nodes)
           base == [arena |-> B, d |-> <<>>]
           States == [arena : Arenas, d : Seq(Nat)]
           G == [k \in 0..n |-> {pass \in States : Forward(K, B, s, k, pass)}]
           next == [k \in 1..n |-> [pass \in States |-> ForwardAt(pass, k, s)]]
           Run(f) == f = [k \in 0..n |-> IF k = 0 THEN base ELSE ForwardAt(f[k - 1], k, s)]
           after == CHOOSE f : Run(f)
<1>0. n \in Nat /\ \A k, pass : Forward(K, B, s, k, pass) => pass \in States
  BY DEF Sound, Arenas, Forward
<1>1. Forward(K, B, s, 0, base)
  BY <1>0, ExtendsRefl DEF Forward, Tangents, Sound
<1>2. ASSUME NEW k \in 1..n, NEW pass, Forward(K, B, s, k - 1, pass)
      PROVE  Forward(K, B, s, k, ForwardAt(pass, k, s))
  BY <1>2, ForwardStep DEF Ids
<1> HIDE DEF n, base, States
<1>4. PICK f \in [0..n -> States] :
           /\ f[0] = base
           /\ \A k \in 1..n : f[k - 1] \in G[k - 1] /\ f[k] = next[k][f[k - 1]]
  <2>1. base \in G[0] /\ \A k \in 0..n : G[k] \subseteq States
    BY <1>0, <1>1
  <2>2. ASSUME NEW k \in 1..n, NEW t \in G[k - 1] PROVE next[k][t] \in G[k]
    <3>1. k \in 0..n /\ k - 1 \in 0..n
      BY <1>0
    <3>2. t \in States /\ Forward(K, B, s, k - 1, t)
      BY <3>1
    <3>3. Forward(K, B, s, k, ForwardAt(t, k, s)) /\ ForwardAt(t, k, s) \in States
      BY <1>0, <1>2, <3>2
    <3>. QED BY <3>1, <3>2, <3>3
  <2> HIDE DEF next, G
  <2>3. IsLoop(n, States, base, G, next)
    BY <1>0, <2>1, <2>2 DEF IsLoop
  <2>4. \E f \in [0..n -> States] : IsRun(f, n, base, G, next)
    BY <2>3, LoopRuns
  <2>. QED BY <2>4 DEF IsRun
<1>5. ASSUME NEW k \in 1..n PROVE f[k] = ForwardAt(f[k - 1], k, s)
  <2>1. f[k - 1] \in States /\ f[k] = next[k][f[k - 1]]
    <3> HIDE DEF next, G
    <3>. QED BY <1>0, <1>4
  <2>. QED BY <2>1
<1>6. Run(after)
  <2> HIDE DEF next, G
  <2>1. \A k \in 0..n : f[k] = IF k = 0 THEN base ELSE ForwardAt(f[k - 1], k, s)
    <3> SUFFICES ASSUME NEW k \in 0..n
                 PROVE  f[k] = IF k = 0 THEN base ELSE ForwardAt(f[k - 1], k, s)
      OBVIOUS
    <3>1. CASE k = 0
      BY <1>4, <3>1
    <3>2. CASE k \in 1..n
      BY <1>5, <3>2
    <3>. QED BY <1>0, <3>1, <3>2
  <2>2. f = [k \in 0..n |-> f[k]]
    BY <1>4
  <2>3. Run(f)
    BY <2>1, <2>2
  <2>. QED BY <2>3
<1> HIDE DEF after
<1>7. \A k \in 0..n : after[k] \in G[k]
  <2>1. after[0] \in G[0]
    BY <1>0, <1>1, <1>6
  <2>2. ASSUME NEW k \in 1..n, after[k - 1] \in G[k - 1] PROVE after[k] \in G[k]
    <3>1. k \in 0..n /\ k - 1 \in 0..n
      BY <1>0
    <3>2. Forward(K, B, s, k - 1, after[k - 1]) /\ after[k] = ForwardAt(after[k - 1], k, s)
      BY <1>0, <1>6, <2>2, <3>1
    <3>3. Forward(K, B, s, k, after[k])
      BY <1>2, <3>2
    <3>. QED BY <1>0, <3>1, <3>3
  <2> HIDE DEF G
  <2>. QED BY <1>0, <2>1, <2>2, LoopInvariant
<1>8. ForwardPass(B, s) = after[n]
  BY DEF ForwardPass, after, n, base
<1>9. Forward(K, B, s, n, after[n])
  BY <1>0, <1>7
<1>. QED BY <1>8, <1>9 DEF n

-----------------------------------------------------------------------------
(* symbolic_gradient(): a pass per symbol, each over all that the last left. *)
Symbolic(K, B, r, k, g) ==
  /\ g \in [arena : Arenas, partial : Seq(Nat)]
  /\ Keeps(B, g.arena) /\ Len(g.partial) = k
  /\ \A s \in 1..k : g.partial[s] \in Ids(g.arena)
  /\ NamesSlopes(K, r, k, g)

LEMMA SymbolicStep ==
  ASSUME NEW K, CalculusLaws(K), NEW B, Sound(B), NEW r \in Ids(B), NEW k \in Nat \ {0},
         NEW g, Symbolic(K, B, r, k - 1, g)
  PROVE  Symbolic(K, B, r, k, NextPartial(g, k, r))
<1> DEFINE A == g.arena
           n == Len(A.nodes)
           pass == ForwardPass(A, k)
           next == NextPartial(g, k, r)
<1>1. next = [arena |-> pass.arena, partial |-> Append(g.partial, pass.d[r])]
  BY DEF NextPartial, WithPartial
<1>2. /\ Keeps(B, A) /\ Sound(A) /\ g.partial \in Seq(Nat) /\ Len(g.partial) = k - 1
      /\ \A s \in 1..(k - 1) : g.partial[s] \in Ids(A)
  BY DEF Symbolic, Keeps
<1>3. r \in Ids(A) /\ n \in Nat /\ r \in 1..n
  BY <1>2, IdsGrow DEF Ids, Sound, Arenas
<1>4. Forward(K, A, k, n, pass)
  BY <1>2, ForwardPassAnswers
<1> HIDE DEF pass
<1>5. /\ Keeps(A, pass.arena) /\ pass.arena \in Arenas /\ Sound(pass.arena)
      /\ pass.d[r] \in Ids(pass.arena) /\ pass.d[r] \in Nat
      /\ Tangents(K, n, n, k, pass)
  BY <1>3, <1>4 DEF Forward, Keeps, Sound, Ids
<1>6. Keeps(B, pass.arena)
  BY <1>2, <1>5, KeepsTransitive
<1>7. /\ next.arena = pass.arena /\ next.partial \in Seq(Nat) /\ Len(next.partial) = k
      /\ next \in [arena : Arenas, partial : Seq(Nat)]
      /\ next.partial[k] = pass.d[r]
      /\ \A s \in 1..(k - 1) : next.partial[s] = g.partial[s]
  BY <1>1, <1>2, <1>5
<1> HIDE DEF next
<1>8. \A s \in 1..k : next.partial[s] \in Ids(next.arena)
  <2>1. Ids(A) \subseteq Ids(pass.arena)
    BY <1>2, <1>5, IdsGrow
  <2> SUFFICES ASSUME NEW s \in 1..k PROVE next.partial[s] \in Ids(pass.arena)
    BY <1>7
  <2>2. CASE s = k
    BY <1>5, <1>7, <2>2
  <2>3. CASE s \in 1..(k - 1)
    BY <1>2, <1>7, <2>1, <2>3
  <2>. QED BY <2>2, <2>3
<1>9. NamesSlopes(K, r, k, next)
  <2> SUFFICES ASSUME NEW C, NEW p, NEW w, NEW s, NEW u,
                      Keeps(next.arena, C), Reads(K, r, C, p, w, s, u), s \in 1..k, u[r] # K.none
               PROVE  w[next.partial[s]] = u[r]
    BY DEF NamesSlopes
  <2>1. Keeps(pass.arena, C) /\ Keeps(A, C) /\ Sound(C)
    BY <1>2, <1>5, <1>7, KeepsTransitive DEF Keeps
  <2>2. CASE s \in 1..(k - 1)
    <3>1. w[g.partial[s]] = u[r]
      BY <2>1, <2>2 DEF Symbolic, NamesSlopes
    <3>. QED BY <1>7, <2>2, <3>1
  <2>3. CASE s = k
    <3> DEFINE t == TangentsAt(K, C, w, s, n)
    <3>1. n \in 0..Len(C.nodes) /\ NumbersTo(K, n, w)
      BY <1>3, <2>1 DEF Keeps, Extends, Reads, Numbers, Interprets, NumbersTo, Sound, Arenas
    <3>2. Reads(K, n, C, p, w, s, t)
      BY <2>1, <3>1, TangentsAnswer DEF Reads
    <3> HIDE DEF t
    <3>3. Keeps(C, C) /\ r \in 0..Len(C.nodes) /\ r <= n
      BY <1>3, <2>1, ExtendsRefl DEF Reads
    <3>4. AgreeOn(1..r, u, t)
      BY <2>1, <3>2, <3>3, ReadsKept
    <3>5. u[r] = t[r]
      BY <1>3, <3>4 DEF AgreeOn
    <3>6. w[pass.d[r]] = t[r]
      BY <1>3, <1>5, <2>1, <2>3, <3>2, <3>5 DEF Tangents
    <3>. QED BY <1>7, <2>3, <3>5, <3>6
  <2>. QED BY <2>2, <2>3
<1>10. Symbolic(K, B, r, k, next)
  BY <1>6, <1>7, <1>8, <1>9 DEF Symbolic
<1>. QED BY <1>10 DEF next

LEMMA SymbolicAnswers ==
  ASSUME NEW K, CalculusLaws(K), NEW B, Sound(B), NEW r \in Ids(B)
  PROVE  Symbolic(K, B, r, Len(B.symbols), SymbolicGradient(B, r))
<1> DEFINE n == Len(B.symbols)
           base == [arena |-> B, partial |-> <<>>]
           States == [arena : Arenas, partial : Seq(Nat)]
           G == [k \in 0..n |-> {g \in States : Symbolic(K, B, r, k, g)}]
           next == [k \in 1..n |-> [g \in States |-> NextPartial(g, k, r)]]
           Run(f) == f = [k \in 0..n |-> IF k = 0 THEN base ELSE NextPartial(f[k - 1], k, r)]
           after == CHOOSE f : Run(f)
<1>0. n \in Nat /\ \A k, g : Symbolic(K, B, r, k, g) => g \in States
  BY DEF Sound, Arenas, Symbolic
<1>1. Symbolic(K, B, r, 0, base)
  BY <1>0, ExtendsRefl DEF Symbolic, NamesSlopes, Sound
<1>2. ASSUME NEW k \in 1..n, NEW g, Symbolic(K, B, r, k - 1, g)
      PROVE  Symbolic(K, B, r, k, NextPartial(g, k, r))
  BY <1>0, <1>2, SymbolicStep
<1> HIDE DEF n, base, States
<1>4. PICK f \in [0..n -> States] :
           /\ f[0] = base
           /\ \A k \in 1..n : f[k - 1] \in G[k - 1] /\ f[k] = next[k][f[k - 1]]
  <2>1. base \in G[0] /\ \A k \in 0..n : G[k] \subseteq States
    BY <1>0, <1>1
  <2>2. ASSUME NEW k \in 1..n, NEW t \in G[k - 1] PROVE next[k][t] \in G[k]
    <3>1. k \in 0..n /\ k - 1 \in 0..n
      BY <1>0
    <3>2. t \in States /\ Symbolic(K, B, r, k - 1, t)
      BY <3>1
    <3>3. Symbolic(K, B, r, k, NextPartial(t, k, r)) /\ NextPartial(t, k, r) \in States
      BY <1>0, <1>2, <3>2
    <3>. QED BY <3>1, <3>2, <3>3
  <2> HIDE DEF next, G
  <2>3. IsLoop(n, States, base, G, next)
    BY <1>0, <2>1, <2>2 DEF IsLoop
  <2>4. \E f \in [0..n -> States] : IsRun(f, n, base, G, next)
    BY <2>3, LoopRuns
  <2>. QED BY <2>4 DEF IsRun
<1>5. ASSUME NEW k \in 1..n PROVE f[k] = NextPartial(f[k - 1], k, r)
  <2>1. f[k - 1] \in States /\ f[k] = next[k][f[k - 1]]
    <3> HIDE DEF next, G
    <3>. QED BY <1>0, <1>4
  <2>. QED BY <2>1
<1>6. Run(after)
  <2> HIDE DEF next, G
  <2>1. \A k \in 0..n : f[k] = IF k = 0 THEN base ELSE NextPartial(f[k - 1], k, r)
    BY <1>0, <1>4, <1>5
  <2>2. f = [k \in 0..n |-> f[k]]
    BY <1>4
  <2>3. Run(f)
    BY <2>1, <2>2
  <2>. QED BY <2>3
<1> HIDE DEF after
<1>7. \A k \in 0..n : after[k] \in G[k]
  <2>1. after[0] \in G[0]
    BY <1>0, <1>1, <1>6
  <2>2. ASSUME NEW k \in 1..n, after[k - 1] \in G[k - 1] PROVE after[k] \in G[k]
    <3>1. k \in 0..n /\ k - 1 \in 0..n
      BY <1>0
    <3>2. Symbolic(K, B, r, k - 1, after[k - 1]) /\ after[k] = NextPartial(after[k - 1], k, r)
      BY <1>0, <1>6, <2>2, <3>1
    <3>3. Symbolic(K, B, r, k, after[k])
      BY <1>2, <3>2
    <3>. QED BY <1>0, <3>1, <3>3
  <2> HIDE DEF G
  <2>. QED BY <1>0, <2>1, <2>2, LoopInvariant
<1>8. SymbolicGradient(B, r) = after[n]
  BY DEF SymbolicGradient, after, n, base
<1>9. Symbolic(K, B, r, n, after[n])
  BY <1>0, <1>7
<1>. QED BY <1>8, <1>9 DEF n

(* Whichever arena of nodes it is asked of, it answers the gradient. *)
LEMMA SymbolicIsGradient ==
  ASSUME NEW K, CalculusLaws(K), NEW B, Sound(B), NEW r \in Ids(B), NEW p, p \in PointFor(K, B)
  PROVE  LET g == SymbolicGradient(B, r)
         IN  IsGradient(K, g.arena, g.partial, r, p)
<1> DEFINE g == SymbolicGradient(B, r)
           w == ValuesAt(K, g.arena, p)
<1>1. Symbolic(K, B, r, Len(B.symbols), g)
  BY SymbolicAnswers
<1> HIDE DEF g
<1>2. Keeps(B, g.arena) /\ Sound(g.arena) /\ Keeps(g.arena, g.arena)
        /\ g.arena.symbols = B.symbols
  BY <1>1, ExtendsRefl DEF Symbolic, Keeps
<1>3. r \in Ids(g.arena) /\ r \in 0..Len(g.arena.nodes) /\ p \in PointFor(K, g.arena)
  BY <1>2, IdsGrow DEF Ids, PointFor
<1>4. ASSUME NEW s \in 1..Len(g.arena.symbols), TangentsAt(K, g.arena, w, s, r)[r] # K.none
      PROVE  w[g.partial[s]] = TangentsAt(K, g.arena, w, s, r)[r]
  <2>1. Reads(K, r, g.arena, p, w, s, TangentsAt(K, g.arena, w, s, r))
    BY <1>2, <1>3, OwnReads
  <2> HIDE DEF w
  <2>. QED BY <1>1, <1>2, <1>4, <2>1 DEF Symbolic, NamesSlopes
<1>. QED BY <1>4 DEF IsGradient, g, w

-----------------------------------------------------------------------------
(* The state machine.                                                        *)
(* The inductive invariant: a sweep under way is Sweeping, its root and its  *)
(* cursor are in the snapshot, and what has been answered is in the arena,   *)
(* which has every node once.                                                *)
IInv ==
  /\ Sound(arena) /\ NodesOnce(arena)
  /\ pc \in {"ready", "sweeping"}
  /\ root \in Ids(arena) \cup {NoNode}
  /\ Sweeping(Len(adj), [arena |-> arena, adj |-> adj])
  /\ cursor \in 0..Len(adj)
  /\ \A s \in DOMAIN partial : partial[s] \in Ids(arena)
  /\ sweeps \in 0..MaxSweeps
  /\ adj \in Seq(Nat)
  /\ pc = "sweeping" => root \in 1..Len(adj)

LEMMA InitIInv == Init => IInv
  BY ModelsAssumption, MaxSweepsAssumption DEF Init, IInv, Sound, Sweeping, Arenas, Ids, NoNode

(* Each step keeps the invariant and the nodes and symbols it found. *)
LEMMA StepIInv ==
  ASSUME IInv, [Next]_vars
  PROVE  IInv' /\ Keeps(arena, arena')
<1> DEFINE sweep == [arena |-> arena, adj |-> adj]
<1>0. Sound(arena) /\ MaxSweeps \in Nat
  BY MaxSweepsAssumption DEF IInv
<1>1. ASSUME NEW r \in Roots, Begin(r) PROVE IInv' /\ Keeps(arena, arena')
  <2>1. r \in Ids(arena)
    BY <1>1 DEF Roots, IInv, Begin
  <2>2. /\ Sweeping(Len(arena.nodes), BeginSweep(arena, r))
        /\ Keeps(arena, BeginSweep(arena, r).arena)
    BY <1>0, <2>1, BeginMoves
  <2>3. arena' = BeginSweep(arena, r).arena /\ adj' = BeginSweep(arena, r).adj
    BY <1>1 DEF Begin
  <2>4. adj' \in Seq(Nat) /\ Len(adj') = Len(arena.nodes)
    <3>1. adj' \in [1..Len(arena.nodes) -> Nat] /\ Len(arena.nodes) \in Nat
      BY <1>0, <2>2, <2>3 DEF Sweeping, Sound, Arenas
    <3> QED
      BY <3>1, FunctionIsSequence
  <2>5. Sweeping(Len(adj'), [arena |-> arena', adj |-> adj'])
    BY <2>2, <2>3, <2>4 DEF Sweeping
  <2>6. r \in Ids(arena') /\ Sound(arena')
    BY <1>0, <2>1, <2>2, <2>3, IdsGrow DEF Keeps
  <2>8. NodesOnce(arena') /\ root' \in 1..Len(adj')
    BY <1>1, <2>1, <2>2, <2>3, <2>4 DEF IInv, Keeps, Begin, Ids
  <2>7. cursor' \in 0..Len(adj') /\ sweeps' \in 0..MaxSweeps
    BY <1>0, <1>1, <2>4 DEF Begin, IInv, Sound, Arenas
  <2> QED
    BY <1>1, <2>2, <2>3, <2>4, <2>5, <2>6, <2>7, <2>8 DEF Begin, IInv
<1>2. ASSUME Visit PROVE IInv' /\ Keeps(arena, arena')
  <2>1. cursor \in 1..Len(adj) /\ Sweeping(Len(adj), sweep)
    BY <1>2 DEF Visit, IInv
  <2> DEFINE next == SweepAt(sweep, cursor)
  <2>2. Moves(Len(adj), sweep, next)
    BY <2>1, SweepAtMoves
  <2>3. arena' = next.arena /\ adj' = next.adj /\ cursor' = cursor - 1
        /\ UNCHANGED <<pc, root, partial, sweeps>>
    BY <1>2 DEF Visit
  <2> HIDE DEF next
  <2>4. Keeps(arena, arena') /\ Sweeping(Len(adj), next)
    BY <2>2, <2>3 DEF Moves
  <2>5. adj' \in Seq(Nat) /\ Len(adj') = Len(adj)
    <3>1. adj' \in [1..Len(adj) -> Nat] /\ Len(adj) \in Nat
      BY <2>3, <2>4 DEF Sweeping, IInv
    <3> QED
      BY <3>1, FunctionIsSequence
  <2>6. Sweeping(Len(adj'), [arena |-> arena', adj |-> adj'])
    BY <2>3, <2>4, <2>5 DEF Sweeping
  <2>7. Ids(arena) \subseteq Ids(arena') /\ Sound(arena')
    BY <1>0, <2>4, IdsGrow DEF Keeps
  <2>8. cursor' \in 0..Len(adj') /\ NodesOnce(arena')
    BY <2>1, <2>3, <2>4, <2>5 DEF IInv, Keeps
  <2> QED
    BY <2>3, <2>4, <2>5, <2>6, <2>7, <2>8 DEF IInv
<1>3. ASSUME Finish PROVE IInv' /\ Keeps(arena, arena')
  <2> DEFINE answer == Collect(sweep)
  <2>1. Sweeping(Len(adj), sweep)
    BY DEF IInv
  <2>2. /\ Keeps(arena, answer.arena)
        /\ \A s \in DOMAIN answer.partial : answer.partial[s] \in Ids(answer.arena)
    BY <2>1, CollectAnswers DEF Partials
  <2>3. /\ arena' = answer.arena /\ partial' = answer.partial /\ pc' = "ready"
        /\ UNCHANGED <<root, adj, cursor, sweeps>>
    BY <1>3 DEF Finish
  <2> HIDE DEF answer
  <2>4. Ids(arena) \subseteq Ids(arena') /\ Sound(arena') /\ Len(arena.nodes) <= Len(arena'.nodes)
    BY <1>0, <2>2, <2>3, IdsGrow DEF Keeps, Extends
  <2>5. Sweeping(Len(adj'), [arena |-> arena', adj |-> adj'])
    BY <1>0, <2>1, <2>3, <2>4 DEF Sweeping, Sound, Arenas
  <2>6. NodesOnce(arena')
    BY <2>2, <2>3 DEF IInv, Keeps
  <2> QED
    BY <2>2, <2>3, <2>4, <2>5, <2>6 DEF IInv
<1>4. ASSUME UNCHANGED vars PROVE IInv' /\ Keeps(arena, arena')
  <2>1. Keeps(arena, arena') 
    BY <1>0, <1>4, ExtendsRefl DEF vars
  <2> QED
    BY <1>4, <2>1 DEF vars, IInv
<1> QED
  BY <1>1, <1>2, <1>3, <1>4 DEF Next

(* The invariant, of every state: a sweep never leaves its snapshot, and no  *)
(* step of it forms a node the arena has already.                            *)
THEOREM SweepInvariant == Spec => []IInv
<1>1. IInv /\ [Next]_vars => IInv'
  BY StepIInv
<1> QED
  BY <1>1, InitIInv, PTL DEF Spec

(* Every adjoint a sweep records, and every partial it answers, is a node of *)
(* the arena, for any scalar, model, root and number of sweeps.              *)
THEOREM AdjointsAreNodes == Spec => []TypeOK
<1>1. IInv => TypeOK
  BY DEF IInv, TypeOK, Sound, Sweeping
<1> QED
  BY <1>1, SweepInvariant, PTL

-----------------------------------------------------------------------------
(* A sweep made again.                                                       *)
(* The machine is where the call on B is after its first n - cursor turns.   *)
UnderWay(B, f) ==
  /\ Sound(B) /\ root \in Ids(B) /\ Len(adj) = Len(B.nodes)
  /\ SweepRun(Len(adj), B, root, f)
  /\ ReverseGradient(B, root) = Collect(f[Len(adj)])
  /\ f[Len(adj) - cursor] = [arena |-> arena, adj |-> adj]

Answered(B) ==
  /\ Sound(B) /\ root \in Ids(B)
  /\ ReverseGradient(B, root) = [arena |-> arena, partial |-> partial]

(* What is being formed, and then has been, is the gradient of the root in   *)
(* the arena the sweep began with.                                           *)
CallInv ==
  /\ pc = "sweeping" => \E B, f : UnderWay(B, f)
  /\ pc = "ready" /\ sweeps > 0 => \E B : Answered(B)

LEMMA BeginCall ==
  ASSUME IInv, NEW r \in Roots, Begin(r)
  PROVE  CallInv'
<1>1. PICK B : B = arena
  OBVIOUS
<1> DEFINE n == Len(B.nodes)
<1>2. r \in Ids(B) /\ Sound(B) /\ n \in Nat
  BY <1>1 DEF Roots, IInv, Begin, Sound, Arenas
<1>3. PICK f : SweepRun(n, B, r, f) /\ ReverseGradient(B, r) = Collect(f[n])
  BY <1>2, ReverseRuns
<1>4. /\ arena' = BeginSweep(B, r).arena /\ adj' = BeginSweep(B, r).adj
      /\ root' = r /\ cursor' = n /\ pc' = "sweeping"
  BY <1>1 DEF Begin
<1>5. Len(adj') = n
  <2>1. adj' \in [1..n -> Nat]
    BY <1>2, <1>4, BeginMoves DEF Sweeping
  <2>. QED BY <1>2, <2>1, FunctionIsSequence
<1>6. f[n - n] = [arena |-> arena', adj |-> adj']
  BY <1>2, <1>3, <1>4 DEF SweepRun, BeginSweep
<1>7. /\ Sound(B) /\ root' \in Ids(B) /\ Len(adj') = Len(B.nodes)
      /\ SweepRun(Len(adj'), B, root', f) /\ ReverseGradient(B, root') = Collect(f[Len(adj')])
      /\ f[Len(adj') - cursor'] = [arena |-> arena', adj |-> adj']
  BY <1>2, <1>3, <1>4, <1>5, <1>6
<1>8. UnderWay(B, f)'
  BY <1>7 DEF UnderWay
<1>. QED BY <1>4, <1>8 DEF CallInv

LEMMA VisitCall ==
  ASSUME IInv, CallInv, Visit
  PROVE  CallInv'
<1> DEFINE n == Len(adj)
           sweep == [arena |-> arena, adj |-> adj]
<1>1. PICK B, f : UnderWay(B, f)
  BY DEF CallInv, Visit
<1>2. cursor \in 1..n /\ n \in Nat /\ n - cursor \in 0..n
  BY DEF IInv, Visit
<1> DEFINE k == (n - cursor) + 1
           next == SweepAt(sweep, cursor)
<1>3. k \in 1..n /\ k - 1 = n - cursor /\ n + 1 - k = cursor /\ k = n - (cursor - 1)
  BY <1>2
<1>4. /\ arena' = next.arena /\ adj' = next.adj /\ cursor' = cursor - 1
      /\ pc' = "sweeping" /\ root' = root
  BY DEF Visit
<1>5. f[k] = next /\ Sweeping(n, f[k])
  <2>1. f[k] = SweepAt(f[k - 1], n + 1 - k) /\ Sweeping(n, f[k])
    BY <1>1, <1>3 DEF UnderWay, SweepRun
  <2>2. f[k - 1] = sweep
    BY <1>1, <1>3 DEF UnderWay
  <2> HIDE DEF k
  <2>. QED BY <1>3, <2>1, <2>2
<1> HIDE DEF next, k
<1>6. f[k] = [arena |-> arena', adj |-> adj']
  BY <1>4, <1>5 DEF Sweeping
<1>7. Len(adj') = n
  <2>1. adj' \in [1..n -> Nat]
    BY <1>4, <1>5 DEF Sweeping
  <2>. QED BY <1>2, <2>1, FunctionIsSequence
<1>8. /\ Sound(B) /\ root' \in Ids(B) /\ Len(adj') = Len(B.nodes)
      /\ SweepRun(Len(adj'), B, root', f) /\ ReverseGradient(B, root') = Collect(f[Len(adj')])
      /\ f[Len(adj') - cursor'] = [arena |-> arena', adj |-> adj']
  BY <1>1, <1>3, <1>4, <1>6, <1>7 DEF UnderWay
<1>9. UnderWay(B, f)'
  BY <1>8 DEF UnderWay
<1>. QED BY <1>4, <1>9 DEF CallInv

LEMMA FinishCall ==
  ASSUME IInv, CallInv, Finish
  PROVE  CallInv'
<1> DEFINE n == Len(adj)
           sweep == [arena |-> arena, adj |-> adj]
           answer == Collect(sweep)
<1>1. PICK B, f : UnderWay(B, f)
  BY DEF CallInv, Finish
<1>2. arena' = answer.arena /\ partial' = answer.partial /\ pc' = "ready" /\ root' = root
  BY DEF Finish
<1>3. f[n] = sweep
  <2>1. n \in Nat /\ n - cursor = n
    BY DEF IInv, Finish
  <2>. QED BY <1>1, <2>1 DEF UnderWay
<1>4. answer = [arena |-> answer.arena, partial |-> answer.partial]
  <2>1. Sweeping(n, sweep)
    BY DEF IInv
  <2> HIDE DEF sweep
  <2>. QED BY <2>1, CollectAnswers DEF Partials
<1>5. ReverseGradient(B, root) = answer
  BY <1>1, <1>3 DEF UnderWay
<1> HIDE DEF answer
<1>6. /\ Sound(B) /\ root' \in Ids(B)
      /\ ReverseGradient(B, root') = [arena |-> arena', partial |-> partial']
  BY <1>1, <1>2, <1>4, <1>5 DEF UnderWay
<1>7. Answered(B)'
  BY <1>6 DEF Answered
<1>. QED BY <1>2, <1>7 DEF CallInv

LEMMA StepCall ==
  ASSUME IInv, CallInv, [Next]_vars
  PROVE  CallInv'
<1>1. CASE UNCHANGED vars
  <2>1. /\ pc' = pc /\ sweeps' = sweeps /\ root' = root /\ adj' = adj /\ arena' = arena
        /\ cursor' = cursor /\ partial' = partial
    BY <1>1 DEF vars
  <2>2. \A B, f : UnderWay(B, f) => UnderWay(B, f)'
    BY <2>1 DEF UnderWay
  <2>3. \A B : Answered(B) => Answered(B)'
    BY <2>1 DEF Answered
  <2>. QED BY <2>1, <2>2, <2>3 DEF CallInv
<1>. QED BY <1>1, BeginCall, VisitCall, FinishCall DEF Next

(* A gradient is one thing: whatever another sweep adds to the builder after *)
(* it, a sweep from the same root answers the same partials and forms no     *)
(* node, for any scalar, model and rules of derivation.                      *)
THEOREM SweepsRepeat == Spec => []SweepRepeats
<1>1. Init => CallInv
  BY DEF Init, CallInv
<1>2. IInv /\ CallInv /\ [Next]_vars => CallInv'
  BY StepCall
<1>3. IInv /\ CallInv => SweepRepeats
  <2> SUFFICES ASSUME IInv, CallInv, pc = "ready", sweeps > 0, NEW q \in Roots \cup {root},
                      NEW grown, grown = ReverseGradient(arena, q).arena, Regular(grown)
               PROVE  ReverseGradient(grown, root) = [arena |-> grown, partial |-> partial]
    BY DEF SweepRepeats
  <2>1. PICK B : Answered(B)
    BY DEF CallInv
  <2>2. Sound(B) /\ root \in Ids(B) /\ Sound(arena)
    BY <2>1 DEF Answered, IInv
  <2>3. root \in Ids(arena)
    <3>1. Partials(B, ReverseGradient(B, root))
      BY <2>2, ReverseAnswers
    <3>2. Keeps(B, arena)
      BY <2>1, <3>1 DEF Answered, Partials
    <3>. QED BY <2>2, <3>2, IdsGrow
  <2>4. q \in Ids(arena)
    BY <2>3 DEF Roots, IInv
  <2>5. Recalls(arena, grown)
    <3>1. Keeps(arena, grown)
      BY <2>2, <2>4, ReverseAnswers DEF Partials
    <3>. QED BY <3>1 DEF Recalls, Keeps, IInv
  <2>6. ReverseGradient(B, root).arena = arena /\ ReverseGradient(B, root).partial = partial
    BY <2>1 DEF Answered
  <2>. QED BY <2>2, <2>5, <2>6, ReverseAgain
<1> QED
  BY <1>1, <1>2, <1>3, SweepInvariant, PTL DEF Spec

-----------------------------------------------------------------------------
(* The sums.                                                                 *)
SweepHere == [arena |-> arena, adj |-> adj]
LEMMA BeginSums ==
  ASSUME CalculusLaws(Smooth), IInv, IInv', NEW r \in Roots, Begin(r)
  PROVE  AdjointsAddUp'
<1> DEFINE n == Len(adj')
           sweep == [arena |-> arena', adj |-> adj']
<1>1. Sound(arena) /\ Sound(arena') /\ r \in Ids(arena) /\ Keeps(arena', arena')
  BY ExtendsRefl DEF IInv, Roots, Begin
<1>2. /\ sweep = BeginSweep(arena, r) /\ cursor' = Len(arena.nodes) /\ root' = r
  BY DEF Begin, BeginSweep
<1>3. Len(arena.nodes) = n /\ n \in 0..Len(arena'.nodes)
  <2>1. Sweeping(Len(arena.nodes), sweep) /\ Sweeping(n, sweep) /\ Len(arena.nodes) \in Nat
        /\ n \in Nat
    BY <1>1, <1>2, BeginMoves DEF IInv, Sound, Arenas
  <2>2. DOMAIN sweep.adj = 1..n /\ DOMAIN sweep.adj = 1..Len(arena.nodes)
    BY <2>1 DEF Sweeping
  <2>. QED BY <2>1, <2>2 DEF Sweeping
<1>4. ASSUME NEW p, p \in PointFor(Smooth, arena'), NEW s
      PROVE  LET w == ValuesAt(Smooth, arena', p)
                 t == TangentsAt(Smooth, arena', w, s, n)
             IN  Total(Smooth, Terms(Smooth, sweep, cursor', w, t), n) = t[root']
  <2> DEFINE w == ValuesAt(Smooth, arena', p)
             t == TangentsAt(Smooth, arena', w, s, n)
  <2>1. Reads(Smooth, n, arena', p, w, s, t)
    BY <1>1, <1>3, <1>4, OwnReads
  <2> HIDE DEF w, t
  <2>2. Keeps(BeginSweep(arena, r).arena, arena')
    BY <1>1, <1>2
  <2>3. Total(Smooth, Terms(Smooth, BeginSweep(arena, r), n, w, t), n) = t[r]
    BY <1>1, <1>3, <2>1, <2>2, BeginAddsUp
  <2>. QED BY <1>2, <1>3, <2>3 DEF w, t
<1> HIDE DEF n
<1>. QED BY <1>4 DEF AdjointsAddUp, AddsUp, PointsHere, n

(* What the sums of a sweep under way are, in any arena since. *)
LEMMA SumsLater ==
  ASSUME CalculusLaws(Smooth), IInv, AdjointsAddUp, pc = "sweeping", NEW C, Keeps(arena, C),
         NEW p \in PointsHere, NEW s \in SlotsHere, NEW w, NEW t,
         Reads(Smooth, Len(adj), C, p, w, s, t),
         t[root] # Smooth.none
  PROVE  Total(Smooth, Terms(Smooth, SweepHere, cursor, w, t), Len(adj)) = t[root]
<1> DEFINE n == Len(adj)
           v == ValuesAt(Smooth, arena, p)
           u == TangentsAt(Smooth, arena, v, s, n)
<1>1. Sweeping(n, SweepHere) /\ Sound(arena) /\ n \in 0..Len(arena.nodes)
        /\ SweepHere.arena = arena
  BY DEF IInv, SweepHere, Sweeping
<1>2. p \in PointFor(Smooth, arena)
  BY DEF PointsHere
<1>3. Reads(Smooth, n, arena, p, v, s, u)
  BY <1>1, <1>2, OwnReads
<1>4. u[root] # Smooth.none => Total(Smooth, Terms(Smooth, SweepHere, cursor, v, u), n) = u[root]
  BY DEF AdjointsAddUp, AddsUp, SweepHere
<1> HIDE DEF n, v, u
<1>5. u = t /\ Total(Smooth, Terms(Smooth, SweepHere, cursor, v, u), n) =
        Total(Smooth, Terms(Smooth, SweepHere, cursor, w, t), n)
  <2>1. Reads(Smooth, n, C, p, w, s, t)
    BY DEF n
  <2>. QED BY <1>1, <1>3, <2>1, SumsKept
<1>. QED BY <1>4, <1>5 DEF n

LEMMA VisitSums ==
  ASSUME CalculusLaws(Smooth), IInv, IInv', AdjointsAddUp, Visit
  PROVE  AdjointsAddUp'
<1> DEFINE n == Len(adj)
           next == SweepAt(SweepHere, cursor)
<1>1. /\ pc = "sweeping" /\ cursor \in 1..n /\ cursor' = cursor - 1 /\ root' = root
      /\ next = [arena |-> arena', adj |-> adj']
  <2>1. pc = "sweeping" /\ cursor \in 1..n /\ cursor' = cursor - 1 /\ root' = root
    BY DEF Visit, IInv
  <2>2. arena' = next.arena /\ adj' = next.adj
    BY DEF Visit, SweepHere
  <2>3. Sweeping(n, SweepHere)
    BY DEF IInv, SweepHere
  <2>4. Sweeping(n, next)
    BY <2>1, <2>3, SweepAtMoves DEF Moves
  <2>5. next = [arena |-> next.arena, adj |-> next.adj]
    <3> HIDE DEF next
    <3>. QED BY <2>4 DEF Sweeping
  <2>. QED BY <2>1, <2>2, <2>5
<1>2. Sweeping(n, SweepHere) /\ Sound(arena) /\ SweepHere.arena = arena
  BY DEF IInv, SweepHere
<1>3. Moves(n, SweepHere, next)
  BY <1>1, <1>2, SweepAtMoves
<1>4. Keeps(arena, arena') /\ Sound(arena') /\ Keeps(next.arena, arena')
  <2> HIDE DEF next
  <2>1. Keeps(arena, arena') /\ Sound(arena') /\ next.arena = arena'
    BY <1>1, <1>2, <1>3 DEF Moves, Keeps
  <2>. QED BY <2>1, ExtendsRefl
<1>5. Len(adj') = n /\ n \in 0..Len(arena'.nodes)
  <2>1. Sweeping(n, [arena |-> arena', adj |-> adj'])
    BY <1>1, <1>3 DEF Moves
  <2>2. DOMAIN adj' = 1..n
    BY <2>1 DEF Sweeping
  <2>3. adj' \in Seq(Nat) /\ adj \in Seq(Nat)
    BY DEF IInv
  <2>. QED BY <2>1, <2>2, <2>3 DEF Sweeping
<1>6. ASSUME NEW p \in PointsHere', NEW s \in SlotsHere'
      PROVE  LET w == ValuesAt(Smooth, arena', p)
                 t == TangentsAt(Smooth, arena', w, s, n)
             IN  t[root] # Smooth.none =>
                   Total(Smooth, Terms(Smooth, next, cursor - 1, w, t), n) = t[root]
  <2> DEFINE w == ValuesAt(Smooth, arena', p)
             t == TangentsAt(Smooth, arena', w, s, n)
  <2>1. Reads(Smooth, n, arena', p, w, s, t)
    BY <1>4, <1>5, OwnReads DEF PointsHere
  <2> HIDE DEF w, t
  <2>2. p \in PointsHere /\ s \in SlotsHere
    BY <1>4 DEF PointsHere, SlotsHere, PointFor, Keeps
  <2>3. ASSUME t[root] # Smooth.none
        PROVE Total(Smooth, Terms(Smooth, next, cursor - 1, w, t), n) = t[root]
    <3>1. Total(Smooth, Terms(Smooth, SweepHere, cursor, w, t), n) = t[root]
      BY <1>1, <1>4, <2>1, <2>2, <2>3, SumsLater
    <3>2. Visits(Smooth, n, SweepHere, cursor, arena', p, w, s, t, t[root])
      BY <1>1, <1>2, <1>4, <2>1, <2>3, <3>1 DEF Visits
    <3>3. Keeps(SweepAt(SweepHere, cursor).arena, arena')
      BY <1>4
    <3> HIDE DEF next, n
    <3>. QED BY <3>2, <3>3, VisitAddsUp DEF next
  <2>. QED BY <2>3 DEF w, t
<1> HIDE DEF next, n
<1>. QED BY <1>1, <1>5, <1>6 DEF AdjointsAddUp, AddsUp

LEMMA FinishGradient ==
  ASSUME CalculusLaws(Smooth), IInv, IInv', AdjointsAddUp, Finish
  PROVE  GradientCorrect'
<1> DEFINE n == Len(adj)
           answer == Collect(SweepHere)
<1>1. /\ pc = "sweeping" /\ cursor = 0 /\ root' = root /\ root \in 1..n
      /\ arena' = answer.arena /\ partial' = answer.partial
  BY DEF Finish, SweepHere, IInv
<1>2. Sweeping(n, SweepHere) /\ Sound(arena) /\ NodesOnce(arena) /\ SweepHere.arena = arena
  BY DEF IInv, SweepHere
<1>3. Keeps(arena, arena') /\ Sound(arena') /\ Keeps(answer.arena, arena')
  <2>1. Keeps(arena, arena') /\ Sound(arena')
    BY <1>1, <1>2, CollectAnswers DEF Partials, Keeps
  <2>. QED BY <1>1, <2>1, ExtendsRefl
<1> HIDE DEF answer
<1>4. n \in Nat \ {0} /\ n \in 0..Len(arena'.nodes) /\ root \in 0..Len(arena'.nodes)
  BY <1>1, <1>2, <1>3 DEF IInv, Sweeping, Keeps, Extends, Sound, Arenas
<1>5. ASSUME NEW p \in PointsHere', NEW s \in SlotsHere'
      PROVE  LET w == ValuesAt(Smooth, arena', p)
                 t == TangentsAt(Smooth, arena', w, s, root)
             IN  t[root] # Smooth.none => w[partial'[s]] = t[root]
  <2> DEFINE w == ValuesAt(Smooth, arena', p)
             t == TangentsAt(Smooth, arena', w, s, n)
             u == TangentsAt(Smooth, arena', w, s, root)
  <2>1. Reads(Smooth, n, arena', p, w, s, t) /\ Reads(Smooth, root, arena', p, w, s, u)
    BY <1>3, <1>4, OwnReads DEF PointsHere
  <2> HIDE DEF w, t, u
  <2>2. p \in PointsHere /\ s \in SlotsHere /\ Keeps(arena', arena')
    BY <1>3, ExtendsRefl DEF PointsHere, SlotsHere, PointFor, Keeps
  <2>3. u[root] = t[root]
    <3>1. root <= n
      BY <1>1, <1>4
    <3>2. AgreeOn(1..root, u, t)
      BY <1>3, <1>4, <2>1, <2>2, <3>1, ReadsKept
    <3>. QED BY <1>1, <1>4, <3>2 DEF AgreeOn
  <2>4. ASSUME t[root] # Smooth.none PROVE w[partial'[s]] = t[root]
    <3>1. Total(Smooth, Terms(Smooth, SweepHere, 0, w, t), n) = t[root]
      BY <1>1, <1>3, <2>1, <2>2, <2>4, SumsLater
    <3>2. s \in 1..Len(SweepHere.arena.symbols)
      BY <1>2, <2>2 DEF SlotsHere
    <3> HIDE DEF n
    <3>3. w[answer.partial[s]] = t[root]
      BY <1>2, <1>3, <1>4, <2>1, <2>4, <3>1, <3>2, CollectGives DEF answer
    <3>. QED BY <1>1, <3>3
  <2>. QED BY <2>3, <2>4 DEF w, t, u
<1>. QED BY <1>1, <1>5 DEF GradientCorrect, IsGradient, SlotsHere

(* While a sweep is under way its adjoints account for the whole of the      *)
(* root's tangent, and what it ends in is the gradient.                      *)
SumsInv == IInv /\ AdjointsAddUp /\ GradientCorrect
LEMMA StepSums ==
  ASSUME CalculusLaws(Smooth), SumsInv, [Next]_vars
  PROVE  SumsInv'
<1>1. IInv' /\ IInv
  BY StepIInv DEF SumsInv
<1>2. ASSUME NEW r \in Roots, Begin(r) PROVE SumsInv'
  <2>1. AdjointsAddUp'
    BY <1>1, <1>2, BeginSums
  <2>2. pc' = "sweeping"
    BY <1>2 DEF Begin
  <2>. QED BY <1>1, <2>1, <2>2 DEF SumsInv, GradientCorrect
<1>3. ASSUME Visit PROVE SumsInv'
  <2>1. AdjointsAddUp'
    BY <1>1, <1>3, VisitSums DEF SumsInv
  <2>2. pc' = "sweeping"
    BY <1>3 DEF Visit
  <2>. QED BY <1>1, <2>1, <2>2 DEF SumsInv, GradientCorrect
<1>4. ASSUME Finish PROVE SumsInv'
  <2>1. GradientCorrect'
    BY <1>1, <1>4, FinishGradient DEF SumsInv
  <2>2. pc' = "ready"
    BY <1>4 DEF Finish
  <2>. QED BY <1>1, <2>1, <2>2 DEF SumsInv, AdjointsAddUp
<1>5. ASSUME UNCHANGED vars PROVE SumsInv'
  BY <1>1, <1>5 DEF SumsInv, vars, AdjointsAddUp, GradientCorrect, PointsHere, SlotsHere
<1>. QED BY <1>2, <1>3, <1>4, <1>5 DEF Next

LEMMA SumsInvariant ==
  ASSUME CalculusLaws(Smooth)
  PROVE  Spec => []SumsInv
<1>1. Init => SumsInv
  <2>1. Init => AdjointsAddUp /\ GradientCorrect
    BY DEF Init, AdjointsAddUp, GradientCorrect
  <2>. QED BY <2>1, InitIInv DEF SumsInv
<1>2. SumsInv /\ [Next]_vars => SumsInv'
  BY StepSums
<1>. QED BY <1>1, <1>2, PTL DEF Spec

(* Over any ring of scalars, wherever a sweep has got to: what the nodes it  *)
(* has still to visit hold, each times its tangent, together with what the   *)
(* symbols have so far, adds up to the tangent of the root.                  *)
THEOREM AdjointsAccount ==
  ASSUME CalculusLaws(Smooth)
  PROVE  Spec => []AdjointsAddUp
<1>1. SumsInv => AdjointsAddUp
  BY DEF SumsInv
<1>. QED BY <1>1, SumsInvariant, PTL

(* Over any ring of scalars, gradient() answers the derivatives: wherever    *)
(* the root has a derivative, the node named for the symbol has its value.   *)
THEOREM SweepIsGradient ==
  ASSUME CalculusLaws(Smooth)
  PROVE  Spec => []GradientCorrect
<1>1. SumsInv => GradientCorrect
  BY DEF SumsInv
<1>. QED BY <1>1, SumsInvariant, PTL

(* Over any ring of scalars, symbolic_gradient() answers the derivatives of  *)
(* every node of a model: the passes that build it agree with the reverse    *)
(* sweep wherever there is a derivative to agree on.                         *)
THEOREM ForwardAgrees ==
  ASSUME CalculusLaws(Smooth)
  PROVE  Spec => []SymbolicCorrect
<1>1. IInv => SymbolicCorrect
  BY SymbolicIsGradient DEF IInv, SymbolicCorrect, PointsHere
<1>. QED BY <1>1, SweepInvariant, PTL
=============================================================================
