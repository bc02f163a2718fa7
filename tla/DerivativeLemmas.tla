---------------------------- MODULE DerivativeLemmas --------------------------
(***************************************************************************)
(* What the derivative rules and the loops of rt/derivative.hpp keep of    *)
(* the arena they form their nodes in, for every scalar and op table: the  *)
(* facts the proofs about sweeps, Hessians and equations cite.             *)
(***************************************************************************)
EXTENDS SecondOrder, Hessian, BuilderLemmas

(* An expression that means something in B. *)
Names(B, e) == e \in Expr /\ e.id \in Ids(B) \cup {NoNode}

(* A stage of a formula begun in arena B. *)
Stage(B, stage) ==
  /\ stage \in [arena : Arenas, e : Expr]
  /\ Keeps(B, stage.arena) /\ Names(stage.arena, stage.e)

LEMMA NamesKept ==
  ASSUME NEW B, NEW C, Sound(B), Keeps(B, C), NEW e, Names(B, e)
  PROVE  Names(C, e)
  BY IdsGrow DEF Names

LEMMA LiteralNames ==
  ASSUME NEW B, NEW c \in Scalar
  PROVE  Names(B, Lit(c))
  BY DEF Names, Lit, Expr, NoNode

LEMMA NodeNames ==
  ASSUME NEW B, Sound(B), NEW v \in Ids(B)
  PROVE  Names(B, At(v))
  BY ScalarAssumption DEF Names, At, Expr, Ids

LEMMA NewStage ==
  ASSUME NEW A, NEW B, Keeps(A, B), NEW e, Names(B, e)
  PROVE  Stage(A, [arena |-> B, e |-> e])
<1>1. B \in Arenas /\ e \in Expr
  BY DEF Keeps, Sound, Names
<1> QED
  BY <1>1 DEF Stage

LEMMA StartStage ==
  ASSUME NEW B, Sound(B), NEW e, Names(B, e)
  PROVE  Stage(B, Start(B, e))
  BY ExtendsRefl, NewStage DEF Start

LEMMA Node1Stage ==
  ASSUME NEW A, NEW B, Sound(A), Keeps(A, B), NEW reply, Answers(B, reply)
  PROVE  Stage(A, Node1(reply))
<1>1. Keeps(B, reply.arena) /\ reply.id \in Ids(reply.arena) /\ Sound(reply.arena)
  BY DEF Answers, Keeps
<1>2. Keeps(A, reply.arena)
  BY <1>1, KeepsTransitive
<1> QED
  BY <1>1, <1>2, NodeNames, NewStage DEF Node1

LEMMA MaterialiseAnswers ==
  ASSUME NEW B, Sound(B), NEW e, Names(B, e)
  PROVE  Answers(B, Materialise(B, e))
  BY ConstantAnswers, ExistingAnswers DEF Materialise, Pending, Names, Expr

LEMMA UnaryStage ==
  ASSUME NEW B, Sound(B), NEW op \in UnaryOps, NEW stage, Stage(B, stage)
  PROVE  Stage(B, Unary(op, stage))
<1>0. stage.e \in Expr /\ Keeps(B, stage.arena) /\ Sound(stage.arena)
  BY DEF Stage, Names, Keeps
<1>1. CASE Pending(stage.e)
  <2>1. Apply1(op, stage.e.lit) \in Scalar
    BY <1>0, ScalarAssumption DEF Expr
  <2>2. stage \in [arena : Arenas, e : Expr]
    BY DEF Stage
  <2>3. Unary(op, stage) = [arena |-> stage.arena, e |-> Lit(Apply1(op, stage.e.lit))]
    BY <1>1, <2>2 DEF Unary
  <2> QED
    BY <1>0, <2>1, <2>3, LiteralNames, NewStage
<1>2. CASE ~Pending(stage.e)
  <2>1. stage.e.id \in Ids(stage.arena)
    BY <1>2 DEF Pending, Stage, Names
  <2>2. Answers(stage.arena, Make(stage.arena, op, stage.e.id, NoNode))
    BY <1>0, <2>1, MakeUnaryAnswers
  <2> QED
    BY <1>0, <1>2, <2>2, Node1Stage DEF Unary
<1> QED
  BY <1>1, <1>2

LEMMA FormStage ==
  ASSUME NEW A, Sound(A), NEW B, Keeps(A, B), NEW op \in BinaryOps,
         NEW l, Names(B, l), NEW r, Names(B, r)
  PROVE  Stage(A, Form(B, op, l, r))
<1>0. Sound(B) /\ l \in Expr /\ r \in Expr
  BY DEF Keeps, Names
<1>1. CASE Pending(l) /\ Pending(r)
  <2>1. Apply2(op, l.lit, r.lit) \in Scalar
    BY <1>0, ScalarAssumption DEF Expr
  <2>2. Form(B, op, l, r) = Start(B, Lit(Apply2(op, l.lit, r.lit)))
    BY <1>1 DEF Form
  <2> QED
    BY <1>0, <2>1, <2>2, LiteralNames, NewStage DEF Start
<1>2. CASE ~(Pending(l) /\ Pending(r))
  <2> DEFINE left == Materialise(B, l)
             right == Materialise(left.arena, r)
  <2>1. Keeps(B, left.arena) /\ left.id \in Ids(left.arena) /\ Sound(left.arena)
    BY <1>0, MaterialiseAnswers DEF Answers, Keeps
  <2>2. Keeps(left.arena, right.arena) /\ right.id \in Ids(right.arena) /\ Sound(right.arena)
    BY <1>0, <2>1, NamesKept, MaterialiseAnswers DEF Answers, Keeps
  <2>3. left.id \in Ids(right.arena)
    BY <2>1, <2>2, IdsGrow
  <2>4. Answers(right.arena, Make(right.arena, op, left.id, right.id))
    BY <2>2, <2>3, MakeBinaryAnswers
  <2>5. Keeps(A, right.arena)
    BY <1>0, <2>1, <2>2, KeepsTransitive
  <2>6. Form(B, op, l, r) = Node1(Make(right.arena, op, left.id, right.id))
    BY <1>2 DEF Form, JoinedTo, Joined
  <2> QED
    BY <2>4, <2>5, <2>6, Node1Stage
<1> QED
  BY <1>1, <1>2

LEMMA PipelineStage ==
  ASSUME NEW B, Sound(B), NEW op \in BinaryOps, NEW stage, Stage(B, stage), NEW e, Names(B, e)
  PROVE  Stage(B, Then(stage, op, e)) /\ Stage(B, After(e, op, stage))
<1>1. Keeps(B, stage.arena) /\ Names(stage.arena, stage.e) /\ Names(stage.arena, e)
  BY NamesKept DEF Stage
<1> QED
  BY <1>1, FormStage DEF Then, After

(* A stage t that a formula has in C is the one, s, that it has when begun   *)
(* in B, if C has all that s formed: the same expression, and nothing new.   *)
Again(B, s, C, t) ==
  /\ Stage(B, s)
  /\ Recalls(s.arena, C) => t = [arena |-> C, e |-> s.e]

LEMMA StartAgain ==
  ASSUME NEW B, Sound(B), NEW e, Names(B, e), NEW C
  PROVE  Again(B, Start(B, e), C, Start(C, e))
  BY StartStage DEF Again, Start

LEMMA MaterialiseAgain ==
  ASSUME NEW B, Sound(B), NEW e, Names(B, e), NEW C, Recalls(Materialise(B, e).arena, C)
  PROVE  Materialise(C, e) = [arena |-> C, id |-> Materialise(B, e).id]
<1>1. CASE Pending(e)
  <2>1. e.lit \in Scalar
    BY DEF Names, Expr
  <2>. QED BY <1>1, <2>1, ConstantAgain DEF Materialise
<1>2. CASE ~Pending(e)
  BY <1>2 DEF Materialise, Existing
<1>. QED BY <1>1, <1>2

LEMMA UnaryAgain ==
  ASSUME NEW B, Sound(B), NEW op \in UnaryOps, NEW C, NEW s, NEW t, Again(B, s, C, t)
  PROVE  Again(B, Unary(op, s), C, Unary(op, t))
<1> DEFINE next == Unary(op, s)
<1>1. Stage(B, s) /\ Stage(B, next) /\ Sound(s.arena) /\ Keeps(s.arena, s.arena)
  BY UnaryStage, ExtendsRefl DEF Again, Stage, Keeps
<1>2. Stage(s.arena, next)
  <2>1. Stage(s.arena, s)
    BY <1>1 DEF Stage
  <2>. QED BY <1>1, <2>1, UnaryStage
<1>3. ASSUME Recalls(next.arena, C)
      PROVE  Unary(op, t) = [arena |-> C, e |-> next.e]
  <2>1. Recalls(s.arena, C)
    BY <1>1, <1>2, <1>3, RecallsBefore DEF Stage
  <2>2. t = [arena |-> C, e |-> s.e]
    BY <2>1 DEF Again
  <2>3. CASE Pending(s.e)
    <3>1. s = [arena |-> s.arena, e |-> s.e]
      BY <1>1 DEF Stage
    <3>2. next = [arena |-> s.arena, e |-> Lit(Apply1(op, s.e.lit))]
      BY <2>3, <3>1 DEF Unary
    <3>3. Unary(op, t) = [arena |-> C, e |-> Lit(Apply1(op, s.e.lit))]
      BY <2>2, <2>3 DEF Unary
    <3>. QED BY <3>2, <3>3
  <2>4. CASE ~Pending(s.e)
    <3>1. s.e.id \in Ids(s.arena)
      BY <1>1, <2>4 DEF Pending, Stage, Names
    <3>2. next = Node1(Make(s.arena, op, s.e.id, NoNode))
      BY <2>4 DEF Unary
    <3>3. Recalls(Make(s.arena, op, s.e.id, NoNode).arena, C)
      BY <1>3, <3>2 DEF Node1
    <3>4. Make(C, op, s.e.id, NoNode) = [arena |-> C, id |-> Make(s.arena, op, s.e.id, NoNode).id]
      BY <1>1, <3>1, <3>3, MakeUnaryAgain
    <3>5. Unary(op, t) = Node1(Make(C, op, s.e.id, NoNode))
      BY <2>2, <2>4 DEF Unary
    <3>. QED BY <3>2, <3>4, <3>5 DEF Node1
  <2>. QED BY <2>3, <2>4
<1>. QED BY <1>1, <1>3 DEF Again

LEMMA FormAgain ==
  ASSUME NEW A, Sound(A), NEW B, Keeps(A, B), NEW op \in BinaryOps,
         NEW l, Names(B, l), NEW r, Names(B, r), NEW C
  PROVE  Again(A, Form(B, op, l, r), C, Form(C, op, l, r))
<1> DEFINE next == Form(B, op, l, r)
<1>0. Sound(B) /\ Stage(A, next)
  BY FormStage DEF Keeps
<1>1. ASSUME Recalls(next.arena, C)
      PROVE  Form(C, op, l, r) = [arena |-> C, e |-> next.e]
  <2>1. CASE Pending(l) /\ Pending(r)
    BY <2>1 DEF Form, Start
  <2>2. CASE ~(Pending(l) /\ Pending(r))
    <3> DEFINE left == Materialise(B, l)
               right == Materialise(left.arena, r)
               made == Make(right.arena, op, left.id, right.id)
    <3>1. Keeps(B, left.arena) /\ left.id \in Ids(left.arena) /\ Sound(left.arena)
      BY <1>0, MaterialiseAnswers DEF Answers, Keeps
    <3>2. Names(left.arena, r)
      BY <1>0, <3>1, NamesKept
    <3> HIDE DEF left
    <3>3. Keeps(left.arena, right.arena) /\ right.id \in Ids(right.arena) /\ Sound(right.arena)
      BY <3>1, <3>2, MaterialiseAnswers DEF Answers, Keeps
    <3>4. left.id \in Ids(right.arena)
      BY <3>1, <3>3, IdsGrow
    <3> HIDE DEF right
    <3>5. Answers(right.arena, made)
      BY <3>3, <3>4, MakeBinaryAnswers
    <3>6. next = Node1(made)
      BY <2>2 DEF Form, JoinedTo, Joined, left, right
    <3>7. Recalls(made.arena, C)
      BY <1>1, <3>6 DEF Node1
    <3>8. Recalls(right.arena, C)
      BY <3>3, <3>5, <3>7, RecallsBefore DEF Answers
    <3>9. Recalls(left.arena, C)
      BY <3>1, <3>3, <3>8, RecallsBefore
    <3>10. Materialise(C, l) = [arena |-> C, id |-> left.id]
      BY <1>0, <3>9, MaterialiseAgain DEF left
    <3>11. Materialise(C, r) = [arena |-> C, id |-> right.id]
      BY <3>1, <3>2, <3>8, MaterialiseAgain DEF right
    <3>12. Make(C, op, left.id, right.id) = [arena |-> C, id |-> made.id]
      BY <3>3, <3>4, <3>7, MakeBinaryAgain
    <3>13. Form(C, op, l, r) = Node1(Make(C, op, left.id, right.id))
      BY <2>2, <3>10, <3>11 DEF Form, JoinedTo, Joined
    <3> HIDE DEF made
    <3>. QED BY <3>6, <3>12, <3>13 DEF Node1
  <2>. QED BY <2>1, <2>2
<1>. QED BY <1>0, <1>1 DEF Again

LEMMA PipelineAgain ==
  ASSUME NEW B, Sound(B), NEW op \in BinaryOps, NEW C, NEW s, NEW t, Again(B, s, C, t),
         NEW e, Names(B, e)
  PROVE  /\ Again(B, Then(s, op, e), C, Then(t, op, e))
         /\ Again(B, After(e, op, s), C, After(e, op, t))
<1>1. /\ Stage(B, s) /\ Keeps(B, s.arena) /\ Sound(s.arena)
      /\ Names(s.arena, s.e) /\ Names(s.arena, e) /\ Keeps(s.arena, s.arena)
  BY NamesKept, ExtendsRefl DEF Again, Stage, Keeps
<1>2. ASSUME NEW l, Names(s.arena, l), NEW r, Names(s.arena, r),
             Recalls(Form(s.arena, op, l, r).arena, C)
      PROVE  t = [arena |-> C, e |-> s.e]
  <2>1. Stage(s.arena, Form(s.arena, op, l, r))
    BY <1>1, <1>2, FormStage
  <2>2. Recalls(s.arena, C)
    BY <1>1, <1>2, <2>1, RecallsBefore DEF Stage
  <2>. QED BY <2>2 DEF Again
<1>3. Again(B, Then(s, op, e), C, Then(t, op, e))
  <2>1. Again(B, Form(s.arena, op, s.e, e), C, Form(C, op, s.e, e))
    BY <1>1, FormAgain
  <2>2. ASSUME Recalls(Form(s.arena, op, s.e, e).arena, C)
        PROVE  Then(t, op, e) = Form(C, op, s.e, e)
    BY <1>1, <1>2, <2>2 DEF Then
  <2>. QED BY <2>1, <2>2 DEF Again, Then
<1>4. Again(B, After(e, op, s), C, After(e, op, t))
  <2>1. Again(B, Form(s.arena, op, e, s.e), C, Form(C, op, e, s.e))
    BY <1>1, FormAgain
  <2>2. ASSUME Recalls(Form(s.arena, op, e, s.e).arena, C)
        PROVE  After(e, op, t) = Form(C, op, e, s.e)
    BY <1>1, <1>2, <2>2 DEF After
  <2>. QED BY <2>1, <2>2 DEF Again, After
<1>. QED BY <1>3, <1>4

LEMMA MinusAgain ==
  ASSUME NEW B, Sound(B), NEW C, NEW l, Names(B, l), NEW r, Names(B, r)
  PROVE  Again(B, Minus(B, l, r), C, Minus(C, l, r))
<1>1. Again(B, Unary("Neg", Start(B, r)), C, Unary("Neg", Start(C, r)))
  BY StartAgain, UnaryAgain, RuleAssumption
<1> QED
  BY <1>1, PipelineAgain, RuleAssumption DEF Minus

-----------------------------------------------------------------------------
(* The rules: every partial is an expression of the arena it was formed in,  *)
(* and the same one when it is formed again.                                 *)
LEMMA PartialAgain ==
  ASSUME NEW B, Sound(B), NEW C, NEW op \in UnaryOps, NEW u, Names(B, u), NEW f, Names(B, f)
  PROVE  Again(B, Partial(B, op, u, f), C, Partial(C, op, u, f))
<1>1. \A c \in {Zero, One, MinusOne, Two} :
        Names(B, Lit(c)) /\ Again(B, Start(B, Lit(c)), C, Start(C, Lit(c)))
  BY LiteralNames, StartAgain, ScalarAssumption, RuleAssumption
<1>2. Again(B, Start(B, u), C, Start(C, u)) /\ Again(B, Start(B, f), C, Start(C, f))
  BY StartAgain
<1>3. Keeps(B, B)
  BY ExtendsRefl
<1>4. CASE op = "Neg"
  BY <1>1, <1>4 DEF Partial
<1>5. CASE op = "Abs"
  BY <1>2, <1>5, UnaryAgain, RuleAssumption DEF Partial
<1>6. CASE op = "Sign"
  BY <1>1, <1>6 DEF Partial
<1>7. CASE op = "Sine"
  BY <1>2, <1>7, UnaryAgain, RuleAssumption DEF Partial
<1>8. CASE op = "Cosine"
  <2>1. Again(B, Unary("Sine", Start(B, u)), C, Unary("Sine", Start(C, u)))
    BY <1>2, <1>8, UnaryAgain, RuleAssumption
  <2> QED
    BY <1>8, <2>1, UnaryAgain, RuleAssumption DEF Partial
<1>9. CASE op = "Exp"
  BY <1>2, <1>9 DEF Partial
<1>10. CASE op = "Log"
  BY <1>1, <1>3, <1>10, FormAgain, RuleAssumption DEF Partial
<1>11. CASE op = "Sqrt"
  <2>1. Again(B, Form(B, "Mul", Lit(Two), f), C, Form(C, "Mul", Lit(Two), f))
    BY <1>1, <1>3, FormAgain, RuleAssumption
  <2> QED
    BY <1>1, <1>11, <2>1, PipelineAgain, RuleAssumption DEF Partial
<1> QED
  BY <1>4, <1>5, <1>6, <1>7, <1>8, <1>9, <1>10, <1>11, RuleAssumption DEF UnaryRules

LEMMA AboveBelowAgain ==
  ASSUME NEW B, Sound(B), NEW C, NEW l, Names(B, l), NEW r, Names(B, r), "Sign" \in UnaryOps
  PROVE  /\ Again(B, Above(B, l, r), C, Above(C, l, r))
         /\ Again(B, Below(B, l, r), C, Below(C, l, r))
<1>1. Names(B, Lit(One)) /\ Names(B, Lit(Two))
  BY LiteralNames, ScalarAssumption, RuleAssumption
<1> DEFINE Signed(A) == Unary("Sign", Minus(A, l, r))
<1>2. Again(B, Signed(B), C, Signed(C))
  BY MinusAgain, UnaryAgain
<1>3. Again(B, Unary("Neg", Signed(B)), C, Unary("Neg", Signed(C)))
  BY <1>2, UnaryAgain, RuleAssumption
<1> DEFINE More(A) == After(Lit(One), "Add", Signed(A))
           Less(A) == After(Lit(One), "Add", Unary("Neg", Signed(A)))
<1>4. Again(B, More(B), C, More(C)) /\ Again(B, Less(B), C, Less(C))
  BY <1>1, <1>2, <1>3, PipelineAgain, RuleAssumption
<1> QED
  BY <1>1, <1>4, PipelineAgain, RuleAssumption DEF Above, Below

LEMMA PartialsAgain ==
  ASSUME NEW B, Sound(B), NEW C, NEW op \in BinaryOps,
         NEW l, Names(B, l), NEW r, Names(B, r), NEW f, Names(B, f)
  PROVE  /\ Again(B, LeftPartial(B, op, l, r, f), C, LeftPartial(C, op, l, r, f))
         /\ Again(B, RightPartial(B, op, l, r, f), C, RightPartial(C, op, l, r, f))
<1>1. Names(B, Lit(One)) /\ Again(B, Start(B, Lit(One)), C, Start(C, Lit(One)))
  BY LiteralNames, StartAgain, ScalarAssumption
<1>2. /\ Again(B, Start(B, l), C, Start(C, l)) /\ Again(B, Start(B, r), C, Start(C, r))
      /\ Again(B, Start(B, f), C, Start(C, f)) /\ Keeps(B, B)
  BY StartAgain, ExtendsRefl
<1>3. CASE op = "Add"
  BY <1>1, <1>3 DEF LeftPartial, RightPartial
<1>4. CASE op = "Mul"
  BY <1>2, <1>4 DEF LeftPartial, RightPartial
<1>5. CASE op = "Div"
  <2>1. Again(B, Unary("Neg", Start(B, f)), C, Unary("Neg", Start(C, f)))
    BY <1>2, UnaryAgain, RuleAssumption
  <2> DEFINE Ratio(A) == Then(Unary("Neg", Start(A, f)), "Div", r)
  <2>2. Again(B, Ratio(B), C, Ratio(C))
    BY <2>1, PipelineAgain, RuleAssumption
  <2>3. Again(B, Form(B, "Div", Lit(One), r), C, Form(C, "Div", Lit(One), r))
    BY <1>1, <1>2, FormAgain, RuleAssumption
  <2> QED
    BY <1>5, <2>2, <2>3 DEF LeftPartial, RightPartial
<1>6. CASE op = "Pow"
  <2> DEFINE Lower(A) == After(l, "Pow", Minus(A, r, Lit(One)))
             Base(A) == After(r, "Mul", Lower(A))
             Exponent(A) == After(f, "Mul", Unary("Log", Start(A, l)))
  <2>1. Again(B, Lower(B), C, Lower(C))
    BY <1>1, <1>6, MinusAgain, PipelineAgain
  <2>2. Again(B, Base(B), C, Base(C))
    BY <2>1, PipelineAgain, RuleAssumption
  <2>3. Again(B, Unary("Log", Start(B, l)), C, Unary("Log", Start(C, l)))
    BY <1>2, <1>6, UnaryAgain, RuleAssumption
  <2>4. Again(B, Exponent(B), C, Exponent(C))
    BY <2>3, PipelineAgain, RuleAssumption
  <2> QED
    BY <1>6, <2>2, <2>4 DEF LeftPartial, RightPartial
<1>7. CASE op = "Hypot"
  BY <1>2, <1>7, FormAgain, RuleAssumption DEF LeftPartial, RightPartial
<1>8. CASE op = "Max"
  BY <1>8, AboveBelowAgain, RuleAssumption DEF LeftPartial, RightPartial
<1>9. CASE op = "Min"
  BY <1>9, AboveBelowAgain, RuleAssumption DEF LeftPartial, RightPartial
<1> QED
  BY <1>3, <1>4, <1>5, <1>6, <1>7, <1>8, <1>9, RuleAssumption DEF BinaryRules

LEMMA PartialStage ==
  ASSUME NEW B, Sound(B), NEW op \in UnaryOps, NEW u, Names(B, u), NEW f, Names(B, f)
  PROVE  Stage(B, Partial(B, op, u, f))
  BY PartialAgain DEF Again

LEMMA PartialsStage ==
  ASSUME NEW B, Sound(B), NEW op \in BinaryOps,
         NEW l, Names(B, l), NEW r, Names(B, r), NEW f, Names(B, f)
  PROVE  Stage(B, LeftPartial(B, op, l, r, f)) /\ Stage(B, RightPartial(B, op, l, r, f))
  BY PartialsAgain DEF Again

-----------------------------------------------------------------------------
(* A sweep over a snapshot of n nodes: every adjoint is a node of the arena, *)
(* which still has the snapshot in it.                                       *)
Sweeping(n, sweep) ==
  /\ Sound(sweep.arena)
  /\ n \in 0..Len(sweep.arena.nodes)
  /\ sweep \in [arena : Arenas, adj : [1..n -> Nat]]
  /\ \A v \in 1..n : sweep.adj[v] \in Ids(sweep.arena) \cup {NoNode}

Moves(n, sweep, next) == Sweeping(n, next) /\ Keeps(sweep.arena, next.arena)

LEMMA AddToMoves ==
  ASSUME NEW n, NEW sweep, Sweeping(n, sweep), NEW child \in 1..n,
         NEW stage, Stage(sweep.arena, stage)
  PROVE  /\ Moves(n, sweep, AddTo(sweep, child, stage))
         /\ Keeps(stage.arena, AddTo(sweep, child, stage).arena)
<1> DEFINE c == Materialise(stage.arena, stage.e)
           sum == Make(c.arena, "Add", sweep.adj[child], c.id)
           total == IF sweep.adj[child] = NoNode THEN c ELSE sum
<1>0. Sound(sweep.arena) /\ Keeps(sweep.arena, stage.arena) /\ Sound(stage.arena)
  BY DEF Sweeping, Stage, Keeps
<1>1. Keeps(stage.arena, c.arena) /\ c.id \in Ids(c.arena) /\ Sound(c.arena)
  BY <1>0, MaterialiseAnswers DEF Stage, Answers, Keeps
<1>2. Keeps(sweep.arena, c.arena)
  BY <1>0, <1>1, KeepsTransitive
<1>3. Ids(sweep.arena) \subseteq Ids(c.arena)
  BY <1>0, <1>2, IdsGrow
<1>4. /\ Keeps(sweep.arena, total.arena) /\ Keeps(stage.arena, total.arena)
      /\ total.id \in Ids(total.arena)
  <2>1. CASE sweep.adj[child] = NoNode
    BY <2>1, <1>1, <1>2
  <2>2. CASE sweep.adj[child] # NoNode
    <3>1. sweep.adj[child] \in Ids(c.arena)
      BY <2>2, <1>3 DEF Sweeping
    <3>2. Answers(c.arena, sum)
      BY <3>1, <1>1, MakeBinaryAnswers, RuleAssumption
    <3>3. /\ Keeps(sweep.arena, sum.arena) /\ Keeps(stage.arena, sum.arena)
          /\ sum.id \in Ids(sum.arena)
      BY <3>2, <1>0, <1>1, <1>2, KeepsTransitive DEF Answers
    <3> QED
      BY <2>2, <3>3
  <2> QED
    BY <2>1, <2>2
<1>5. AddTo(sweep, child, stage) =
        [arena |-> total.arena, adj |-> [sweep.adj EXCEPT ![child] = total.id]]
  BY DEF AddTo, AddedTo, Recorded, Sum, IdOf
<1>6. Ids(sweep.arena) \subseteq Ids(total.arena) /\ Sound(total.arena)
  BY <1>0, <1>4, IdsGrow DEF Keeps
<1> HIDE DEF total
<1>7. n \in 0..Len(total.arena.nodes)
  BY <1>0, <1>4 DEF Sweeping, Keeps, Extends, Sound, Arenas
<1> QED
  BY <1>4, <1>5, <1>6, <1>7 DEF Moves, Sweeping, Ids, Sound

LEMMA MovesTransitive ==
  ASSUME NEW n, NEW sweep, Sweeping(n, sweep), NEW m, Moves(n, sweep, m), NEW k, Moves(n, m, k)
  PROVE  Moves(n, sweep, k)
  BY KeepsTransitive DEF Moves, Sweeping

(* The loop body, at a node of the snapshot. *)
LEMMA SweepAtMoves ==
  ASSUME NEW n, NEW sweep, Sweeping(n, sweep), NEW v \in 1..n
  PROVE  Moves(n, sweep, SweepAt(sweep, v))
<1> DEFINE B == sweep.arena
           node == B.nodes[v]
<1>0. /\ Sound(B) /\ Keeps(B, B) /\ n \in Nat /\ v \in Ids(B)
      /\ node.op \in {"Const", "Var"} \cup UnaryOps \cup BinaryOps
      /\ node.op \in UnaryOps \cup BinaryOps => node.a \in 1..n
      /\ node.op \in BinaryOps => node.b \in 1..n
      /\ 1..n \subseteq Ids(B)
  <2>1. Sound(B) /\ n \in Nat /\ 1..n \subseteq Ids(B)
    BY DEF Sweeping, Sound, Arenas, Ids
  <2>2. node \in Node
    BY <2>1, NodeOf
  <2> QED
    BY <2>1, <2>2, ExtendsRefl DEF Node, Sound, WellFormed
<1>1. CASE sweep.adj[v] = NoNode \/ node.op \in {"Const", "Var"}
  <2>1. SweepAt(sweep, v) = sweep
    BY <1>1, OpAssumption DEF SweepAt
  <2> QED
    BY <1>0, <2>1 DEF Moves
<1>2. CASE sweep.adj[v] # NoNode /\ node.op \in UnaryOps
  <2> DEFINE p == Partial(B, node.op, At(node.a), At(v))
  <2>1. Names(B, At(node.a)) /\ Names(B, At(v)) /\ Names(B, At(sweep.adj[v]))
    BY <1>0, <1>2, NodeNames DEF Sweeping
  <2>2. Stage(B, p)
    BY <1>0, <1>2, <2>1, PartialStage
  <2>3. Stage(B, After(At(sweep.adj[v]), "Mul", p))
    BY <1>0, <2>1, <2>2, PipelineStage, RuleAssumption
  <2>4. SweepAt(sweep, v) = AddTo(sweep, node.a, After(At(sweep.adj[v]), "Mul", p))
    BY <1>2, OpAssumption DEF SweepAt, SweepUnary
  <2> QED
    BY <1>0, <1>2, <2>3, <2>4, AddToMoves
<1>3. CASE sweep.adj[v] # NoNode /\ node.op \in BinaryOps
  <2> DEFINE l == At(node.a)
             r == At(node.b)
             a == At(sweep.adj[v])
             dl == LeftPartial(B, node.op, l, r, At(v))
             dr == RightPartial(dl.arena, node.op, l, r, At(v))
             once == AddTo(sweep, node.a, Form(dr.arena, "Mul", a, dl.e))
             twice == AddTo(once, node.b, Form(once.arena, "Mul", a, dr.e))
  <2>0. SweepAt(sweep, v) = twice
    BY <1>3, OpAssumption
    DEF SweepAt, SweepBinary, ContributeAfter, Contribute, ThenProduct, AddProduct
  <2>1. Names(B, l) /\ Names(B, r) /\ Names(B, a) /\ Names(B, At(v))
    BY <1>0, <1>3, NodeNames DEF Sweeping
  <2> HIDE DEF l, r, a
  <2>2. Stage(B, dl)
    BY <1>0, <1>3, <2>1, PartialsStage
  <2> HIDE DEF dl
  <2>3. Keeps(B, dl.arena) /\ Names(dl.arena, dl.e) /\ Sound(dl.arena)
    BY <2>2 DEF Stage, Keeps
  <2>4. Names(dl.arena, l) /\ Names(dl.arena, r) /\ Names(dl.arena, a) /\ Names(dl.arena, At(v))
    BY <1>0, <2>1, <2>3, NamesKept
  <2>5. Stage(dl.arena, dr)
    BY <1>3, <2>3, <2>4, PartialsStage
  <2> HIDE DEF dr
  <2>6. Keeps(dl.arena, dr.arena) /\ Names(dr.arena, dr.e) /\ Sound(dr.arena)
    BY <2>5 DEF Stage, Keeps
  <2>7. Names(dr.arena, a) /\ Names(dr.arena, dl.e) /\ Keeps(B, dr.arena)
    BY <1>0, <2>3, <2>4, <2>6, NamesKept, KeepsTransitive
  <2>8. Keeps(dr.arena, dr.arena)
    BY <2>6, ExtendsRefl
  <2> DEFINE first == Form(dr.arena, "Mul", a, dl.e)
  <2>9. Stage(B, first) /\ Stage(dr.arena, first)
    BY <1>0, <2>6, <2>7, <2>8, FormStage, RuleAssumption
  <2> HIDE DEF first
  <2>10. Keeps(dr.arena, first.arena)
    BY <2>9 DEF Stage
  <2>11. Moves(n, sweep, once) /\ Keeps(first.arena, once.arena)
    BY <1>0, <1>3, <2>9, AddToMoves DEF first
  <2> HIDE DEF once
  <2>12. Keeps(dr.arena, once.arena) /\ Keeps(B, once.arena) /\ Sound(once.arena)
    BY <2>6, <2>10, <2>11, KeepsTransitive DEF Moves, Sweeping
  <2>13. Names(once.arena, a) /\ Names(once.arena, dr.e) /\ Keeps(once.arena, once.arena)
    BY <1>0, <2>1, <2>6, <2>12, NamesKept, ExtendsRefl
  <2>14. Stage(once.arena, Form(once.arena, "Mul", a, dr.e))
    BY <2>12, <2>13, FormStage, RuleAssumption
  <2>15. Moves(n, once, twice)
    BY <1>0, <1>3, <2>11, <2>14, AddToMoves DEF Moves
  <2> QED
    BY <2>0, <2>11, <2>15, MovesTransitive
<1> QED
  BY <1>0, <1>1, <1>2, <1>3

LEMMA BeginMoves ==
  ASSUME NEW B, Sound(B), NEW r \in Ids(B)
  PROVE  /\ Sweeping(Len(B.nodes), BeginSweep(B, r))
         /\ Keeps(B, BeginSweep(B, r).arena)
<1> DEFINE one == Constant(B, One)
<1>1. Keeps(B, one.arena) /\ one.id \in Ids(one.arena)
  BY ConstantAnswers, ScalarAssumption DEF Answers
<1>2. BeginSweep(B, r) =
        [arena |-> one.arena, adj |-> [v \in Ids(B) |-> IF v = r THEN one.id ELSE NoNode]]
  BY DEF BeginSweep
<1> HIDE DEF one
<1>3. Sound(one.arena) /\ Len(B.nodes) \in 0..Len(one.arena.nodes)
  BY <1>1 DEF Keeps, Extends, Sound, Arenas
<1> QED
  BY <1>1, <1>2, <1>3 DEF Sweeping, Ids, NoNode, Sound

(* An answer that names a node of the arena it leaves for every symbol. *)
Partials(B, g) ==
  /\ Keeps(B, g.arena)
  /\ g \in [arena : Arenas, partial : [1..Len(B.symbols) -> Ids(g.arena)]]

LEMMA CollectAnswers ==
  ASSUME NEW n, NEW sweep, Sweeping(n, sweep)
  PROVE  Partials(sweep.arena, Collect(sweep))
<1> DEFINE zero == Constant(sweep.arena, Zero)
           Leaves(s) == {v \in DOMAIN sweep.adj : /\ sweep.arena.nodes[v].op = "Var"
                                                  /\ sweep.arena.nodes[v].slot = s
                                                  /\ sweep.adj[v] # NoNode}
           part == [s \in 1..Len(sweep.arena.symbols) |->
                      IF Leaves(s) = {} THEN zero.id
                      ELSE sweep.adj[CHOOSE v \in Leaves(s) : TRUE]]
<1>1. Keeps(sweep.arena, zero.arena) /\ zero.id \in Ids(zero.arena)
  BY ConstantAnswers, ScalarAssumption DEF Answers, Sweeping
<1>2. Collect(sweep) = [arena |-> zero.arena, partial |-> part]
  BY DEF Collect
<1>3. Ids(sweep.arena) \subseteq Ids(zero.arena)
  BY <1>1, IdsGrow DEF Sweeping
<1>4. ASSUME NEW s, Leaves(s) # {}
      PROVE sweep.adj[CHOOSE v \in Leaves(s) : TRUE] \in Ids(sweep.arena)
  <2>1. (CHOOSE v \in Leaves(s) : TRUE) \in Leaves(s)
    BY <1>4
  <2> QED
    BY <2>1 DEF Sweeping
<1>5. part \in [1..Len(sweep.arena.symbols) -> Ids(zero.arena)]
  BY <1>1, <1>3, <1>4
<1> HIDE DEF zero, part
<1> QED
  BY <1>1, <1>2, <1>5 DEF Partials, Keeps, Sound

(* The states of a reverse sweep, each with the snapshot in it: the lemma    *)
(* below names them, for what is proved of a whole call step by step.        *)
SweepRun(n, B, r, f) ==
  /\ n = Len(B.nodes) /\ n \in Nat
  /\ f[0] = BeginSweep(B, r)
  /\ \A k \in 1..n : f[k] = SweepAt(f[k - 1], n + 1 - k)
  /\ \A k \in 0..n : Sweeping(n, f[k]) /\ Keeps(B, f[k].arena)

LEMMA ReverseRuns ==
  ASSUME NEW B, Sound(B), NEW r \in Ids(B)
  PROVE  \E f : /\ SweepRun(Len(B.nodes), B, r, f)
                /\ ReverseGradient(B, r) = Collect(f[Len(B.nodes)])
<1> DEFINE n == Len(B.nodes)
           States == {s \in [arena : Arenas, adj : [1..n -> Nat]] : Sweeping(n, s)
             /\ Keeps(B, s.arena)}
           G == [k \in 0..n |-> States]
           next == [k \in 1..n |-> [s \in States |-> SweepAt(s, n + 1 - k)]]
           Run(f) == f =
             [k \in 0..n |-> IF k = 0 THEN BeginSweep(B, r) ELSE SweepAt(f[k - 1], n + 1 - k)]
           after == CHOOSE f : Run(f)
<1>0. n \in Nat
  BY DEF Sound, Arenas
<1>1. BeginSweep(B, r) \in States
  BY BeginMoves DEF Sweeping
<1>2. ASSUME NEW k \in 1..n, NEW s \in States PROVE SweepAt(s, n + 1 - k) \in States
  <2>1. n + 1 - k \in 1..n
    BY <1>0
  <2>2. Moves(n, s, SweepAt(s, n + 1 - k))
    BY <2>1, SweepAtMoves
  <2>. QED BY <2>2, KeepsTransitive DEF Moves, Sweeping
<1> HIDE DEF n, States
<1>3. PICK f \in [0..n -> States] :
           /\ f[0] = BeginSweep(B, r)
           /\ \A k \in 1..n : f[k - 1] \in G[k - 1] /\ f[k] = next[k][f[k - 1]]
  <2>1. BeginSweep(B, r) \in G[0]
    BY <1>0, <1>1
  <2>2. \A k \in 1..n : \A s \in G[k - 1] : next[k][s] \in G[k]
    <3> SUFFICES ASSUME NEW k \in 1..n, NEW s \in G[k - 1] PROVE next[k][s] \in G[k]
      OBVIOUS
    <3>1. s \in States
      BY <1>0
    <3>. QED BY <1>0, <1>2, <3>1
  <2>3. \A k \in 0..n : G[k] \subseteq States
    OBVIOUS
  <2> HIDE DEF next, G
  <2>4. IsLoop(n, States, BeginSweep(B, r), G, next)
    BY <1>0, <2>1, <2>2, <2>3 DEF IsLoop
  <2>. QED BY <2>4, LoopRuns DEF IsRun
<1>4. ASSUME NEW k \in 1..n PROVE f[k] = SweepAt(f[k - 1], n + 1 - k)
  <2>1. f[k - 1] \in States /\ f[k] = next[k][f[k - 1]]
    BY <1>0, <1>3
  <2>. QED BY <2>1
<1>5. Run(f)
  <2> HIDE DEF next
  <2>. QED BY <1>0, <1>3, <1>4
<1>6. Run(after)
  BY <1>5
<1> HIDE DEF after
<1>7. \A k \in 0..n : after[k] \in States
  <2>1. after[0] \in G[0] /\ \A k \in 1..n : after[k - 1] \in G[k - 1] => after[k] \in G[k]
    BY <1>0, <1>1, <1>2, <1>6
  <2>2. \A k \in 0..n : after[k] \in G[k]
    BY <1>0, <2>1, LoopInvariant
  <2>. QED BY <1>0, <2>2
<1>8. ReverseGradient(B, r) = Collect(after[n])
  BY DEF ReverseGradient, Iterated, SweepDown, after, n
<1>9. SweepRun(n, B, r, after)
  <2>1. \A k \in 0..n : Sweeping(n, after[k]) /\ Keeps(B, after[k].arena)
    BY <1>7 DEF States
  <2>2. n = Len(B.nodes)
    BY DEF n
  <2>3. after[0] = BeginSweep(B, r) /\ \A k \in 1..n : after[k] = SweepAt(after[k - 1], n + 1 - k)
    BY <1>0, <1>6
  <2>. QED BY <1>0, <2>1, <2>2, <2>3 DEF SweepRun
<1>. QED BY <1>8, <1>9 DEF n

(* The whole of a call: what it answers is of an arena that has what B has.   *)
LEMMA ReverseAnswers ==
  ASSUME NEW B, Sound(B), NEW r \in Ids(B)
  PROVE  Partials(B, ReverseGradient(B, r))
<1> DEFINE n == Len(B.nodes)
<1>1. PICK f : SweepRun(n, B, r, f) /\ ReverseGradient(B, r) = Collect(f[n])
  BY ReverseRuns
<1>2. Sweeping(n, f[n]) /\ Keeps(B, f[n].arena)
  BY <1>1 DEF SweepRun
<1>3. Partials(f[n].arena, Collect(f[n]))
  BY <1>2, CollectAnswers
<1>. QED BY <1>1, <1>2, <1>3, KeepsTransitive DEF Partials, Keeps

(* jacobian(): a row for each root, every partial a node of what it leaves. *)
Columns(B, j) ==
  /\ Keeps(B, j.arena)
  /\ j \in [arena : Arenas, partial : Seq(Ids(j.arena))]

LEMMA NextRowColumns ==
  ASSUME NEW B, Sound(B), NEW j, Columns(B, j), NEW roots, NEW k, roots[k] \in Ids(B)
  PROVE  Columns(B, NextRow(j, roots, k))
<1> DEFINE r == roots[k]
           g == ReverseGradient(j.arena, r)
<1>1. Sound(j.arena) /\ r \in Ids(j.arena) /\ j.arena.symbols \in Seq(Name)
  BY IdsGrow DEF Columns, Keeps, Sound, Arenas
<1>2. Partials(j.arena, g)
  BY <1>1, ReverseAnswers
<1> HIDE DEF g
<1>3. g.partial \in Seq(Ids(g.arena)) /\ Keeps(B, g.arena) /\ g.arena \in Arenas
  <2>1. g.partial \in [1..Len(j.arena.symbols) -> Ids(g.arena)] /\ Len(j.arena.symbols) \in Nat
    BY <1>1, <1>2 DEF Partials
  <2>2. g.partial \in Seq(Ids(g.arena))
    BY <2>1, FunctionIsSequence
  <2>3. Keeps(B, g.arena) /\ g.arena \in Arenas
    BY <1>2, KeepsTransitive DEF Partials, Columns
  <2>. QED BY <2>2, <2>3
<1>4. Ids(j.arena) \subseteq Ids(g.arena)
  BY <1>1, <1>2, IdsGrow DEF Partials
<1>5. j.partial \in Seq(Ids(g.arena))
  BY <1>4 DEF Columns
<1>. QED BY <1>3, <1>5 DEF NextRow, WithRow, Columns, g, r

JacobianRun(B, roots, f) ==
  /\ f[0] = [arena |-> B, partial |-> <<>>]
  /\ \A k \in 1..Len(roots) : f[k] = NextRow(f[k - 1], roots, k)
  /\ \A k \in 0..Len(roots) : Columns(B, f[k])
LEMMA JacobianRuns ==
  ASSUME NEW B, Sound(B), NEW roots \in Seq(Ids(B))
  PROVE  \E f : JacobianRun(B, roots, f) /\ Jacobian(B, roots) = f[Len(roots)]
<1> DEFINE n == Len(roots)
           base == [arena |-> B, partial |-> <<>>]
           States == {j \in [arena : Arenas, partial : Seq(Nat)] : Columns(B, j)}
           G == [k \in 0..n |-> States]
           next == [k \in 1..n |-> [s \in States |-> NextRow(s, roots, k)]]
           Run(f) == f = [k \in 0..n |-> IF k = 0 THEN base ELSE NextRow(f[k - 1], roots, k)]
           after == CHOOSE f : Run(f)
<1>0. n \in Nat
  OBVIOUS
<1>1. base \in States
  <2>1. Keeps(B, B) /\ B \in Arenas
    BY ExtendsRefl DEF Sound
  <2>2. base \in [arena : Arenas, partial : Seq(Nat)]
    BY <2>1
  <2>3. base.arena = B /\ base \in [arena : Arenas, partial : Seq(Ids(B))]
    BY <2>1
  <2>. QED BY <2>1, <2>2, <2>3 DEF Columns
<1>2. ASSUME NEW k \in 1..n, NEW s \in States PROVE NextRow(s, roots, k) \in States
  <2>1. Columns(B, NextRow(s, roots, k))
    BY NextRowColumns
  <2>2. \A C : Ids(C) \subseteq Nat
    BY DEF Ids
  <2>. QED BY <2>1, <2>2 DEF Columns
<1> HIDE DEF n, base, States
<1>3. PICK f \in [0..n -> States] :
           /\ f[0] = base
           /\ \A k \in 1..n : f[k - 1] \in G[k - 1] /\ f[k] = next[k][f[k - 1]]
  <2>1. base \in G[0] /\ \A k \in 0..n : G[k] \subseteq States
    BY <1>0, <1>1
  <2>2. ASSUME NEW k \in 1..n, NEW s \in G[k - 1] PROVE next[k][s] \in G[k]
    <3>1. s \in States
      BY <1>0
    <3>. QED BY <1>0, <1>2, <3>1
  <2> HIDE DEF next, G
  <2>3. IsLoop(n, States, base, G, next)
    BY <1>0, <2>1, <2>2 DEF IsLoop
  <2>. QED BY <2>3, LoopRuns DEF IsRun
<1>4. ASSUME NEW k \in 1..n PROVE f[k] = NextRow(f[k - 1], roots, k)
  <2>1. f[k - 1] \in States /\ f[k] = next[k][f[k - 1]]
    BY <1>0, <1>3
  <2>. QED BY <2>1
<1>5. Run(f)
  <2> HIDE DEF next
  <2>. QED BY <1>0, <1>3, <1>4
<1>6. Run(after)
  BY <1>5
<1> HIDE DEF after
<1>7. \A k \in 0..n : after[k] \in States
  <2>1. after[0] \in G[0] /\ \A k \in 1..n : after[k - 1] \in G[k - 1] => after[k] \in G[k]
    BY <1>0, <1>1, <1>2, <1>6
  <2>2. \A k \in 0..n : after[k] \in G[k]
    BY <1>0, <2>1, LoopInvariant
  <2>. QED BY <1>0, <2>2
<1>8. Jacobian(B, roots) = after[n]
  BY DEF Jacobian, Iterated, after, n, base
<1>9. JacobianRun(B, roots, after)
  <2>1. after[0] = base /\ \A k \in 1..n : after[k] = NextRow(after[k - 1], roots, k)
    BY <1>0, <1>6
  <2>2. \A k \in 0..n : Columns(B, after[k])
    BY <1>7 DEF States
  <2>. QED BY <2>1, <2>2 DEF JacobianRun, n, base
<1>. QED BY <1>8, <1>9 DEF n

LEMMA JacobianAnswers ==
  ASSUME NEW B, Sound(B), NEW roots \in Seq(Ids(B))
  PROVE  Columns(B, Jacobian(B, roots))
<1>1. PICK f : JacobianRun(B, roots, f) /\ Jacobian(B, roots) = f[Len(roots)]
  BY JacobianRuns
<1>2. Len(roots) \in 0..Len(roots)
  OBVIOUS
<1>. QED BY <1>1, <1>2 DEF JacobianRun

-----------------------------------------------------------------------------
(* A symmetric relation between m symbols, a set of columns for each row.    *)
Pattern(m, rows) ==
  /\ rows \in [1..m -> SUBSET (1..m)]
  /\ \A i, j \in 1..m : j \in rows[i] => i \in rows[j]

LEMMA CouplePattern ==
  ASSUME NEW m \in Nat, NEW rows, Pattern(m, rows),
         NEW left \in SUBSET (1..m), NEW right \in SUBSET (1..m)
  PROVE  Pattern(m, Couple(rows, left, right))
<1> DEFINE grown == Couple(rows, left, right)
<1>1. grown = [i \in 1..m |-> rows[i] \cup (IF i \in left THEN right ELSE {})
                                     \cup (IF i \in right THEN left ELSE {})]
  BY DEF Pattern, Couple
<1>2. grown \in [1..m -> SUBSET (1..m)]
  BY <1>1 DEF Pattern
<1>3. ASSUME NEW i \in 1..m, NEW j \in 1..m, j \in grown[i] PROVE i \in grown[j]
  <2>1. j \in rows[i] \/ (i \in left /\ j \in right) \/ (i \in right /\ j \in left)
    BY <1>1, <1>3
  <2>2. i \in rows[j] \/ (j \in right /\ i \in left) \/ (j \in left /\ i \in right)
    BY <2>1 DEF Pattern
  <2>. QED BY <1>1, <2>2
<1> HIDE DEF grown
<1>4. Pattern(m, grown)
  BY <1>2, <1>3 DEF Pattern
<1>. QED BY <1>4 DEF grown

LEMMA NodeCouplesPattern ==
  ASSUME NEW m \in Nat, NEW rows, Pattern(m, rows), NEW node \in Node,
         NEW own \in SUBSET (1..m), NEW left \in SUBSET (1..m), NEW right \in SUBSET (1..m)
  PROVE  Pattern(m, NodeCouples(rows, node, own, left, right))
<1>1. /\ Pattern(m, Couple(rows, own, own)) /\ Pattern(m, Couple(rows, left, right))
      /\ Pattern(m, Couple(Couple(rows, left, right), right, right))
  BY CouplePattern
<1>2. CASE node.op \in {"Const", "Var", "Neg", "Add"}
  BY <1>2, RuleAssumption, OpAssumption DEF NodeCouples, UnaryRules
<1>3. CASE node.op \in UnaryOps \ {"Neg"}
  BY <1>1, <1>3, RuleAssumption, OpAssumption DEF NodeCouples, UnaryRules
<1>4. CASE node.op = "Mul"
  BY <1>1, <1>4, RuleAssumption DEF NodeCouples, UnaryRules
<1>5. CASE node.op = "Div"
  BY <1>1, <1>5, RuleAssumption DEF NodeCouples, UnaryRules
<1>6. CASE node.op \in BinaryOps \ {"Add", "Mul", "Div"}
  BY <1>1, <1>6, RuleAssumption, OpAssumption DEF NodeCouples
<1>. QED BY <1>2, <1>3, <1>4, <1>5, <1>6, RuleAssumption DEF Node

(* One node of the pass, with the supports of those below it known. *)
Supported(m, v, pass) ==
  /\ pass \in [support : Seq(SUBSET (1..m)), rows : [1..m -> SUBSET (1..m)]]
  /\ Len(pass.support) = v
  /\ Pattern(m, pass.rows)

LEMMA CoupleAtSupported ==
  ASSUME NEW B, Sound(B), NEW v \in Ids(B), NEW isLive,
         NEW pass, Supported(Len(B.symbols), v - 1, pass)
  PROVE  Supported(Len(B.symbols), v, CoupleAt(pass, B.nodes[v], isLive))
<1> DEFINE m == Len(B.symbols)
           node == B.nodes[v]
           left == SupportOf(pass, node.a)
           right == SupportOf(pass, node.b)
           own == IF node.op = "Var" THEN {node.slot} ELSE left \cup right
<1>0. /\ m \in Nat /\ v \in Nat /\ node \in Node
      /\ node.a = NoNode \/ node.a \in 1..(v - 1)
      /\ node.b = NoNode \/ node.b \in 1..(v - 1)
      /\ node.op = "Var" => node.slot \in 1..m
  BY NodeOf DEF Sound, Arenas, WellFormed, Ids
<1>1. /\ pass.support \in Seq(SUBSET (1..m)) /\ Len(pass.support) = v - 1
      /\ Pattern(m, pass.rows)
      /\ pass = [support |-> pass.support, rows |-> pass.rows]
  BY DEF Supported
<1>2. left \in SUBSET (1..m) /\ right \in SUBSET (1..m) /\ own \in SUBSET (1..m)
  BY <1>0, <1>1 DEF SupportOf
<1>3. CASE isLive
  <2> DEFINE rows == NodeCouples(pass.rows, node, own, left, right)
  <2>1. CoupleAt(pass, node, isLive) = [support |-> Append(pass.support, own), rows |-> rows]
    BY <1>3 DEF CoupleAt, CoupledUnder, CoupledBy
  <2> HIDE DEF m, node, own, left, right
  <2>2. Pattern(m, rows)
    BY <1>0, <1>1, <1>2, NodeCouplesPattern
  <2> HIDE DEF rows
  <2>3. Append(pass.support, own) \in Seq(SUBSET (1..m)) /\ Len(Append(pass.support, own)) = v
    BY <1>0, <1>1, <1>2
  <2>4. Supported(m, v, [support |-> Append(pass.support, own), rows |-> rows])
    BY <2>2, <2>3 DEF Supported, Pattern
  <2>. QED BY <2>1, <2>4 DEF m, node
<1>4. CASE ~isLive
  <2>1. CoupleAt(pass, node, isLive) = [support |-> Append(pass.support, {}), rows |-> pass.rows]
    BY <1>1, <1>4 DEF CoupleAt
  <2> HIDE DEF m, node
  <2>2. Append(pass.support, {}) \in Seq(SUBSET (1..m)) /\ Len(Append(pass.support, {})) = v
    BY <1>0, <1>1
  <2>3. Supported(m, v, [support |-> Append(pass.support, {}), rows |-> pass.rows])
    BY <1>1, <2>2 DEF Supported, Pattern
  <2>. QED BY <2>1, <2>3 DEF m, node
<1>. QED BY <1>3, <1>4

(* The pass of coupling_pattern(), with the supports of what it has visited. *)
PatternRun(n, B, root, f) ==
  /\ n = Len(B.nodes) /\ n \in Nat
  /\ f[0] = [support |-> <<>>, rows |-> [i \in Slots(B) |-> {}]]
  /\ \A v \in 1..n : f[v] = CoupleAt(f[v - 1], B.nodes[v], v \in Reachable(B, {root}))
  /\ \A v \in 0..n : Supported(Len(B.symbols), v, f[v])

LEMMA PatternRuns ==
  ASSUME NEW B, Sound(B), NEW root
  PROVE  \E f : PatternRun(Len(B.nodes), B, root, f)
           /\ CouplingPattern(B, root) = f[Len(B.nodes)].rows
<1> DEFINE n == Len(B.nodes)
           m == Len(B.symbols)
           live == Reachable(B, {root})
           base == [support |-> <<>>, rows |-> [i \in Slots(B) |-> {}]]
           States == [support : Seq(SUBSET (1..m)), rows : [1..m -> SUBSET (1..m)]]
           Reached(v) == {s \in States : Supported(m, v, s)}
           G == [v \in 0..n |-> Reached(v)]
           next == [v \in 1..n |-> [s \in States |-> CoupleAt(s, B.nodes[v], v \in live)]]
           Run(f) == f = [v \in 0..n |-> IF v = 0 THEN base
                                         ELSE CoupleAt(f[v - 1], B.nodes[v], v \in live)]
           after == CHOOSE f : Run(f)
<1>0. n \in Nat /\ m \in Nat
  BY DEF Sound, Arenas
<1>1. base \in Reached(0)
  <2>1. base.rows \in [1..m -> SUBSET (1..m)] /\ \A i \in 1..m : base.rows[i] = {}
    BY DEF Slots
  <2>2. base.support \in Seq(SUBSET (1..m)) /\ Len(base.support) = 0
    OBVIOUS
  <2>3. Supported(m, 0, base)
    BY <2>1, <2>2 DEF Supported, Pattern
  <2>. QED BY <2>3 DEF Supported
<1>2. ASSUME NEW v \in 1..n, NEW s \in Reached(v - 1)
      PROVE  CoupleAt(s, B.nodes[v], v \in live) \in Reached(v)
  <2>1. Supported(m, v, CoupleAt(s, B.nodes[v], v \in live))
    BY CoupleAtSupported DEF Ids
  <2>. QED BY <2>1 DEF Supported
<1> HIDE DEF n, m, live, base, States
<1>3. \A v \in 0..n : Reached(v) \subseteq States
  OBVIOUS
<1> HIDE DEF Reached
<1>4. PICK f \in [0..n -> States] :
           /\ f[0] = base
           /\ \A v \in 1..n : f[v - 1] \in G[v - 1] /\ f[v] = next[v][f[v - 1]]
  <2>1. base \in G[0] /\ \A v \in 0..n : G[v] \subseteq States
    BY <1>0, <1>1, <1>3
  <2>2. ASSUME NEW v \in 1..n, NEW s \in G[v - 1] PROVE next[v][s] \in G[v]
    <3>1. v \in 0..n /\ v - 1 \in 0..n
      BY <1>0
    <3>2. s \in Reached(v - 1)
      BY <3>1
    <3>3. s \in States /\ CoupleAt(s, B.nodes[v], v \in live) \in Reached(v)
      BY <1>2, <1>3, <3>1, <3>2
    <3>. QED BY <3>1, <3>3
  <2> HIDE DEF next, G
  <2>3. IsLoop(n, States, base, G, next)
    BY <1>0, <2>1, <2>2 DEF IsLoop
  <2>. QED BY <2>3, LoopRuns DEF IsRun
<1>5. ASSUME NEW v \in 1..n PROVE f[v] = CoupleAt(f[v - 1], B.nodes[v], v \in live)
  <2>1. f[v - 1] \in States /\ f[v] = next[v][f[v - 1]]
    <3> HIDE DEF next, G
    <3>. QED BY <1>0, <1>4
  <2>. QED BY <2>1
<1>6. Run(after)
  <2> HIDE DEF next
  <2>1. Run(f)
    BY <1>0, <1>4, <1>5
  <2>. QED BY <2>1
<1> HIDE DEF after
<1>7. \A v \in 0..n : after[v] \in Reached(v)
  <2>1. after[0] \in G[0]
    BY <1>0, <1>1, <1>6
  <2>2. ASSUME NEW v \in 1..n, after[v - 1] \in G[v - 1] PROVE after[v] \in G[v]
    <3>1. v \in 0..n /\ v - 1 \in 0..n
      BY <1>0
    <3>2. after[v - 1] \in Reached(v - 1)
            /\ after[v] = CoupleAt(after[v - 1], B.nodes[v], v \in live)
      BY <1>0, <1>6, <2>2, <3>1
    <3>3. after[v] \in Reached(v)
      BY <1>2, <3>2
    <3>. QED BY <3>1, <3>3
  <2>3. \A v \in 0..n : after[v] \in G[v]
    BY <1>0, <2>1, <2>2, LoopInvariant
  <2>. QED BY <2>3
<1>8. CouplingPattern(B, root) = after[n].rows
  BY DEF CouplingPattern, after, n, live, base
<1>9. PatternRun(n, B, root, after)
  <2>1. \A v \in 0..n : Supported(m, v, after[v])
    BY <1>7 DEF Reached
  <2>2. after[0] = base
          /\ \A v \in 1..n : after[v] = CoupleAt(after[v - 1], B.nodes[v], v \in live)
    BY <1>0, <1>6
  <2>3. n = Len(B.nodes) /\ m = Len(B.symbols) /\ live = Reachable(B, {root})
        /\ base = [support |-> <<>>, rows |-> [i \in Slots(B) |-> {}]]
    BY DEF n, m, live, base
  <2>. QED BY <1>0, <2>1, <2>2, <2>3 DEF PatternRun
<1>. QED BY <1>8, <1>9 DEF n

LEMMA PatternAnswers ==
  ASSUME NEW B, Sound(B), NEW root
  PROVE  Pattern(Len(B.symbols), CouplingPattern(B, root))
<1>1. PICK f : PatternRun(Len(B.nodes), B, root, f)
        /\ CouplingPattern(B, root) = f[Len(B.nodes)].rows
  BY PatternRuns
<1>2. Supported(Len(B.symbols), Len(B.nodes), f[Len(B.nodes)])
  BY <1>1 DEF PatternRun
<1>. QED BY <1>1, <1>2 DEF Supported

-----------------------------------------------------------------------------
(* color_columns(): there is always a first free colour, because a column    *)
(* has fewer others than there are columns.                                  *)
LEMMA LeastNumber ==
  ASSUME NEW S \in SUBSET Nat, S # {}
  PROVE  FirstOf(S) \in S /\ \A d \in S : FirstOf(S) <= d
<1> DEFINE Low == {n \in Nat : \A d \in S : n < d}
<1>1. \E c \in S : \A d \in S : c <= d
  <2> SUFFICES ASSUME \A c \in S : \E d \in S : ~(c <= d) PROVE FALSE
    OBVIOUS
  <2>1. 0 \in Low
    BY SMT
  <2>2. ASSUME NEW n \in Nat, n \in Low PROVE n + 1 \in Low
    BY <2>2
  <2>3. \A n \in Nat : n \in Low
    <3> HIDE DEF Low
    <3>. QED BY <2>1, <2>2, SetInduction
  <2>4. PICK c \in S : TRUE
    OBVIOUS
  <2>5. c \in Nat /\ c \in Low
    BY <2>3
  <2>. QED BY <2>4, <2>5
<1>. QED BY <1>1 DEF FirstOf

LEMMA ColorIsFree ==
  ASSUME NEW m \in Nat, NEW color, NEW j \in 1..m, NEW others \in SUBSET ((1..m) \ {j})
  PROVE  (1..m) \ {color[k] : k \in others} # {}
<1> SUFFICES ASSUME \A c \in 1..m : \E k \in others : color[k] = c PROVE FALSE
  OBVIOUS
<1> DEFINE of == [c \in 1..m |-> CHOOSE k \in others : color[k] = c]
<1>1. /\ IsFiniteSet(1..m) /\ IsFiniteSet((1..m) \ {j})
      /\ Cardinality((1..m) \ {j}) < Cardinality(1..m)
  <2>1. IsFiniteSet(1..m) /\ Cardinality(1..m) = m
    BY FS_Interval
  <2>2. IsFiniteSet((1..m) \ {j}) /\ Cardinality((1..m) \ {j}) = Cardinality(1..m) - 1
    BY <2>1, FS_RemoveElement
  <2>. QED BY <2>1, <2>2
<1>2. \A c \in 1..m : of[c] \in others /\ color[of[c]] = c
  OBVIOUS
<1>3. of \in [1..m -> (1..m) \ {j}]
  BY <1>2
<1> DEFINE U == 1..m
           V == (1..m) \ {j}
<1>4. IsFiniteSet(U) /\ IsFiniteSet(V) /\ Cardinality(V) < Cardinality(U) /\ of \in [U -> V]
  BY <1>1, <1>3
<1>5. \A x, y \in U : of[x] = of[y] => x = y
  BY <1>2
<1> HIDE DEF of, U, V
<1>. QED BY <1>4, <1>5, FS_PigeonHole

(* No two coloured columns that conflict have one colour; 0 is no colour.    *)
Apart(m, rows, color) ==
  /\ color \in [1..m -> 0..m]
  /\ \A i, j \in 1..m : i # j /\ color[i] = color[j] /\ color[i] # 0 => ~Conflict(rows, i, j)

(* The colours that columns have are the first ones. *)
NoGap(m, color) == \A j \in 1..m : \A d \in 1..color[j] : \E k \in 1..m : color[k] = d

LEMMA PaintNoGap ==
  ASSUME NEW m \in Nat, NEW rows, Pattern(m, rows), NEW color, Apart(m, rows, color),
         NoGap(m, color), NEW j \in 1..m, color[j] = 0
  PROVE  NoGap(m, Paint(rows, color, j))
<1> DEFINE others == {k \in DOMAIN rows : k # j /\ Conflict(rows, j, k)}
           free == (1..m) \ {color[k] : k \in others}
           c == FirstOf(free)
           next == [color EXCEPT ![j] = c]
<1>1. Len(rows) = m /\ DOMAIN rows = 1..m
  BY FunctionIsSequence DEF Pattern
<1>2. Paint(rows, color, j) = next
  BY <1>1 DEF Paint, Taken
<1>3. free # {} /\ free \in SUBSET Nat
  <2>1. free # {}
    BY <1>1, ColorIsFree
  <2>. QED BY <2>1
<1>4. c \in free /\ \A d \in free : c <= d
  <2> HIDE DEF free
  <2>. QED BY <1>3, LeastNumber
<1>5. c \in 1..m /\ \A d \in 1..(c - 1) : \E k \in 1..m : k # j /\ color[k] = d
  <2>1. c \in 1..m
    BY <1>4
  <2>2. ASSUME NEW d \in 1..(c - 1) PROVE \E k \in 1..m : k # j /\ color[k] = d
    <3>1. d \in 1..m /\ ~(c <= d)
      BY <2>1
    <3>2. d \notin free
      <4> HIDE DEF free, c
      <4>. QED BY <1>4, <3>1
    <3>3. \E k \in others : color[k] = d
      BY <3>1, <3>2
    <3>. QED BY <1>1, <3>3
  <2>. QED BY <2>1, <2>2
<1> HIDE DEF c, free, others
<1>6. /\ next[j] = c
      /\ \A i \in 1..m : i # j => next[i] = color[i]
  BY DEF Apart
<1> HIDE DEF next
<1>7. ASSUME NEW i \in 1..m, NEW d \in 1..next[i] PROVE \E k \in 1..m : next[k] = d
  <2>1. CASE i = j
    <3>1. d = c \/ d \in 1..(c - 1)
      BY <1>5, <1>6, <2>1
    <3>. QED BY <1>5, <1>6, <3>1
  <2>2. CASE i # j
    <3>1. d \in 1..color[i] /\ d # 0
      BY <1>6, <2>2
    <3>2. PICK k \in 1..m : color[k] = d
      BY <3>1 DEF NoGap
    <3>. QED BY <1>6, <3>1, <3>2
  <2>. QED BY <2>1, <2>2
<1>. QED BY <1>2, <1>7 DEF NoGap

(* Where there is no gap, every colour is within the count of colours.       *)
LEMMA ColorsCounted ==
  ASSUME NEW m, m \in Nat, NEW color, color \in [1..m -> 1..m], NoGap(m, color), NEW j, j \in 1..m
  PROVE  color[j] \in 1..ColorCount(color)
<1> DEFINE used == {color[k] : k \in 1..m}
           upTo == 1..color[j]
<1>1. DOMAIN color = 1..m /\ color[j] \in Nat /\ color[j] >= 1
  OBVIOUS
<1>2. IsFiniteSet(used)
  <2>1. used \in SUBSET (1..m)
    OBVIOUS
  <2> HIDE DEF used
  <2>2. IsFiniteSet(1..m)
    BY FS_Interval
  <2>. QED BY <2>1, <2>2, FS_Subset
<1>3. ColorCount(color) = Cardinality(used)
  BY <1>1 DEF ColorCount
<1>4. upTo \in SUBSET used
  BY DEF NoGap
<1>5. Cardinality(upTo) = color[j]
  BY <1>1, FS_Interval
<1> HIDE DEF used, upTo
<1>6. Cardinality(upTo) <= Cardinality(used) /\ Cardinality(used) \in Nat
  BY <1>2, <1>4, FS_Subset, FS_CardinalityType
<1>. QED BY <1>1, <1>3, <1>5, <1>6

LEMMA PaintApart ==
  ASSUME NEW m \in Nat, NEW rows, Pattern(m, rows), NEW color, Apart(m, rows, color),
         NEW j \in 1..m
  PROVE  /\ Apart(m, rows, Paint(rows, color, j)) /\ Paint(rows, color, j)[j] # 0
         /\ \A i \in 1..m : i # j => Paint(rows, color, j)[i] = color[i]
<1> DEFINE others == {k \in DOMAIN rows : k # j /\ Conflict(rows, j, k)}
           free == (1..m) \ {color[k] : k \in others}
           c == FirstOf(free)
           next == [color EXCEPT ![j] = c]
<1>1. Len(rows) = m /\ DOMAIN rows = 1..m
  BY FunctionIsSequence DEF Pattern
<1>2. Paint(rows, color, j) = next
  BY <1>1 DEF Paint, Taken
<1>3. free # {}
  BY <1>1, ColorIsFree
<1>4. c \in free
  BY <1>3, LeastNumber
<1>5. c \in 1..m /\ \A k \in 1..m : k # j /\ Conflict(rows, j, k) => color[k] # c
  BY <1>1, <1>4
<1> HIDE DEF c, free, others
<1>6. /\ next \in [1..m -> 0..m] /\ next[j] = c
      /\ \A i \in 1..m : i # j => next[i] = color[i]
  BY <1>5 DEF Apart
<1> HIDE DEF next
<1>7. ASSUME NEW i \in 1..m, NEW k \in 1..m, i # k, next[i] = next[k], next[i] # 0
      PROVE  ~Conflict(rows, i, k)
  <2>1. Conflict(rows, i, k) <=> Conflict(rows, k, i)
    BY DEF Conflict
  <2>2. CASE i = j
    BY <1>5, <1>6, <1>7, <2>2
  <2>3. CASE k = j
    BY <1>5, <1>6, <1>7, <2>1, <2>3
  <2>4. CASE i # j /\ k # j
    BY <1>6, <1>7, <2>4 DEF Apart
  <2>. QED BY <2>2, <2>3, <2>4
<1>. QED BY <1>2, <1>5, <1>6, <1>7 DEF Apart

(* An order of m columns names each of them, and once. *)
IsOrder(m, order) ==
  /\ order \in [1..m -> 1..m]
  /\ \A j \in 1..m : \E k \in 1..m : order[k] = j
  /\ \A k, l \in 1..m : order[k] = order[l] => k = l

(* A colour for every column that the order names, none of them the colour   *)
(* of a column it conflicts with.                                            *)
LEMMA GreedyAnswers ==
  ASSUME NEW m \in Nat, NEW rows, Pattern(m, rows),
         NEW order, IsOrder(m, order)
  PROVE  /\ GreedyColors(rows, order) \in [1..m -> 1..m]
         /\ Apart(m, rows, GreedyColors(rows, order))
         /\ NoGap(m, GreedyColors(rows, order))
<1> DEFINE n == m
           base == [j \in DOMAIN rows |-> 0]
           States == [1..m -> 0..m]
           Reached(k) == {s \in States : /\ Apart(m, rows, s) /\ NoGap(m, s)
                                         /\ \A i \in 1..k : s[order[i]] # 0
                                         /\ \A i \in (k + 1)..n : s[order[i]] = 0}
           G == [k \in 0..n |-> Reached(k)]
           next == [k \in 1..n |-> [s \in States |-> Paint(rows, s, order[k])]]
           Run(f) == f = [k \in 0..n |-> IF k = 0 THEN base ELSE Paint(rows, f[k - 1], order[k])]
           after == CHOOSE f : Run(f)
<1>0. /\ n \in Nat /\ Len(order) = n /\ order \in [1..n -> 1..m]
      /\ \A j \in 1..m : \E k \in 1..n : order[k] = j
      /\ \A k, l \in 1..n : order[k] = order[l] => k = l
  BY FunctionIsSequence DEF IsOrder
<1> HIDE DEF n
<1>1. base \in Reached(0)
  <2>1. base \in [1..m -> 0..m] /\ \A j \in 1..m : base[j] = 0
    BY DEF Pattern
  <2> HIDE DEF base
  <2>2. base \in [1..m -> 0..m]
    BY <2>1
  <2>3. Apart(m, rows, base) /\ NoGap(m, base)
    BY <2>1, <2>2 DEF Apart, NoGap
  <2>. QED BY <1>0, <2>1, <2>2, <2>3
<1>2. ASSUME NEW k \in 1..n, NEW s \in Reached(k - 1)
      PROVE  Paint(rows, s, order[k]) \in Reached(k)
  <2>1. order[k] \in 1..m
    BY <1>0
  <2>0. /\ s \in States /\ Apart(m, rows, s) /\ NoGap(m, s)
        /\ \A i \in 1..(k - 1) : s[order[i]] # 0
        /\ \A i \in k..n : s[order[i]] = 0
    <3>1. (k - 1) + 1 = k
      BY <1>0
    <3>. QED BY <3>1
  <2> HIDE DEF base, States, Reached, G, next, Run, after
  <2> DEFINE j == order[k]
             t == Paint(rows, s, j)
  <2>2. /\ Apart(m, rows, t) /\ t[order[k]] # 0 /\ NoGap(m, t)
        /\ \A i \in 1..m : i # order[k] => t[i] = s[i]
    <3>1. j \in 1..m
      BY <2>1
    <3> HIDE DEF j
    <3>2. /\ Apart(m, rows, t) /\ t[j] # 0
          /\ \A i \in 1..m : i # j => t[i] = s[i]
      BY <2>0, <3>1, PaintApart
    <3>3. s[j] = 0
      BY <1>0, <2>0 DEF j
    <3>4. NoGap(m, t)
      BY <2>0, <3>1, <3>3, PaintNoGap
    <3>. QED BY <3>2, <3>4 DEF j
  <2> HIDE DEF t
  <2>3. ASSUME NEW i \in 1..k PROVE t[order[i]] # 0
    <3>1. i \in 1..n /\ order[i] \in 1..m
      BY <1>0
    <3>2. CASE order[i] = order[k]
      BY <2>2, <3>2
    <3>3. CASE order[i] # order[k]
      <4>1. i # k
        BY <3>3
      <4>2. i \in 1..(k - 1)
        BY <1>0, <4>1
      <4>. QED BY <2>0, <2>2, <3>1, <3>3, <4>2
    <3>. QED BY <3>2, <3>3
  <2>4. ASSUME NEW i \in (k + 1)..n PROVE t[order[i]] = 0
    <3>1. i \in k..n /\ i # k /\ i \in 1..n /\ k \in 1..n
      BY <1>0
    <3>2. order[i] # order[k] /\ order[i] \in 1..m
      BY <1>0, <3>1
    <3>. QED BY <2>0, <2>2, <3>1, <3>2
  <2>5. t \in Reached(k)
    BY <2>2, <2>3, <2>4 DEF Apart, Reached, States
  <2>. QED BY <2>5 DEF t
<1> HIDE DEF base, States
<1>3. \A k \in 0..n : Reached(k) \subseteq States
  OBVIOUS
<1> HIDE DEF Reached
<1>4. PICK f \in [0..n -> States] :
           /\ f[0] = base
           /\ \A k \in 1..n : f[k - 1] \in G[k - 1] /\ f[k] = next[k][f[k - 1]]
  <2>1. base \in G[0] /\ \A k \in 0..n : G[k] \subseteq States
    BY <1>0, <1>1, <1>3
  <2>2. ASSUME NEW k \in 1..n, NEW s \in G[k - 1] PROVE next[k][s] \in G[k]
    <3>1. k \in 0..n /\ k - 1 \in 0..n
      BY <1>0
    <3>2. s \in Reached(k - 1)
      BY <3>1
    <3>3. s \in States /\ Paint(rows, s, order[k]) \in Reached(k)
      BY <1>2, <1>3, <3>1, <3>2
    <3>. QED BY <3>1, <3>3
  <2> HIDE DEF next, G
  <2>3. IsLoop(n, States, base, G, next)
    BY <1>0, <2>1, <2>2 DEF IsLoop
  <2>4. \E f \in [0..n -> States] : IsRun(f, n, base, G, next)
    BY <2>3, LoopRuns
  <2>. QED BY <2>4 DEF IsRun
<1>5. ASSUME NEW k \in 1..n PROVE f[k] = Paint(rows, f[k - 1], order[k])
  <2>1. f[k - 1] \in States /\ f[k] = next[k][f[k - 1]]
    <3> HIDE DEF next, G
    <3>. QED BY <1>0, <1>4
  <2>. QED BY <2>1
<1>6. Run(after)
  <2> HIDE DEF next
  <2>1. Run(f)
    BY <1>0, <1>4, <1>5
  <2>. QED BY <2>1
<1> HIDE DEF after
<1>7. \A k \in 0..n : after[k] \in Reached(k)
  <2>1. after[0] \in G[0]
    BY <1>0, <1>1, <1>6
  <2>2. ASSUME NEW k \in 1..n, after[k - 1] \in G[k - 1] PROVE after[k] \in G[k]
    <3>1. k \in 0..n /\ k - 1 \in 0..n
      BY <1>0
    <3>2. after[k - 1] \in Reached(k - 1) /\ after[k] = Paint(rows, after[k - 1], order[k])
      BY <1>0, <1>6, <2>2, <3>1
    <3>3. after[k] \in Reached(k)
      BY <1>2, <3>2
    <3>. QED BY <3>1, <3>3
  <2>3. \A k \in 0..n : after[k] \in G[k]
    BY <1>0, <2>1, <2>2, LoopInvariant
  <2>. QED BY <2>3
<1>8. /\ after[n] \in [1..m -> 0..m] /\ Apart(m, rows, after[n]) /\ NoGap(m, after[n])
      /\ \A i \in 1..n : after[n][order[i]] # 0
  <2>1. after[n] \in Reached(n)
    BY <1>0, <1>7
  <2>. QED BY <2>1 DEF Reached, States
<1>9. \A j \in 1..m : after[n][j] # 0
  BY <1>0, <1>8
<1>10. after[n] \in [1..m -> 1..m]
  <2> DEFINE c == after[n]
  <2>1. c \in [1..m -> 0..m] /\ \A j \in 1..m : c[j] # 0
    BY <1>8, <1>9
  <2> HIDE DEF c
  <2>2. \A j \in 1..m : c[j] \in 1..m
    BY <2>1
  <2>3. c \in [1..m -> 1..m]
    BY <2>1, <2>2
  <2>. QED BY <2>3 DEF c
<1>11. GreedyColors(rows, order) = after[n]
  BY <1>0 DEF GreedyColors, after, base
<1>. QED BY <1>8, <1>10, <1>11

-----------------------------------------------------------------------------
(* A partial, and a colour, for each of m columns. *)
Seeds(m, B, partial, color) ==
  m \in Nat /\ partial \in [1..m -> Ids(B)] /\ color \in [1..m -> Nat]

(* The sum of a colour's partials, column by column. *)
SeedRun(n, B, partial, color, c, f) ==
  /\ f[0] = Start(B, Lit(Zero))
  /\ \A k \in 1..n : f[k] = WithColumn(f[k - 1], partial[k], color[k] = c)
  /\ \A k \in 0..n : Stage(B, f[k])

LEMMA SeedRuns ==
  ASSUME NEW B, Sound(B), NEW m, NEW partial, NEW color, Seeds(m, B, partial, color), NEW c
  PROVE  \E f : SeedRun(m, B, partial, color, c, f) /\ SeedOf(B, partial, color, c) = f[m]
<1> DEFINE n == m
           base == Start(B, Lit(Zero))
           States == {s \in [arena : Arenas, e : Expr] : Stage(B, s)}
           Reached(k) == States
           G == [k \in 0..n |-> Reached(k)]
           next == [k \in 1..n |-> [s \in States |-> WithColumn(s, partial[k], color[k] = c)]]
           Run(f) == f = [j \in 0..n |-> IF j = 0 THEN base
                                         ELSE WithColumn(f[j - 1], partial[j], color[j] = c)]
           after == CHOOSE f : Run(f)
<1>0. /\ n \in Nat /\ Len(color) = n
      /\ partial \in [1..m -> Ids(B)] /\ color \in [1..m -> Nat]
  BY FunctionIsSequence DEF Seeds
<1>1. base \in Reached(0)
  <2>1. Stage(B, base)
    BY LiteralNames, StartStage, ScalarAssumption
  <2>. QED BY <2>1 DEF Stage
<1>2. ASSUME NEW k \in 1..n, NEW s \in Reached(k - 1)
      PROVE  WithColumn(s, partial[k], color[k] = c) \in Reached(k)
  <2>1. Stage(B, s) /\ partial[k] \in Ids(B)
    BY <1>0
  <2>2. Names(B, At(partial[k]))
    BY <2>1, NodeNames
  <2>3. Stage(B, Then(s, "Add", At(partial[k])))
    BY <2>1, <2>2, PipelineStage, RuleAssumption
  <2>4. Stage(B, WithColumn(s, partial[k], color[k] = c))
    BY <2>1, <2>3 DEF WithColumn
  <2>. QED BY <2>4 DEF Stage
<1> HIDE DEF n, base, States
<1>3. \A k \in 0..n : Reached(k) \subseteq States
  OBVIOUS
<1> HIDE DEF Reached
<1>4. PICK f \in [0..n -> States] :
           /\ f[0] = base
           /\ \A k \in 1..n : f[k - 1] \in G[k - 1] /\ f[k] = next[k][f[k - 1]]
  <2>1. base \in G[0] /\ \A k \in 0..n : G[k] \subseteq States
    BY <1>0, <1>1, <1>3
  <2>2. ASSUME NEW k \in 1..n, NEW s \in G[k - 1] PROVE next[k][s] \in G[k]
    <3>1. k \in 0..n /\ k - 1 \in 0..n
      BY <1>0
    <3>2. s \in Reached(k - 1)
      BY <3>1
    <3>3. s \in States /\ WithColumn(s, partial[k], color[k] = c) \in Reached(k)
      BY <1>2, <1>3, <3>1, <3>2
    <3>. QED BY <3>1, <3>3
  <2> HIDE DEF next, G
  <2>3. IsLoop(n, States, base, G, next)
    BY <1>0, <2>1, <2>2 DEF IsLoop
  <2>. QED BY <2>3, LoopRuns DEF IsRun
<1>5. ASSUME NEW k \in 1..n PROVE f[k] = WithColumn(f[k - 1], partial[k], color[k] = c)
  <2>1. f[k - 1] \in States /\ f[k] = next[k][f[k - 1]]
    <3> HIDE DEF next, G
    <3>. QED BY <1>0, <1>4
  <2>. QED BY <2>1
<1>6. Run(after)
  <2> HIDE DEF next
  <2>1. Run(f)
    BY <1>0, <1>4, <1>5
  <2>. QED BY <2>1
<1> HIDE DEF after
<1>7. \A k \in 0..n : after[k] \in Reached(k)
  <2>1. after[0] \in G[0]
    BY <1>0, <1>1, <1>6
  <2>2. ASSUME NEW k \in 1..n, after[k - 1] \in G[k - 1] PROVE after[k] \in G[k]
    <3>1. k \in 0..n /\ k - 1 \in 0..n
      BY <1>0
    <3>2. after[k - 1] \in Reached(k - 1)
            /\ after[k] = WithColumn(after[k - 1], partial[k], color[k] = c)
      BY <1>0, <1>6, <2>2, <3>1
    <3>3. after[k] \in Reached(k)
      BY <1>2, <3>2
    <3>. QED BY <3>1, <3>3
  <2>3. \A k \in 0..n : after[k] \in G[k]
    BY <1>0, <2>1, <2>2, LoopInvariant
  <2>. QED BY <2>3
<1>8. SeedOf(B, partial, color, c) = after[n]
  BY <1>0 DEF SeedOf, after, n, base
<1>9. SeedRun(n, B, partial, color, c, after)
  <2>1. \A k \in 0..n : Stage(B, after[k])
    BY <1>7 DEF Reached, States
  <2>2. /\ after[0] = base
        /\ \A k \in 1..n : after[k] = WithColumn(after[k - 1], partial[k], color[k] = c)
    BY <1>0, <1>6
  <2>. QED BY <2>1, <2>2 DEF SeedRun, base
<1>. QED BY <1>8, <1>9 DEF n

(* A colour's seed is the sum of nodes of the arena, in an extension of it.  *)
LEMMA SeedStage ==
  ASSUME NEW B, Sound(B), NEW m, m \in Nat, NEW partial, partial \in [1..m -> Ids(B)],
         NEW color, color \in [1..m -> Nat], NEW c
  PROVE  Stage(B, SeedOf(B, partial, color, c))
<1>1. Seeds(m, B, partial, color)
  BY DEF Seeds
<1>2. PICK f : SeedRun(m, B, partial, color, c, f) /\ SeedOf(B, partial, color, c) = f[m]
  BY <1>1, SeedRuns
<1>. QED BY <1>2 DEF SeedRun

(* One sweep's partials, a node for each symbol. *)
LEMMA ColorRowAnswers ==
  ASSUME NEW B, Sound(B), NEW m, m = Len(B.symbols), NEW partial, partial \in [1..m -> Ids(B)],
         NEW color, color \in [1..m -> Nat], NEW c
  PROVE  Partials(B, ColorRow(B, partial, color, c))
<1> DEFINE stage == SeedOf(B, partial, color, c)
           seed == IdOf(stage)
           row == RowFrom(seed)
<1>0. m \in Nat
  BY DEF Sound, Arenas
<1>1. Stage(B, stage)
  BY <1>0, SeedStage
<1> HIDE DEF stage
<1>2. Keeps(B, stage.arena) /\ Sound(stage.arena) /\ Names(stage.arena, stage.e)
  BY <1>1 DEF Stage, Keeps
<1>3. Answers(stage.arena, seed)
  BY <1>2, MaterialiseAnswers DEF IdOf
<1> HIDE DEF seed
<1>4. Keeps(B, seed.arena) /\ Sound(seed.arena) /\ seed.id \in Ids(seed.arena)
  BY <1>2, <1>3, KeepsTransitive DEF Answers, Keeps
<1>5. Partials(seed.arena, row)
  BY <1>4, ReverseAnswers DEF RowFrom
<1> HIDE DEF row
<1>6. seed.arena.symbols = B.symbols
  BY <1>4 DEF Keeps
<1>7. Keeps(B, row.arena)
  BY <1>4, <1>5, KeepsTransitive DEF Partials
<1>8. Partials(B, row)
  BY <1>5, <1>6, <1>7 DEF Partials
<1>. QED BY <1>8 DEF ColorRow, row, seed, stage

LEMMA CountOfColors ==
  ASSUME NEW m, m \in Nat, NEW color, color \in [1..m -> 1..m]
  PROVE  ColorCount(color) \in Nat
<1> DEFINE used == {color[j] : j \in 1..m}
<1>1. IsFiniteSet(used)
  <2>1. IsFiniteSet(1..m) /\ used \in SUBSET (1..m)
    BY FS_Interval
  <2> HIDE DEF used
  <2>. QED BY <2>1, FS_Subset
<1>2. DOMAIN color = 1..m
  OBVIOUS
<1>3. ColorCount(color) = Cardinality(used)
  BY <1>2 DEF ColorCount
<1> HIDE DEF used
<1>. QED BY <1>1, <1>3, FS_CardinalityType

(* What hessian() returns of an arena B. *)
Blocks(m) ==
  [arena : Arenas, rows : [1..m -> SUBSET (1..m)], color : [1..m -> 1..m],
   compressed : Seq([1..m -> Nat]), zero : Nat]

Block(B, h) ==
  /\ Keeps(B, h.arena)
  /\ h \in Blocks(Len(B.symbols))
  /\ h.compressed \in Seq([1..Len(B.symbols) -> Ids(h.arena)])
  /\ h.zero \in Ids(h.arena)

LEMMA NextColorBlock ==
  ASSUME NEW B, Sound(B), NEW m, m = Len(B.symbols), NEW partial, partial \in [1..m -> Ids(B)],
         NEW h, Block(B, h), NEW c
  PROVE  Block(B, NextColor(h, partial, c))
<1> DEFINE row == ColorRow(h.arena, partial, h.color, c)
           C == h.arena
           next == WithColorRow(h, row)
<1>1. m \in Nat /\ Keeps(B, C) /\ Sound(C) /\ Len(C.symbols) = m
  BY DEF Block, Keeps, Sound, Arenas
<1>2. partial \in [1..m -> Ids(C)]
  BY <1>1, IdsGrow
<1>3. h \in Blocks(m) /\ h.color \in [1..m -> Nat]
  <2>1. h \in Blocks(m)
    BY DEF Block
  <2>. QED BY <2>1 DEF Blocks
<1>4. Partials(C, row)
  BY <1>1, <1>2, <1>3, ColorRowAnswers
<1> HIDE DEF row, C
<1>5. Keeps(C, row.arena) /\ row.partial \in [1..m -> Ids(row.arena)] /\ row.arena \in Arenas
  BY <1>1, <1>4 DEF Partials
<1>6. Keeps(B, row.arena) /\ Ids(C) \subseteq Ids(row.arena)
  BY <1>1, <1>5, KeepsTransitive, IdsGrow
<1>7. /\ h.compressed \in Seq([1..m -> Ids(row.arena)])
      /\ h.zero \in Ids(row.arena)
  <2>1. h.compressed \in Seq([1..m -> Ids(C)]) /\ h.zero \in Ids(C)
    BY DEF Block, C
  <2>2. [1..m -> Ids(C)] \subseteq [1..m -> Ids(row.arena)]
    BY <1>6
  <2>3. Seq([1..m -> Ids(C)]) \subseteq Seq([1..m -> Ids(row.arena)])
    BY <2>2
  <2>. QED BY <1>6, <2>1, <2>3
<1>8. Append(h.compressed, row.partial) \in Seq([1..m -> Ids(row.arena)])
  <2> DEFINE T == [1..m -> Ids(row.arena)]
  <2>1. h.compressed \in Seq(T) /\ row.partial \in T
    BY <1>5, <1>7
  <2> HIDE DEF T
  <2>2. Append(h.compressed, row.partial) \in Seq(T)
    BY <2>1
  <2>. QED BY <2>2 DEF T
<1>9. Append(h.compressed, row.partial) \in Seq([1..m -> Nat])
  <2>1. [1..m -> Ids(row.arena)] \subseteq [1..m -> Nat]
    BY DEF Ids
  <2>2. Seq([1..m -> Ids(row.arena)]) \subseteq Seq([1..m -> Nat])
    BY <2>1
  <2>. QED BY <1>8, <2>2
<1>10. next = [arena |-> row.arena, rows |-> h.rows, color |-> h.color,
               compressed |-> Append(h.compressed, row.partial), zero |-> h.zero]
  <2>1. h \in [arena : Arenas, rows : [1..m -> SUBSET (1..m)], color : [1..m -> 1..m],
                compressed : Seq([1..m -> Nat]), zero : Nat]
    BY <1>3 DEF Blocks
  <2>. QED BY <2>1 DEF WithColorRow
<1>11. next \in Blocks(m)
  BY <1>3, <1>5, <1>9, <1>10 DEF Blocks
<1>12. Block(B, next)
  BY <1>6, <1>7, <1>8, <1>10, <1>11 DEF Block
<1>. QED BY <1>12 DEF NextColor, row, C

(* The block as it is filled, a colour at a time. *)
CompressedRun(n, B, partial, h0, f) ==
  /\ n = ColorCount(h0.color) /\ n \in Nat
  /\ f[0] = h0
  /\ \A k \in 1..n : f[k] = NextColor(f[k - 1], partial, k)
  /\ \A k \in 0..n : Block(B, f[k])

LEMMA CompressedRuns ==
  ASSUME NEW B, Sound(B), NEW m, m = Len(B.symbols), NEW partial, partial \in [1..m -> Ids(B)],
         NEW h0, Block(B, h0)
  PROVE  \E n, f : CompressedRun(n, B, partial, h0, f) /\ Compressed(h0, partial) = f[n]
<1> DEFINE n == ColorCount(h0.color)
           States == {h \in Blocks(m) : Block(B, h)}
           Reached(k) == States
           G == [k \in 0..n |-> Reached(k)]
           next == [k \in 1..n |-> [h \in States |-> NextColor(h, partial, k)]]
           Run(f) == f = [c \in 0..n |-> IF c = 0 THEN h0 ELSE NextColor(f[c - 1], partial, c)]
           after == CHOOSE f : Run(f)
<1>0. n \in Nat
  <2>1. m \in Nat /\ h0.color \in [1..m -> 1..m]
    BY DEF Block, Blocks, Sound, Arenas
  <2>. QED BY <2>1, CountOfColors
<1> HIDE DEF n
<1>1. h0 \in Reached(0)
  BY DEF Block
<1>2. ASSUME NEW k \in 1..n, NEW h \in Reached(k - 1)
      PROVE NextColor(h, partial, k) \in Reached(k)
  <2>1. Block(B, h)
    OBVIOUS
  <2>2. Block(B, NextColor(h, partial, k))
    BY <2>1, NextColorBlock
  <2>. QED BY <2>2 DEF Block
<1> HIDE DEF States
<1>3. \A k \in 0..n : Reached(k) \subseteq States
  OBVIOUS
<1> HIDE DEF Reached
<1>4. PICK f \in [0..n -> States] :
           /\ f[0] = h0
           /\ \A k \in 1..n : f[k - 1] \in G[k - 1] /\ f[k] = next[k][f[k - 1]]
  <2>1. h0 \in G[0] /\ \A k \in 0..n : G[k] \subseteq States
    BY <1>0, <1>1, <1>3
  <2>2. ASSUME NEW k \in 1..n, NEW s \in G[k - 1] PROVE next[k][s] \in G[k]
    <3>1. k \in 0..n /\ k - 1 \in 0..n
      BY <1>0
    <3>2. s \in Reached(k - 1)
      BY <3>1
    <3>3. s \in States /\ NextColor(s, partial, k) \in Reached(k)
      BY <1>2, <1>3, <3>1, <3>2
    <3>. QED BY <3>1, <3>3
  <2> HIDE DEF next, G
  <2>3. IsLoop(n, States, h0, G, next)
    BY <1>0, <2>1, <2>2 DEF IsLoop
  <2>. QED BY <2>3, LoopRuns DEF IsRun
<1>5. ASSUME NEW k \in 1..n PROVE f[k] = NextColor(f[k - 1], partial, k)
  <2>1. f[k - 1] \in States /\ f[k] = next[k][f[k - 1]]
    <3> HIDE DEF next, G
    <3>. QED BY <1>0, <1>4
  <2>. QED BY <2>1
<1>6. Run(after)
  <2> HIDE DEF next
  <2>1. Run(f)
    BY <1>0, <1>4, <1>5
  <2>. QED BY <2>1
<1> HIDE DEF after
<1>7. \A k \in 0..n : after[k] \in Reached(k)
  <2>1. after[0] \in G[0]
    BY <1>0, <1>1, <1>6
  <2>2. ASSUME NEW k \in 1..n, after[k - 1] \in G[k - 1] PROVE after[k] \in G[k]
    <3>1. k \in 0..n /\ k - 1 \in 0..n
      BY <1>0
    <3>2. after[k - 1] \in Reached(k - 1) /\ after[k] = NextColor(after[k - 1], partial, k)
      BY <1>0, <1>6, <2>2, <3>1
    <3>3. after[k] \in Reached(k)
      BY <1>2, <3>2
    <3>. QED BY <3>1, <3>3
  <2>3. \A k \in 0..n : after[k] \in G[k]
    BY <1>0, <2>1, <2>2, LoopInvariant
  <2>. QED BY <2>3
<1>8. Compressed(h0, partial) = after[n]
  BY DEF Compressed, Iterated, after, n
<1>9. CompressedRun(n, B, partial, h0, after)
  <2>1. \A k \in 0..n : Block(B, after[k])
    BY <1>7 DEF Reached, States
  <2>2. after[0] = h0 /\ \A k \in 1..n : after[k] = NextColor(after[k - 1], partial, k)
    BY <1>0, <1>6
  <2>3. n = ColorCount(h0.color)
    BY DEF n
  <2>. QED BY <1>0, <2>1, <2>2, <2>3 DEF CompressedRun
<1>. QED BY <1>8, <1>9

LEMMA CompressedBlock ==
  ASSUME NEW B, Sound(B), NEW m, m = Len(B.symbols), NEW partial, partial \in [1..m -> Ids(B)],
         NEW h0, Block(B, h0)
  PROVE  Block(B, Compressed(h0, partial))
<1>1. PICK n, f : CompressedRun(n, B, partial, h0, f) /\ Compressed(h0, partial) = f[n]
  BY CompressedRuns
<1>. QED BY <1>1 DEF CompressedRun

(* hessian(): its arena extends the one it was given by nodes only, and its  *)
(* rows and its zero are nodes of that.                                      *)
LEMMA HessianAnswers ==
  ASSUME NEW B, Sound(B), NEW r \in Ids(B)
  PROVE  Block(B, HessianOf(B, r))
<1> DEFINE m == Len(B.symbols)
           g == ReverseGradient(B, r)
           z == Constant(g.arena, Zero)
           rows == CouplingPattern(g.arena, r)
           h0 == Colored(rows, z)
<1>1. Partials(B, g)
  BY ReverseAnswers
<1> HIDE DEF g
<1>2. /\ m \in Nat /\ Keeps(B, g.arena) /\ Sound(g.arena) /\ Len(g.arena.symbols) = m
      /\ g.partial \in [1..m -> Ids(g.arena)] /\ r \in Ids(g.arena)
  BY <1>1, IdsGrow DEF Partials, Keeps, Sound, Arenas
<1>3. Answers(g.arena, z)
  BY <1>2, ConstantAnswers, ScalarAssumption
<1> HIDE DEF z
<1>4. Keeps(g.arena, z.arena) /\ z.id \in Ids(z.arena) /\ Keeps(B, z.arena) /\ Sound(z.arena)
  BY <1>2, <1>3, KeepsTransitive DEF Answers, Keeps
<1>5. Pattern(m, rows)
  BY <1>2, PatternAnswers
<1> HIDE DEF rows
<1>6. DOMAIN rows = 1..m
  BY <1>5 DEF Pattern
<1> DEFINE order == [j \in 1..m |-> j]
           color == GreedyColors(rows, order)
<1>7. color \in [1..m -> 1..m]
  <2>1. IsOrder(m, order)
    BY DEF IsOrder
  <2> HIDE DEF order, m
  <2>. QED BY <1>2, <1>5, <2>1, GreedyAnswers
<1>8. h0 = [arena |-> z.arena, rows |-> rows, color |-> color, compressed |-> <<>>, zero |-> z.id]
  BY <1>6 DEF Colored, Uncompressed
<1> HIDE DEF color, h0
<1>9. Block(g.arena, h0)
  <2>1. h0 \in Blocks(m)
    BY <1>4, <1>5, <1>7, <1>8 DEF Blocks, Pattern, Sound, Ids
  <2>. QED BY <1>2, <1>4, <1>8, <2>1 DEF Block
<1> DEFINE h == Compressed(h0, g.partial)
<1>10. Block(g.arena, h)
  BY <1>2, <1>9, CompressedBlock
<1> HIDE DEF h
<1>11. Block(B, h)
  <2>1. Keeps(g.arena, h.arena) /\ g.arena.symbols = B.symbols
    BY <1>2, <1>10 DEF Block, Keeps
  <2>2. Keeps(B, h.arena)
    BY <1>2, <2>1, KeepsTransitive
  <2>. QED BY <1>10, <2>1, <2>2 DEF Block
<1>12. HessianOf(B, r) = h
  BY DEF HessianOf, HessianFrom, h, h0, g, z, rows
<1>. QED BY <1>11, <1>12

-----------------------------------------------------------------------------
(* The descending pass that marks what is below the nodes that are wanted. *)
MarkRun(n, below, wanted, f) ==
  /\ f[0] = wanted
  /\ \A k \in 1..n : f[k] = MarkBelow(below, f[k - 1], n + 1 - k)
  /\ \A k \in 0..n : f[k] \in SUBSET (1..n)

(* What a node may be above: earlier ones. *)
Descends(n, below) ==
  /\ n \in Nat /\ below \in Seq(SUBSET (1..n)) /\ Len(below) = n
  /\ \A v \in 1..n : below[v] \subseteq 1..(v - 1)

(* What is marked is where such a pass ends. *)
LEMMA MarkedRuns ==
  ASSUME NEW n, NEW below, Descends(n, below), NEW wanted, wanted \in SUBSET (1..n)
  PROVE  \E f : MarkRun(n, below, wanted, f) /\ Marked(below, wanted) = f[n]
<1> DEFINE base == wanted
           States == SUBSET (1..n)
           G == [k \in 0..n |-> States]
           next == [k \in 1..n |-> [s \in States |-> MarkBelow(below, s, n + 1 - k)]]
           Run(f) == f =
             [k \in 0..n |-> IF k = 0 THEN base ELSE MarkBelow(below, f[k - 1], n + 1 - k)]
           after == CHOOSE f : Run(f)
<1>0. n \in Nat /\ Len(below) = n /\ base \in States
  BY DEF Descends
<1>2. ASSUME NEW k \in 1..n, NEW s \in States PROVE MarkBelow(below, s, n + 1 - k) \in States
  <2>1. n + 1 - k \in 1..n
    BY <1>0
  <2>2. below[n + 1 - k] \in SUBSET (1..n)
    BY <2>1 DEF Descends
  <2>. QED BY <2>2 DEF MarkBelow
<1> HIDE DEF base, States
<1>4. PICK f \in [0..n -> States] :
           /\ f[0] = base
           /\ \A k \in 1..n : f[k - 1] \in G[k - 1] /\ f[k] = next[k][f[k - 1]]
  <2>1. base \in G[0] /\ \A k \in 0..n : G[k] \subseteq States
    BY <1>0
  <2>2. ASSUME NEW k \in 1..n, NEW s \in G[k - 1] PROVE next[k][s] \in G[k]
    <3>1. k \in 0..n /\ k - 1 \in 0..n
      BY <1>0
    <3>. QED BY <1>2, <3>1
  <2> HIDE DEF next, G
  <2>3. IsLoop(n, States, base, G, next)
    BY <1>0, <2>1, <2>2 DEF IsLoop
  <2>4. \E f \in [0..n -> States] : IsRun(f, n, base, G, next)
    BY <2>3, LoopRuns
  <2>. QED BY <2>4 DEF IsRun
<1>5. ASSUME NEW k \in 1..n PROVE f[k] = MarkBelow(below, f[k - 1], n + 1 - k)
  <2>1. f[k - 1] \in States /\ f[k] = next[k][f[k - 1]]
    <3> HIDE DEF next, G
    <3>. QED BY <1>0, <1>4
  <2>. QED BY <2>1
<1>6. Run(after)
  <2> HIDE DEF next
  <2>1. Run(f)
    BY <1>0, <1>4, <1>5
  <2>. QED BY <2>1
<1> HIDE DEF after
<1>7. after[0] = base /\ \A k \in 1..n : after[k] = MarkBelow(below, after[k - 1], n + 1 - k)
  BY <1>0, <1>6
<1>8. \A k \in 0..n : after[k] \in States
  <2>1. after[0] \in G[0] /\ \A k \in 1..n : after[k - 1] \in G[k - 1] => after[k] \in G[k]
    BY <1>0, <1>2, <1>7
  <2>2. \A k \in 0..n : after[k] \in G[k]
    BY <1>0, <2>1, LoopInvariant
  <2>. QED BY <2>2
<1>9. Marked(below, wanted) = after[n]
  BY <1>0 DEF Marked, after, base
<1>10. MarkRun(n, below, wanted, after)
  BY <1>7, <1>8 DEF MarkRun, States, base
<1>. QED BY <1>9, <1>10

(* What one descending pass marks has the roots, and whatever is below one   *)
(* of its members: a pass in any other order would miss some.                *)
LEMMA MarkedIsClosed ==
  ASSUME NEW n, NEW below, Descends(n, below), NEW wanted, wanted \in SUBSET (1..n)
  PROVE  /\ wanted \subseteq Marked(below, wanted)
         /\ \A v \in Marked(below, wanted) : v \in 1..n
            /\ below[v] \subseteq Marked(below, wanted)
<1> DEFINE Closed(k, s) == \A v \in s : v > n - k => below[v] \subseteq s
           Reached(k) == {s \in SUBSET (1..n) : wanted \subseteq s /\ Closed(k, s)}
           G == [k \in 0..n |-> Reached(k)]
<1>0. n \in Nat /\ \A v \in 1..n : below[v] \subseteq 1..(v - 1)
  BY DEF Descends
<1>1. wanted \in Reached(0)
  <2>1. \A v \in 1..n : ~(v > n - 0)
    BY <1>0
  <2>. QED BY <2>1
<1>2. ASSUME NEW k \in 1..n, NEW s \in Reached(k - 1)
      PROVE MarkBelow(below, s, n + 1 - k) \in Reached(k)
  <2> DEFINE u == n + 1 - k
             t == MarkBelow(below, s, u)
  <2>1. u \in 1..n /\ below[u] \subseteq 1..(u - 1) /\ below[u] \subseteq 1..n
    BY <1>0
  <2>2. s \subseteq 1..n /\ wanted \subseteq s /\ Closed(k - 1, s)
    OBVIOUS
  <2>3. t = IF u \in s THEN s \cup below[u] ELSE s
    BY DEF MarkBelow
  <2>4. t \subseteq 1..n /\ wanted \subseteq t /\ s \subseteq t
    BY <2>1, <2>2, <2>3
  <2>5. ASSUME NEW v \in t, v > n - k PROVE below[v] \subseteq t
    <3>1. v \in s
      BY <1>0, <2>1, <2>2, <2>3, <2>5
    <3>2. CASE v = u
      BY <2>3, <3>1, <3>2
    <3>3. CASE v # u
      <4>1. v > n - (k - 1)
        BY <1>0, <2>2, <2>5, <3>1, <3>3
      <4>. QED BY <2>2, <2>4, <3>1, <4>1
    <3>. QED BY <3>2, <3>3
  <2> HIDE DEF t
  <2>6. t \in Reached(k)
    BY <2>4, <2>5
  <2>. QED BY <2>6 DEF t
<1>3. PICK f : MarkRun(n, below, wanted, f) /\ Marked(below, wanted) = f[n]
  BY MarkedRuns
<1> HIDE DEF Reached
<1>4. f[n] \in Reached(n)
  <2>1. f[0] \in G[0]
    BY <1>0, <1>1, <1>3 DEF MarkRun
  <2>2. ASSUME NEW k \in 1..n, f[k - 1] \in G[k - 1] PROVE f[k] \in G[k]
    <3>1. k \in 0..n /\ k - 1 \in 0..n
      BY <1>0
    <3>2. f[k - 1] \in Reached(k - 1) /\ f[k] = MarkBelow(below, f[k - 1], n + 1 - k)
      BY <1>3, <2>2, <3>1 DEF MarkRun
    <3>. QED BY <1>2, <3>1, <3>2
  <2>3. \A k \in 0..n : f[k] \in G[k]
    BY <1>0, <2>1, <2>2, LoopInvariant
  <2>. QED BY <1>0, <2>3
<1>5. \A v \in 1..n : v > n - n
  BY <1>0
<1>. QED BY <1>3, <1>4, <1>5 DEF Reached

(* The operands of an arena's nodes, and of one that has more of them. *)
LEMMA OperandsDescend ==
  ASSUME NEW B, Sound(B)
  PROVE  Descends(Len(B.nodes), [v \in Ids(B) |-> Operands(B.nodes[v])])
<1> DEFINE n == Len(B.nodes)
           below == [v \in Ids(B) |-> Operands(B.nodes[v])]
<1>1. n \in Nat /\ Ids(B) = 1..n
  BY DEF Sound, Arenas, Ids
<1>2. ASSUME NEW v \in 1..n PROVE below[v] \subseteq 1..(v - 1)
  <2>1. /\ B.nodes[v].a = NoNode \/ B.nodes[v].a \in 1..(v - 1)
        /\ B.nodes[v].b = NoNode \/ B.nodes[v].b \in 1..(v - 1)
    BY <1>1 DEF Sound, WellFormed
  <2>. QED BY <1>1, <2>1 DEF Operands
<1>3. below \in [1..n -> SUBSET (1..n)]
  <2>1. DOMAIN below = 1..n /\ below = [v \in 1..n |-> below[v]]
    BY <1>1
  <2>2. \A v \in 1..n : 1..(v - 1) \subseteq 1..n
    BY <1>1
  <2> HIDE DEF below, n
  <2>. QED BY <1>2, <2>1, <2>2
<1> HIDE DEF below, n
<1>4. below \in Seq(SUBSET (1..n)) /\ Len(below) = n
  BY <1>1, <1>3, FunctionIsSequence
<1>5. Descends(n, below)
  BY <1>1, <1>2, <1>4 DEF Descends
<1>. QED BY <1>5 DEF below, n

-----------------------------------------------------------------------------
(* What a stage is as a number of kind K, read at p in an arena C that has    *)
(* everything formed since: x, wherever x is a value at all.                  *)
Numbers(K, C, p, w) == CalculusLaws(K) /\ Interprets(K, C, p, w)
ValueOf(K, w, e) == IF Pending(e) THEN K.of[e.lit] ELSE w[e.id]
Gives(K, B, s, C, w, x) ==
  /\ Stage(B, s)
  /\ Keeps(s.arena, C) => x = K.none \/ ValueOf(K, w, s.e) = x

LEMMA NumbersClosed ==
  ASSUME NEW K, CalculusLaws(K)
  PROVE  /\ K.none \in K.all /\ K.none # K.of[Zero] /\ K.none # K.of[One]
         /\ \A c \in Scalar : K.of[c] \in K.all
         /\ K.of[Zero] \in K.all /\ K.of[One] \in K.all
         /\ \A op \in UnaryOps, u \in K.all : On1(K, op, u) \in K.all
         /\ \A op \in BinaryOps, u, v \in K.all : On2(K, op, u, v) \in K.all
         /\ \A u, v \in K.all :
              Plus(K, u, v) \in K.all /\ Times(K, u, v) \in K.all /\ Over(K, u, v) \in K.all
         /\ \A u \in K.all : Negated(K, u) \in K.all
<1>1. /\ K.none \in K.all /\ K.none # K.of[Zero] /\ K.none # K.of[One] /\ Conversion(K)
  BY DEF CalculusLaws, RingLaws, Absorbing, NumberLaws
<1>2. /\ \A c \in Scalar : K.of[c] \in K.all
      /\ \A op \in UnaryOps, u \in K.all : On1(K, op, u) \in K.all
      /\ \A op \in BinaryOps, u, v \in K.all : On2(K, op, u, v) \in K.all
  BY <1>1 DEF Conversion
<1>3. /\ \A u, v \in K.all :
           Plus(K, u, v) \in K.all /\ Times(K, u, v) \in K.all /\ Over(K, u, v) \in K.all
      /\ \A u \in K.all : Negated(K, u) \in K.all
  BY <1>2, RuleAssumption DEF Plus, Times, Over, Negated
<1>. QED BY <1>1, <1>2, <1>3, ScalarAssumption

LEMMA NumbersAdd ==
  ASSUME NEW K, CalculusLaws(K), NEW x, x \in K.all, NEW y, y \in K.all, NEW z, z \in K.all
  PROVE  /\ Plus(K, x, y) = Plus(K, y, x)
         /\ Plus(K, Plus(K, x, y), z) = Plus(K, x, Plus(K, y, z))
         /\ Times(K, Times(K, x, y), z) = Times(K, x, Times(K, y, z))
         /\ Times(K, x, Plus(K, y, z)) = Plus(K, Times(K, x, y), Times(K, x, z))
         /\ Times(K, Plus(K, x, y), z) = Plus(K, Times(K, x, z), Times(K, y, z))
BY DEF CalculusLaws, RingLaws

LEMMA StageKept ==
  ASSUME NEW B, Sound(B), NEW s, Stage(B, s), NEW C, Keeps(s.arena, C)
  PROVE  Keeps(B, C)
BY KeepsTransitive DEF Stage

LEMMA ValueIsNumber ==
  ASSUME NEW K, NEW B, Sound(B), NEW e, Names(B, e), NEW C, Keeps(B, C), NEW p, NEW w,
         Numbers(K, C, p, w)
  PROVE  ValueOf(K, w, e) \in K.all
<1>1. e \in Expr /\ Ids(B) \subseteq Ids(C) /\ w \in Seq(K.all) /\ DOMAIN w = Ids(C)
  BY IdsGrow DEF Names, Numbers, Interprets, Ids
<1>2. \A c \in Scalar : K.of[c] \in K.all
  BY NumbersClosed DEF Numbers
<1>. QED BY <1>1, <1>2 DEF Names, ValueOf, Pending, Expr

LEMMA StartGives ==
  ASSUME NEW K, NEW B, Sound(B), NEW e, Names(B, e), NEW C, NEW w
  PROVE  Gives(K, B, Start(B, e), C, w, ValueOf(K, w, e))
BY StartStage DEF Gives, Start

LEMMA ConstantReads ==
  ASSUME NEW B, Sound(B), NEW c, c \in Scalar, NEW C, Keeps(Constant(B, c).arena, C),
         NEW K, NEW p, NEW w, Numbers(K, C, p, w)
  PROVE  w[Constant(B, c).id] = K.of[c]
<1>1. EqualIsSame /\ Interprets(K, C, p, w)
  BY DEF Numbers, CalculusLaws, NumberLaws, EqualIsSame
<1>. QED BY <1>1, ConstantLater

LEMMA MaterialiseValue ==
  ASSUME NEW K, NEW B, Sound(B), NEW e, Names(B, e), NEW C, Keeps(Materialise(B, e).arena, C),
         NEW p, NEW w, Numbers(K, C, p, w)
  PROVE  w[Materialise(B, e).id] = ValueOf(K, w, e)
<1>1. CASE Pending(e)
  <2>1. e.lit \in Scalar /\ EqualIsSame
    BY DEF Names, Expr, Numbers, CalculusLaws, NumberLaws, EqualIsSame
  <2>. QED BY <1>1, <2>1, ConstantLater DEF Materialise, ValueOf, Numbers
<1>2. CASE ~Pending(e)
  BY <1>2 DEF Materialise, ValueOf, Existing
<1>. QED BY <1>1, <1>2

LEMMA UnaryGives ==
  ASSUME NEW K, NEW B, Sound(B), NEW op \in UnaryOps, NEW C, NEW p, NEW w, Numbers(K, C, p, w),
         NEW s, NEW x, Gives(K, B, s, C, w, x)
  PROVE  Gives(K, B, Unary(op, s), C, w, On1(K, op, x))
<1> DEFINE next == Unary(op, s)
<1>1. Stage(B, s) /\ Stage(B, next) /\ Sound(s.arena) /\ Stage(s.arena, next)
  <2>1. Stage(B, s) /\ Sound(s.arena) /\ Stage(s.arena, s)
    BY ExtendsRefl DEF Gives, Stage, Keeps
  <2>. QED BY <2>1, UnaryStage
<1>2. ASSUME Keeps(next.arena, C), On1(K, op, x) # K.none
      PROVE ValueOf(K, w, next.e) = On1(K, op, x)
  <2>1. Keeps(s.arena, C)
    BY <1>1, <1>2, StageKept
  <2>2. x # K.none /\ ValueOf(K, w, s.e) = x
    BY <1>2, <2>1 DEF Gives, Numbers, CalculusLaws, RingLaws, Absorbing
  <2>3. CASE Pending(s.e)
    <3>1. s = [arena |-> s.arena, e |-> s.e]
      BY <1>1 DEF Stage
    <3> DEFINE c == s.e.lit
    <3>2. next.e = Lit(Apply1(op, c))
      BY <2>3, <3>1 DEF Unary
    <3>3. c \in Scalar
      BY <1>1 DEF Stage, Names, Expr
    <3>4. x = K.of[c] /\ ValueOf(K, w, next.e) = K.of[Apply1(op, c)]
      BY <2>2, <2>3, <3>2 DEF ValueOf, Pending, Lit
    <3>5. Is(K, On1(K, op, K.of[c]), K.of[Apply1(op, c)])
      BY <3>3 DEF Numbers, CalculusLaws, NumberLaws, Conversion
    <3>. QED BY <1>2, <3>4, <3>5 DEF Is
  <2>4. CASE ~Pending(s.e)
    <3> DEFINE made == Make(s.arena, op, s.e.id, NoNode)
    <3>1. s.e.id \in Ids(s.arena) /\ next = Node1(made)
      BY <1>1, <2>4 DEF Pending, Stage, Names, Unary
    <3>2. Keeps(made.arena, C) /\ Answers(s.arena, made)
      BY <1>1, <1>2, <3>1, MakeUnaryAnswers DEF Node1
    <3>3. w[made.id] = On1(K, op, w[s.e.id])
      <4>1. Given(K, op, w[s.e.id])
        BY <1>2, <2>2, <2>4 DEF Given, ValueOf
      <4>2. NumberLaws(K) /\ Interprets(K, C, p, w)
        BY DEF Numbers, CalculusLaws
      <4>. QED BY <1>1, <3>1, <3>2, <4>1, <4>2, MakeUnaryLater
    <3>4. made.id # NoNode
      BY <3>2 DEF Answers, Ids, NoNode
    <3> HIDE DEF made
    <3>. QED BY <2>2, <2>4, <3>1, <3>3, <3>4 DEF ValueOf, Pending, Node1, At
  <2>. QED BY <2>3, <2>4
<1>. QED BY <1>1, <1>2 DEF Gives

LEMMA FormGives ==
  ASSUME NEW K, NEW A, Sound(A), NEW B, Keeps(A, B), NEW op \in BinaryOps,
         NEW l, Names(B, l), NEW r, Names(B, r), NEW C, NEW p, NEW w, Numbers(K, C, p, w)
  PROVE  Gives(K, A, Form(B, op, l, r), C, w, On2(K, op, ValueOf(K, w, l), ValueOf(K, w, r)))
<1> DEFINE next == Form(B, op, l, r)
           x == On2(K, op, ValueOf(K, w, l), ValueOf(K, w, r))
<1>0. Sound(B) /\ Stage(A, next)
  BY FormStage DEF Keeps
<1>1. ASSUME Keeps(next.arena, C), x # K.none PROVE ValueOf(K, w, next.e) = x
  <2>1. CASE Pending(l) /\ Pending(r)
    <3> DEFINE c == l.lit
               d == r.lit
    <3>1. c \in Scalar /\ d \in Scalar
      BY DEF Names, Expr
    <3>2. next.e = Lit(Apply2(op, c, d))
      BY <2>1 DEF Form, Start
    <3>3. x = On2(K, op, K.of[c], K.of[d]) /\ ValueOf(K, w, next.e) = K.of[Apply2(op, c, d)]
      BY <2>1, <3>2 DEF ValueOf, Pending, Lit
    <3>4. Is(K, On2(K, op, K.of[c], K.of[d]), K.of[Apply2(op, c, d)])
      BY <3>1 DEF Numbers, CalculusLaws, NumberLaws, Conversion
    <3>. QED BY <1>1, <3>3, <3>4 DEF Is
  <2>2. CASE ~(Pending(l) /\ Pending(r))
    <3> DEFINE left == Materialise(B, l)
               right == Materialise(left.arena, r)
               made == Make(right.arena, op, left.id, right.id)
    <3>1. Keeps(B, left.arena) /\ left.id \in Ids(left.arena) /\ Sound(left.arena)
      BY <1>0, MaterialiseAnswers DEF Answers, Keeps
    <3>2. Names(left.arena, r)
      BY <1>0, <3>1, NamesKept
    <3> HIDE DEF left
    <3>3. Keeps(left.arena, right.arena) /\ right.id \in Ids(right.arena) /\ Sound(right.arena)
      BY <3>1, <3>2, MaterialiseAnswers DEF Answers, Keeps
    <3>4. left.id \in Ids(right.arena)
      BY <3>1, <3>3, IdsGrow
    <3> HIDE DEF right
    <3>5. Answers(right.arena, made)
      BY <3>3, <3>4, MakeBinaryAnswers
    <3>6. next = Node1(made)
      BY <2>2 DEF Form, JoinedTo, Joined, left, right
    <3>7. Keeps(made.arena, C) /\ made.id # NoNode
      BY <1>1, <3>5, <3>6 DEF Node1, Answers, Ids, NoNode
    <3>8. Keeps(right.arena, C)
      BY <3>3, <3>5, <3>7, KeepsTransitive DEF Answers
    <3>9. Keeps(left.arena, C)
      BY <3>1, <3>3, <3>8, KeepsTransitive
    <3>10. w[left.id] = ValueOf(K, w, l)
      BY <1>0, <3>9, MaterialiseValue DEF left
    <3>11. w[right.id] = ValueOf(K, w, r)
      BY <3>1, <3>2, <3>8, MaterialiseValue DEF right
    <3>12. w[made.id] = On2(K, op, w[left.id], w[right.id])
      <4>1. On2(K, op, w[left.id], w[right.id]) # K.none
        BY <1>1, <3>10, <3>11
      <4>. QED BY <3>3, <3>4, <3>7, <4>1, MakeBinaryLater DEF Numbers, CalculusLaws
    <3> HIDE DEF made
    <3>. QED BY <3>6, <3>7, <3>10, <3>11, <3>12 DEF Node1, At, ValueOf, Pending
  <2>. QED BY <2>1, <2>2
<1>. QED BY <1>0, <1>1 DEF Gives

LEMMA PipelineGives ==
  ASSUME NEW K, NEW B, Sound(B), NEW op \in BinaryOps, NEW C, NEW p, NEW w, Numbers(K, C, p, w),
         NEW s, NEW x, Gives(K, B, s, C, w, x), NEW e, Names(B, e)
  PROVE  /\ Gives(K, B, Then(s, op, e), C, w, On2(K, op, x, ValueOf(K, w, e)))
         /\ Gives(K, B, After(e, op, s), C, w, On2(K, op, ValueOf(K, w, e), x))
<1>1. /\ Stage(B, s) /\ Keeps(B, s.arena) /\ Sound(s.arena)
      /\ Names(s.arena, s.e) /\ Names(s.arena, e) /\ Keeps(s.arena, s.arena)
  BY NamesKept, ExtendsRefl DEF Gives, Stage, Keeps
<1>2. ASSUME NEW l, Names(s.arena, l), NEW r, Names(s.arena, r),
             Keeps(Form(s.arena, op, l, r).arena, C)
      PROVE  /\ x = K.none \/ ValueOf(K, w, s.e) = x
             /\ ValueOf(K, w, e) \in K.all
  <2>1. Stage(s.arena, Form(s.arena, op, l, r))
    BY <1>1, <1>2, FormStage
  <2>2. Keeps(s.arena, C)
    BY <1>1, <1>2, <2>1, StageKept
  <2>. QED BY <1>1, <2>2, ValueIsNumber DEF Gives
<1>3. \A v \in K.all : On2(K, op, K.none, v) = K.none /\ On2(K, op, v, K.none) = K.none
  BY DEF Numbers, CalculusLaws, RingLaws, Absorbing
<1>4. Gives(K, B, Then(s, op, e), C, w, On2(K, op, x, ValueOf(K, w, e)))
  <2>1. Gives(K, B, Form(s.arena, op, s.e, e), C, w,
          On2(K, op, ValueOf(K, w, s.e), ValueOf(K, w, e)))
    BY <1>1, FormGives
  <2>. QED BY <1>1, <1>2, <1>3, <2>1 DEF Gives, Then
<1>5. Gives(K, B, After(e, op, s), C, w, On2(K, op, ValueOf(K, w, e), x))
  <2>1. Gives(K, B, Form(s.arena, op, e, s.e), C, w,
          On2(K, op, ValueOf(K, w, e), ValueOf(K, w, s.e)))
    BY <1>1, FormGives
  <2>. QED BY <1>1, <1>2, <1>3, <2>1 DEF Gives, After
<1>. QED BY <1>4, <1>5

LEMMA MinusGives ==
  ASSUME NEW K, NEW B, Sound(B), NEW l, Names(B, l), NEW r, Names(B, r),
         NEW C, NEW p, NEW w, Numbers(K, C, p, w)
  PROVE  Gives(K, B, Minus(B, l, r), C, w,
           Plus(K, ValueOf(K, w, l), Negated(K, ValueOf(K, w, r))))
<1>1. Gives(K, B, Unary("Neg", Start(B, r)), C, w, Negated(K, ValueOf(K, w, r)))
  BY StartGives, UnaryGives, RuleAssumption DEF Negated
<1>. QED BY <1>1, PipelineGives, RuleAssumption DEF Minus, Plus

(* The rules form what the tables of slopes say. *)
LEMMA ConstantGives ==
  ASSUME NEW K, NEW B, Sound(B), NEW c \in Scalar, NEW C, NEW w
  PROVE  /\ Names(B, Lit(c)) /\ ValueOf(K, w, Lit(c)) = K.of[c]
         /\ Gives(K, B, Start(B, Lit(c)), C, w, K.of[c])
<1>1. Names(B, Lit(c)) /\ ValueOf(K, w, Lit(c)) = K.of[c]
  BY LiteralNames DEF ValueOf, Lit, Pending
<1>2. Gives(K, B, Start(B, Lit(c)), C, w, ValueOf(K, w, Lit(c)))
  BY <1>1, StartGives
<1>. QED BY <1>1, <1>2

LEMMA PartialGives ==
  ASSUME NEW K, NEW B, Sound(B), NEW op \in UnaryOps, NEW u, Names(B, u), NEW f, Names(B, f),
         NEW C, NEW p, NEW w, Numbers(K, C, p, w), ValueOf(K, w, f) = On1(K, op, ValueOf(K, w, u))
  PROVE  Gives(K, B, Partial(B, op, u, f), C, w, RowOf(K, op, ValueOf(K, w, u)))
<1>1. \A c \in {Zero, One, MinusOne, Two} :
        /\ Names(B, Lit(c)) /\ ValueOf(K, w, Lit(c)) = K.of[c]
        /\ Gives(K, B, Start(B, Lit(c)), C, w, K.of[c])
  BY ConstantGives, ScalarAssumption, RuleAssumption
<1>2. Gives(K, B, Start(B, u), C, w, ValueOf(K, w, u))
        /\ Gives(K, B, Start(B, f), C, w, ValueOf(K, w, f))
  BY StartGives
<1>3. Keeps(B, B)
  BY ExtendsRefl
<1>4. CASE op = "Neg"
  BY <1>1, <1>4 DEF Partial, RowOf
<1>5. CASE op = "Abs"
  BY <1>2, <1>5, UnaryGives, RuleAssumption DEF Partial, RowOf
<1>6. CASE op = "Sign"
  BY <1>1, <1>6 DEF Partial, RowOf
<1>7. CASE op = "Sine"
  BY <1>2, <1>7, UnaryGives, RuleAssumption DEF Partial, RowOf
<1>8. CASE op = "Cosine"
  <2>1. Gives(K, B, Unary("Sine", Start(B, u)), C, w, On1(K, "Sine", ValueOf(K, w, u)))
    BY <1>2, <1>8, UnaryGives, RuleAssumption
  <2> QED
    BY <1>8, <2>1, UnaryGives, RuleAssumption DEF Partial, RowOf, Negated
<1>9. CASE op = "Exp"
  BY <1>2, <1>9 DEF Partial, RowOf
<1>10. CASE op = "Log"
  <2>1. Gives(K, B, Form(B, "Div", Lit(One), u), C, w, Over(K, K.of[One], ValueOf(K, w, u)))
    <3>1. Gives(K, B, Form(B, "Div", Lit(One), u), C, w,
                On2(K, "Div", ValueOf(K, w, Lit(One)), ValueOf(K, w, u)))
      BY <1>1, <1>3, FormGives, RuleAssumption
    <3>. QED BY <1>1, <3>1 DEF Over
  <2>. QED BY <1>10, <2>1 DEF Partial, RowOf
<1>11. CASE op = "Sqrt"
  <2> DEFINE twice == Form(B, "Mul", Lit(Two), f)
             x == Times(K, K.of[Two], ValueOf(K, w, f))
  <2>1. Gives(K, B, twice, C, w, x)
    <3>1. Gives(K, B, twice, C, w, On2(K, "Mul", ValueOf(K, w, Lit(Two)), ValueOf(K, w, f)))
      BY <1>1, <1>3, FormGives, RuleAssumption
    <3>. QED BY <1>1, <3>1 DEF Times
  <2>2. Gives(K, B, After(Lit(One), "Div", twice), C, w, Over(K, K.of[One], x))
    <3> HIDE DEF twice, x
    <3>1. Gives(K, B, After(Lit(One), "Div", twice), C, w,
            On2(K, "Div", ValueOf(K, w, Lit(One)), x))
      BY <1>1, <2>1, PipelineGives, RuleAssumption
    <3>. QED BY <1>1, <3>1 DEF Over
  <2> QED
    BY <1>11, <2>2 DEF Partial, RowOf
<1> QED
  BY <1>4, <1>5, <1>6, <1>7, <1>8, <1>9, <1>10, <1>11, RuleAssumption DEF UnaryRules

LEMMA AboveBelowGives ==
  ASSUME NEW K, NEW B, Sound(B), NEW l, Names(B, l), NEW r, Names(B, r), "Sign" \in UnaryOps,
         NEW C, NEW p, NEW w, Numbers(K, C, p, w)
  PROVE  /\ Gives(K, B, Above(B, l, r), C, w, HalfAbove(K, ValueOf(K, w, l), ValueOf(K, w, r)))
         /\ Gives(K, B, Below(B, l, r), C, w, HalfBelow(K, ValueOf(K, w, l), ValueOf(K, w, r)))
<1> DEFINE signed == Unary("Sign", Minus(B, l, r))
           x == SignOfDifference(K, ValueOf(K, w, l), ValueOf(K, w, r))
           more == After(Lit(One), "Add", signed)
           less == After(Lit(One), "Add", Unary("Neg", signed))
<1>1. \A c \in {One, Two} : Names(B, Lit(c)) /\ ValueOf(K, w, Lit(c)) = K.of[c]
  BY ConstantGives, ScalarAssumption, RuleAssumption
<1>2. Gives(K, B, signed, C, w, x)
  BY MinusGives, UnaryGives DEF SignOfDifference
<1> HIDE DEF signed, x
<1>3. Gives(K, B, Unary("Neg", signed), C, w, Negated(K, x))
  BY <1>2, UnaryGives, RuleAssumption DEF Negated
<1>4. Gives(K, B, more, C, w, Plus(K, K.of[One], x))
        /\ Gives(K, B, less, C, w, Plus(K, K.of[One], Negated(K, x)))
  <2>1. /\ Gives(K, B, more, C, w, On2(K, "Add", ValueOf(K, w, Lit(One)), x))
        /\ Gives(K, B, less, C, w, On2(K, "Add", ValueOf(K, w, Lit(One)), Negated(K, x)))
    BY <1>1, <1>2, <1>3, PipelineGives, RuleAssumption
  <2>. QED BY <1>1, <2>1 DEF Plus
<1> HIDE DEF more, less
<1>5. /\ Gives(K, B, Then(more, "Div", Lit(Two)), C, w, Over(K, Plus(K, K.of[One], x), K.of[Two]))
      /\ Gives(K, B, Then(less, "Div", Lit(Two)), C, w,
           Over(K, Plus(K, K.of[One], Negated(K, x)), K.of[Two]))
  <2>1. /\ Gives(K, B, Then(more, "Div", Lit(Two)), C, w,
                 On2(K, "Div", Plus(K, K.of[One], x), ValueOf(K, w, Lit(Two))))
        /\ Gives(K, B, Then(less, "Div", Lit(Two)), C, w,
                 On2(K, "Div", Plus(K, K.of[One], Negated(K, x)), ValueOf(K, w, Lit(Two))))
    BY <1>1, <1>4, PipelineGives, RuleAssumption
  <2>. QED BY <1>1, <2>1 DEF Over
<1> QED
  BY <1>5 DEF Above, Below, signed, more, less, x, HalfAbove, HalfBelow

LEMMA PartialsGive ==
  ASSUME NEW K, NEW B, Sound(B), NEW op \in BinaryOps,
         NEW l, Names(B, l), NEW r, Names(B, r), NEW f, Names(B, f),
         NEW C, NEW p, NEW w, Numbers(K, C, p, w),
         ValueOf(K, w, f) = On2(K, op, ValueOf(K, w, l), ValueOf(K, w, r))
  PROVE  /\ Gives(K, B, LeftPartial(B, op, l, r, f), C, w,
              LeftOf(K, op, ValueOf(K, w, l), ValueOf(K, w, r)))
         /\ Gives(K, B, RightPartial(B, op, l, r, f), C, w,
              RightOf(K, op, ValueOf(K, w, l), ValueOf(K, w, r)))
<1> DEFINE x == ValueOf(K, w, l)
           y == ValueOf(K, w, r)
<1>1. Names(B, Lit(One)) /\ ValueOf(K, w, Lit(One)) = K.of[One]
        /\ Gives(K, B, Start(B, Lit(One)), C, w, K.of[One])
  BY ConstantGives, ScalarAssumption
<1>2. /\ Gives(K, B, Start(B, l), C, w, x) /\ Gives(K, B, Start(B, r), C, w, y)
      /\ Gives(K, B, Start(B, f), C, w, ValueOf(K, w, f)) /\ Keeps(B, B)
  BY StartGives, ExtendsRefl
<1>3. CASE op = "Add"
  BY <1>1, <1>3 DEF LeftPartial, RightPartial, LeftOf, RightOf
<1>4. CASE op = "Mul"
  BY <1>2, <1>4 DEF LeftPartial, RightPartial, LeftOf, RightOf
<1>5. CASE op = "Div"
  <2> DEFINE minus == Unary("Neg", Start(B, f))
  <2>1. Gives(K, B, minus, C, w, Negated(K, Over(K, x, y)))
    <3>1. Gives(K, B, minus, C, w, On1(K, "Neg", ValueOf(K, w, f)))
      BY <1>2, UnaryGives, RuleAssumption
    <3>. QED BY <1>5, <3>1 DEF Negated, Over
  <2> HIDE DEF minus
  <2>2. Gives(K, B, Then(minus, "Div", r), C, w, Over(K, Negated(K, Over(K, x, y)), y))
    <3> DEFINE z == Negated(K, Over(K, x, y))
    <3>1. Gives(K, B, minus, C, w, z)
      BY <2>1
    <3> HIDE DEF z
    <3>2. Gives(K, B, Then(minus, "Div", r), C, w, On2(K, "Div", z, y))
      BY <3>1, PipelineGives, RuleAssumption
    <3>. QED BY <3>2 DEF Over, z
  <2>3. Gives(K, B, Form(B, "Div", Lit(One), r), C, w, Over(K, K.of[One], y))
    <3>1. Gives(K, B, Form(B, "Div", Lit(One), r), C, w,
            On2(K, "Div", ValueOf(K, w, Lit(One)), y))
      BY <1>1, <1>2, FormGives, RuleAssumption
    <3>. QED BY <1>1, <3>1 DEF Over
  <2> QED
    BY <1>5, <2>2, <2>3 DEF LeftPartial, RightPartial, LeftOf, RightOf, minus
<1>6. CASE op = "Pow"
  <2> DEFINE less == Minus(B, r, Lit(One))
             lower == After(l, "Pow", less)
             log == Unary("Log", Start(B, l))
             k == Plus(K, y, Negated(K, K.of[One]))
             pow == On2(K, "Pow", x, k)
             slow == On1(K, "Log", x)
  <2>1. Gives(K, B, less, C, w, k)
    <3>1. Gives(K, B, less, C, w, Plus(K, y, Negated(K, ValueOf(K, w, Lit(One)))))
      BY <1>1, MinusGives
    <3>. QED BY <1>1, <3>1
  <2> HIDE DEF less, k
  <2>2. Gives(K, B, lower, C, w, pow)
    BY <1>6, <2>1, PipelineGives
  <2> HIDE DEF lower, pow
  <2>3. Gives(K, B, After(r, "Mul", lower), C, w, Times(K, y, pow))
    BY <2>2, PipelineGives, RuleAssumption DEF Times
  <2>4. Gives(K, B, log, C, w, slow)
    BY <1>2, <1>6, UnaryGives, RuleAssumption
  <2> HIDE DEF log, slow
  <2>5. Gives(K, B, After(f, "Mul", log), C, w, Times(K, ValueOf(K, w, f), slow))
    BY <2>4, PipelineGives, RuleAssumption DEF Times
  <2> QED
    BY <1>6, <2>3, <2>5
    DEF LeftPartial, RightPartial, LeftOf, RightOf, less, lower, log, k, pow, slow
<1>7. CASE op = "Hypot"
  <2>1. /\ Gives(K, B, Form(B, "Div", l, f), C, w, Over(K, x, ValueOf(K, w, f)))
        /\ Gives(K, B, Form(B, "Div", r, f), C, w, Over(K, y, ValueOf(K, w, f)))
    BY <1>2, FormGives, RuleAssumption DEF Over
  <2>. QED BY <1>7, <2>1 DEF LeftPartial, RightPartial, LeftOf, RightOf
<1>8. CASE op = "Max"
  BY <1>8, AboveBelowGives, RuleAssumption DEF LeftPartial, RightPartial, LeftOf, RightOf
<1>9. CASE op = "Min"
  BY <1>9, AboveBelowGives, RuleAssumption DEF LeftPartial, RightPartial, LeftOf, RightOf
<1> QED
  BY <1>3, <1>4, <1>5, <1>6, <1>7, <1>8, <1>9, RuleAssumption DEF BinaryRules

(* The rows are formulas: slopes are of any set that operations do not leave. *)
Closed(K, F) ==
  /\ F \subseteq K.all /\ K.none \in F /\ \A c \in Scalar : K.of[c] \in F
  /\ \A op \in UnaryOps, u \in F : On1(K, op, u) \in F
  /\ \A op \in BinaryOps, u, v \in F : On2(K, op, u, v) \in F
LEMMA SlopesClosed ==
  ASSUME NEW K, CalculusLaws(K), NEW F, Closed(K, F), NEW op, NEW u \in F
  PROVE  /\ op \in UnaryOps => K.slope[op][u] \in F
         /\ \A v \in F : op \in BinaryOps => K.left[op][u][v] \in F /\ K.right[op][u][v] \in F
<1>0. /\ K.none \in F /\ K.of[One] \in F /\ K.of[Two] \in F /\ K.of[Zero] \in F
      /\ K.of[MinusOne] \in F /\ F \subseteq K.all
      /\ \A x, y \in F : Plus(K, x, y) \in F /\ Times(K, x, y) \in F /\ Over(K, x, y) \in F
      /\ \A x \in F : Negated(K, x) \in F
  BY ScalarAssumption, RuleAssumption DEF Closed, Plus, Times, Over, Negated
<1>1. ASSUME op \in UnaryOps PROVE K.slope[op][u] \in F
  <2>1. RowOf(K, op, u) \in F
    <3>1. op \in UnaryRules
      BY <1>1, RuleAssumption
    <3>2. /\ "Abs" \in UnaryOps => "Sign" \in UnaryOps
          /\ "Sine" \in UnaryOps <=> "Cosine" \in UnaryOps
      BY RuleAssumption
    <3>3. \A o \in UnaryOps : On1(K, o, u) \in F
      BY DEF Closed
    <3>. QED BY <1>0, <1>1, <3>1, <3>2, <3>3 DEF RowOf, UnaryRules
  <2>. QED BY <1>0, <1>1, <2>1 DEF CalculusLaws, SlopeLaws
<1>2. ASSUME NEW v \in F, op \in BinaryOps
      PROVE  K.left[op][u][v] \in F /\ K.right[op][u][v] \in F
  <2>1. op \in BinaryRules /\ On2(K, op, u, v) \in F
    BY <1>2, RuleAssumption DEF Closed
  <2>2. op \in {"Max", "Min"} => HalfAbove(K, u, v) \in F /\ HalfBelow(K, u, v) \in F
    <3>1. op \in {"Max", "Min"} => SignOfDifference(K, u, v) \in F
      BY <1>0, <1>2, RuleAssumption DEF SignOfDifference, Closed
    <3>. QED BY <1>0, <3>1 DEF HalfAbove, HalfBelow
  <2>3. op = "Pow" => /\ On1(K, "Log", u) \in F
                      /\ On2(K, "Pow", u, Plus(K, v, Negated(K, K.of[One]))) \in F
    BY <1>0, <1>2, RuleAssumption DEF Closed
  <2>4. LeftOf(K, op, u, v) \in F /\ RightOf(K, op, u, v) \in F
    BY <1>0, <1>2, <2>1, <2>2, <2>3 DEF LeftOf, RightOf, BinaryRules
  <2>. QED BY <1>0, <1>2, <2>4 DEF CalculusLaws, SlopeLaws
<1>. QED BY <1>1, <1>2

LEMMA SlopeNumber ==
  ASSUME NEW K, CalculusLaws(K), NEW op, NEW u \in K.all
  PROVE  /\ op \in UnaryOps => K.slope[op][u] \in K.all
         /\ \A v \in K.all : op \in BinaryOps =>
              K.left[op][u][v] \in K.all /\ K.right[op][u][v] \in K.all
<1>1. Closed(K, K.all)
  BY NumbersClosed DEF Closed
<1>. QED BY <1>1, SlopesClosed

-----------------------------------------------------------------------------
(* A node's tangent is made of its operands' values and tangents.            *)
ReadSame(B, n, x, y, t, u) ==
  /\ Sound(B) /\ \E v \in Ids(B) : n = B.nodes[v]
  /\ AgreeOn(Operands(n), x, y) /\ AgreeOn(Operands(n), t, u)
LEMMA TangentReads ==
  ASSUME NEW K, NEW B, NEW n, NEW s, NEW x, NEW y, NEW t, NEW u, ReadSame(B, n, x, y, t, u)
  PROVE  Tangent(K, n, x, t, s) = Tangent(K, n, y, u, s)
<1> PICK v \in Ids(B) : n = B.nodes[v]
  BY DEF ReadSame
<1> Sound(B)
  BY DEF ReadSame
<1>1. n \in Node
  BY NodeOf
<1>2. /\ n.op \in UnaryOps \cup BinaryOps => n.a \in 1..(v - 1)
      /\ n.op \in BinaryOps => n.b \in 1..(v - 1)
  BY DEF Sound, WellFormed
<1>3. CASE n.op \in {"Const", "Var"}
  BY <1>3, OpAssumption DEF Tangent
<1>4. CASE n.op \in UnaryOps
  <2>1. n.a \in Operands(n)
    BY <1>2, <1>4 DEF Operands, NoNode
  <2>2. n.op \notin {"Const", "Var"} /\ n.op \notin BinaryOps
    BY <1>4, OpAssumption
  <2>. QED BY <1>4, <2>1, <2>2 DEF Tangent, ReadSame, AgreeOn
<1>5. CASE n.op \in BinaryOps
  <2>1. n.a \in Operands(n) /\ n.b \in Operands(n)
    BY <1>2, <1>5 DEF Operands, NoNode
  <2>2. n.op \notin {"Const", "Var"} /\ n.op \notin UnaryOps
    BY <1>5, OpAssumption
  <2>. QED BY <1>5, <2>1, <2>2 DEF Tangent, ReadSame, AgreeOn
<1>. QED BY <1>1, <1>3, <1>4, <1>5 DEF Node

NumbersTo(K, n, t) == \A u \in 1..n : t[u] \in K.all
LEMMA TangentNumber ==
  ASSUME NEW K, CalculusLaws(K), NEW B, Sound(B), NEW v \in Ids(B), NEW s, NEW x,
         NumbersTo(K, v - 1, x),
         NEW t, NumbersTo(K, v - 1, t)
  PROVE  Tangent(K, B.nodes[v], x, t, s) \in K.all
<1>1. B.nodes[v] \in Node
  BY NodeOf
<1>2. /\ B.nodes[v].op \in UnaryOps \cup BinaryOps => B.nodes[v].a \in 1..(v - 1)
      /\ B.nodes[v].op \in BinaryOps => B.nodes[v].b \in 1..(v - 1)
  BY DEF Sound, WellFormed
<1>0. /\ \A c, d \in K.all : Plus(K, c, d) \in K.all /\ Times(K, c, d) \in K.all
      /\ K.of[Zero] \in K.all /\ K.of[One] \in K.all
  BY NumbersClosed
<1>3. CASE B.nodes[v].op \in {"Const", "Var"}
  BY <1>0, <1>3, OpAssumption DEF Tangent
<1>4. CASE B.nodes[v].op \in UnaryOps
  <2> DEFINE n == B.nodes[v]
  <2>1. n.op \notin {"Const", "Var"} /\ n.op \notin BinaryOps
    BY <1>4, OpAssumption
  <2>2. x[n.a] \in K.all /\ t[n.a] \in K.all
    BY <1>2, <1>4 DEF NumbersTo
  <2>3. K.slope[n.op][x[n.a]] \in K.all
    BY <1>4, <2>2, SlopeNumber
  <2>4. Tangent(K, n, x, t, s) = Times(K, K.slope[n.op][x[n.a]], t[n.a])
    BY <1>4, <2>1 DEF Tangent
  <2> HIDE DEF n
  <2>. QED BY <1>0, <2>2, <2>3, <2>4 DEF n
<1>5. CASE B.nodes[v].op \in BinaryOps
  <2> DEFINE n == B.nodes[v]
             left == K.left[n.op][x[n.a]][x[n.b]]
             right == K.right[n.op][x[n.a]][x[n.b]]
  <2>1. n.op \notin {"Const", "Var"} /\ n.op \notin UnaryOps
    BY <1>5, OpAssumption
  <2>2. x[n.a] \in K.all /\ t[n.a] \in K.all /\ x[n.b] \in K.all /\ t[n.b] \in K.all
    BY <1>2, <1>5 DEF NumbersTo
  <2>3. left \in K.all /\ right \in K.all
    BY <1>5, <2>2, SlopeNumber
  <2>4. Tangent(K, B.nodes[v], x, t, s) = Plus(K, Times(K, left, t[n.a]), Times(K, right, t[n.b]))
    BY <1>5, <2>1 DEF Tangent
  <2> HIDE DEF n, left, right
  <2>. QED BY <1>0, <2>2, <2>3, <2>4
<1>. QED BY <1>1, <1>3, <1>4, <1>5 DEF Node

(* Forward accumulation: a tangent for each of the first n nodes.            *)
Differentiates(K, B, n, x, s, t) ==
  /\ t \in Seq(K.all) /\ Len(t) = n
  /\ \A v \in 1..n : t[v] = Tangent(K, B.nodes[v], x, t, s)
LEMMA TangentsAnswer ==
  ASSUME NEW K, CalculusLaws(K), NEW B, Sound(B), NEW n \in 0..Len(B.nodes), NEW s, NEW x,
         NumbersTo(K, n, x)
  PROVE  Differentiates(K, B, n, x, s, TangentsAt(K, B, x, s, n))
<1> DEFINE base == <<>>
           States == Seq(K.all)
           Solved(k, t) == \A v \in 1..k : t[v] = Tangent(K, B.nodes[v], x, t, s)
           Reached(k) == {t \in States : Len(t) = k /\ Solved(k, t)}
           G == [k \in 0..n |-> Reached(k)]
           next == [k \in 1..n |-> [t \in States |-> WithTangent(K, t, B.nodes[k], x, s)]]
           Run(f) == f = [k \in 0..n |-> IF k = 0 THEN base
                                         ELSE WithTangent(K, f[k - 1], B.nodes[k], x, s)]
           after == CHOOSE f : Run(f)
<1>0. n \in Nat /\ Len(B.nodes) \in Nat
  BY DEF Sound, Arenas
<1>1. base \in Reached(0)
  OBVIOUS
<1>2. ASSUME NEW k \in 1..n, NEW t \in Reached(k - 1)
      PROVE  WithTangent(K, t, B.nodes[k], x, s) \in Reached(k)
  <2> DEFINE u == WithTangent(K, t, B.nodes[k], x, s)
             tan == Tangent(K, B.nodes[k], x, t, s)
  <2>1. t \in Seq(K.all) /\ Len(t) = k - 1 /\ Solved(k - 1, t)
    OBVIOUS
  <2>2. k \in Ids(B) /\ NumbersTo(K, k - 1, t) /\ NumbersTo(K, k - 1, x)
    BY <1>0, <2>1 DEF Ids, NumbersTo
  <2>3. tan \in K.all
    BY <2>2, TangentNumber
  <2>4. u = Append(t, tan)
    BY DEF WithTangent
  <2> HIDE DEF tan, u
  <2>5. /\ u \in Seq(K.all) /\ Len(u) = k /\ u[k] = tan
        /\ \A w \in 1..(k - 1) : u[w] = t[w]
    BY <1>0, <2>1, <2>3, <2>4
  <2>6. ASSUME NEW v \in 1..k PROVE u[v] = Tangent(K, B.nodes[v], x, u, s)
    <3>1. v \in Ids(B)
      BY <1>0 DEF Ids
    <3>2. Operands(B.nodes[v]) \subseteq 1..(v - 1)
      BY <3>1, OperandsBelow
    <3>3. ReadSame(B, B.nodes[v], x, x, t, u)
      BY <2>5, <3>1, <3>2 DEF Ids, AgreeOn, ReadSame
    <3>4. Tangent(K, B.nodes[v], x, t, s) = Tangent(K, B.nodes[v], x, u, s)
      BY <3>3, TangentReads
    <3>5. CASE v = k
      BY <2>5, <3>4, <3>5 DEF tan
    <3>6. CASE v \in 1..(k - 1)
      BY <2>1, <2>5, <3>4, <3>6
    <3>. QED BY <1>0, <3>5, <3>6
  <2>. QED BY <2>5, <2>6 DEF u
<1> HIDE DEF base, States
<1>3. \A k \in 0..n : Reached(k) \subseteq States
  OBVIOUS
<1> HIDE DEF Reached
<1>4. PICK f \in [0..n -> States] :
           /\ f[0] = base
           /\ \A k \in 1..n : f[k - 1] \in G[k - 1] /\ f[k] = next[k][f[k - 1]]
  <2>1. base \in G[0] /\ \A k \in 0..n : G[k] \subseteq States
    BY <1>0, <1>1, <1>3
  <2>2. ASSUME NEW k \in 1..n, NEW t \in G[k - 1] PROVE next[k][t] \in G[k]
    <3>1. k \in 0..n /\ k - 1 \in 0..n
      BY <1>0
    <3>2. t \in Reached(k - 1)
      BY <3>1
    <3>3. t \in States /\ WithTangent(K, t, B.nodes[k], x, s) \in Reached(k)
      BY <1>2, <1>3, <3>1, <3>2
    <3>. QED BY <3>1, <3>3
  <2> HIDE DEF next, G
  <2>3. IsLoop(n, States, base, G, next)
    BY <1>0, <2>1, <2>2 DEF IsLoop
  <2>4. \E f \in [0..n -> States] : IsRun(f, n, base, G, next)
    BY <2>3, LoopRuns
  <2>. QED BY <2>4 DEF IsRun
<1>5. ASSUME NEW k \in 1..n PROVE f[k] = WithTangent(K, f[k - 1], B.nodes[k], x, s)
  <2>1. f[k - 1] \in States /\ f[k] = next[k][f[k - 1]]
    <3> HIDE DEF next, G
    <3>. QED BY <1>0, <1>4
  <2>. QED BY <2>1
<1>6. Run(after)
  <2> HIDE DEF next
  <2>1. Run(f)
    BY <1>0, <1>4, <1>5
  <2>. QED BY <2>1
<1> HIDE DEF after
<1>7. \A k \in 0..n : after[k] \in Reached(k)
  <2>1. after[0] \in G[0]
    BY <1>0, <1>1, <1>6
  <2>2. ASSUME NEW k \in 1..n, after[k - 1] \in G[k - 1] PROVE after[k] \in G[k]
    <3>1. k \in 0..n /\ k - 1 \in 0..n
      BY <1>0
    <3>2. after[k - 1] \in Reached(k - 1)
            /\ after[k] = WithTangent(K, after[k - 1], B.nodes[k], x, s)
      BY <1>0, <1>6, <2>2, <3>1
    <3>3. after[k] \in Reached(k)
      BY <1>2, <3>2
    <3>. QED BY <3>1, <3>3
  <2>3. \A k \in 0..n : after[k] \in G[k]
    BY <1>0, <2>1, <2>2, LoopInvariant
  <2>. QED BY <2>3
<1>8. TangentsAt(K, B, x, s, n) = after[n]
  BY DEF TangentsAt, after, base
<1>9. after[n] \in Reached(n)
  BY <1>0, <1>7
<1>. QED BY <1>8, <1>9 DEF Reached, States, Differentiates

(* One point gives a node one tangent, however many nodes there are by now.  *)
LEMMA TangentsKept ==
  ASSUME NEW K, NEW B, Sound(B), NEW C, Extends(C, B), NEW n \in 0..Len(B.nodes), NEW m \in Nat,
         n <= m,
         NEW x, NEW y, AgreeOn(1..n, x, y), NEW s, NEW t, Differentiates(K, B, n, x, s, t),
         NEW u, Differentiates(K, C, m, y, s, u)
  PROVE  AgreeOn(1..n, t, u)
<1> DEFINE S == {k \in Nat : \A v \in 1..n : v <= k => t[v] = u[v]}
<1>0. Len(B.nodes) \in Nat /\ n \in Nat
  BY DEF Sound, Arenas
<1>1. 0 \in S
  OBVIOUS
<1>2. ASSUME NEW k \in Nat, k \in S PROVE k + 1 \in S
  <2>1. ASSUME NEW v \in 1..n, v <= k + 1 PROVE t[v] = u[v]
    <3>1. v \in Ids(B) /\ C.nodes[v] = B.nodes[v] /\ v \in 1..m
      BY <1>0 DEF Extends, Ids
    <3>2. Operands(B.nodes[v]) \subseteq 1..(v - 1)
      BY <3>1, OperandsBelow
    <3>3. ReadSame(B, B.nodes[v], x, y, t, u)
      <4>1. \A w \in 1..(v - 1) : w \in 1..n /\ w <= k
        BY <1>0, <2>1
      <4>2. \A w \in 1..(v - 1) : t[w] = u[w] /\ x[w] = y[w]
        BY <1>2, <4>1 DEF AgreeOn
      <4>. QED BY <3>1, <3>2, <4>2 DEF AgreeOn, ReadSame
    <3>4. Tangent(K, B.nodes[v], x, t, s) = Tangent(K, B.nodes[v], y, u, s)
      BY <3>3, TangentReads
    <3>. QED BY <3>1, <3>4 DEF Differentiates
  <2>. QED BY <2>1
<1>3. \A k \in Nat : k \in S
  <2> HIDE DEF S
  <2>. QED BY <1>1, <1>2, SetInduction
<1>. QED BY <1>0, <1>3 DEF AgreeOn

-----------------------------------------------------------------------------
(* Sums of terms.                                                            *)
LEMMA SumsAreNumbers ==
  ASSUME NEW K, CalculusLaws(K), NEW x \in K.all, NEW y \in K.all
  PROVE  Plus(K, x, y) \in K.all /\ Times(K, x, y) \in K.all
  BY NumbersClosed

TotalRun(K, term, n, f) ==
  /\ f \in [0..n -> K.all] /\ f[0] = K.of[Zero]
  /\ \A k \in 1..n : f[k] = Plus(K, f[k - 1], term[k])
LEMMA TotalRuns ==
  ASSUME NEW K, CalculusLaws(K), NEW n \in Nat, NEW term, NumbersTo(K, n, term)
  PROVE  \E f : TotalRun(K, term, n, f) /\ Total(K, term, n) = f[n]
<1> DEFINE G == [k \in 0..n |-> K.all]
           next == [k \in 1..n |-> [t \in K.all |-> Plus(K, t, term[k])]]
           Run(f) == f = [k \in 0..n |-> IF k = 0 THEN K.of[Zero] ELSE Plus(K, f[k - 1], term[k])]
           after == CHOOSE f : Run(f)
<1>1. ASSUME NEW k \in 1..n, NEW t \in K.all PROVE Plus(K, t, term[k]) \in K.all
  BY SumsAreNumbers DEF NumbersTo
<1>2. PICK f \in [0..n -> K.all] :
           /\ f[0] = K.of[Zero]
           /\ \A k \in 1..n : f[k - 1] \in G[k - 1] /\ f[k] = next[k][f[k - 1]]
  <2>1. K.of[Zero] \in G[0] /\ \A k \in 0..n : G[k] \subseteq K.all
    BY NumbersClosed
  <2>2. ASSUME NEW k \in 1..n, NEW t \in G[k - 1] PROVE next[k][t] \in G[k]
    <3>1. k \in 0..n /\ k - 1 \in 0..n
      OBVIOUS
    <3>. QED BY <1>1, <3>1
  <2> HIDE DEF next, G
  <2>3. IsLoop(n, K.all, K.of[Zero], G, next)
    BY <2>1, <2>2 DEF IsLoop
  <2>4. \E f \in [0..n -> K.all] : IsRun(f, n, K.of[Zero], G, next)
    BY <2>3, LoopRuns
  <2>. QED BY <2>4 DEF IsRun
<1>3. ASSUME NEW k \in 1..n PROVE f[k] = Plus(K, f[k - 1], term[k])
  <2>1. f[k - 1] \in K.all /\ f[k] = next[k][f[k - 1]]
    <3> HIDE DEF next, G
    <3>. QED BY <1>2
  <2>. QED BY <2>1
<1> HIDE DEF next, G
<1>4. TotalRun(K, term, n, f)
  BY <1>2, <1>3 DEF TotalRun
<1>5. Run(after)
  <2>1. Run(f)
    BY <1>2, <1>3
  <2>. QED BY <2>1
<1> HIDE DEF after
<1>6. TotalRun(K, term, n, after)
  <2> DEFINE S == {k \in Nat : k <= n => after[k] = f[k]}
  <2>0. after[0] = K.of[Zero] /\ \A k \in 1..n : after[k] = Plus(K, after[k - 1], term[k])
    BY <1>5
  <2>1. 0 \in S
    BY <1>2, <2>0
  <2>2. ASSUME NEW k \in Nat, k \in S PROVE k + 1 \in S
    <3> SUFFICES ASSUME k + 1 <= n PROVE after[k + 1] = f[k + 1]
      OBVIOUS
    <3>1. k + 1 \in 1..n /\ (k + 1) - 1 = k /\ after[k] = f[k]
      BY <2>2
    <3>. QED BY <1>3, <2>0, <3>1
  <2>3. \A k \in Nat : k \in S
    <3> HIDE DEF S
    <3>. QED BY <2>1, <2>2, SetInduction
  <2>4. \A k \in 0..n : after[k] = f[k]
    BY <2>3
  <2>5. after \in [0..n -> K.all]
    <3>1. DOMAIN after = 0..n /\ after = [k \in 0..n |-> after[k]]
      BY <1>5
    <3>. QED BY <1>2, <2>4, <3>1
  <2>. QED BY <2>0, <2>5 DEF TotalRun
<1>7. Total(K, term, n) = after[n]
  BY DEF Total, after
<1>. QED BY <1>6, <1>7

LEMMA TotalNext ==
  ASSUME NEW K, CalculusLaws(K), NEW n \in Nat, NEW term, NumbersTo(K, n + 1, term)
  PROVE  Total(K, term, n + 1) = Plus(K, Total(K, term, n), term[n + 1])
<1>1. PICK f : TotalRun(K, term, n + 1, f) /\ Total(K, term, n + 1) = f[n + 1]
  BY TotalRuns
<1>2. PICK g : TotalRun(K, term, n, g) /\ Total(K, term, n) = g[n]
  BY TotalRuns DEF NumbersTo
<1> DEFINE S == {k \in Nat : k <= n => g[k] = f[k]}
<1>3. 0 \in S
  BY <1>1, <1>2 DEF TotalRun
<1>4. ASSUME NEW k \in Nat, k \in S PROVE k + 1 \in S
  <2> SUFFICES ASSUME k + 1 <= n PROVE g[k + 1] = f[k + 1]
    OBVIOUS
  <2>1. k + 1 \in 1..n /\ k + 1 \in 1..(n + 1) /\ (k + 1) - 1 = k /\ g[k] = f[k]
    BY <1>4
  <2>. QED BY <1>1, <1>2, <2>1 DEF TotalRun
<1>5. \A k \in Nat : k \in S
  <2> HIDE DEF S
  <2>. QED BY <1>3, <1>4, SetInduction
<1>6. g[n] = f[n] /\ n + 1 \in 1..(n + 1) /\ (n + 1) - 1 = n
  BY <1>5
<1>. QED BY <1>1, <1>2, <1>6 DEF TotalRun

LEMMA TotalOfNone ==
  ASSUME NEW K, CalculusLaws(K), NEW term
  PROVE  Total(K, term, 0) = K.of[Zero]
<1>1. NumbersTo(K, 0, term)
  BY DEF NumbersTo
<1>. QED BY <1>1, TotalRuns DEF TotalRun

LEMMA TotalNumber ==
  ASSUME NEW K, CalculusLaws(K), NEW n \in Nat, NEW term, NumbersTo(K, n, term)
  PROVE  Total(K, term, n) \in K.all
  BY TotalRuns DEF TotalRun

LEMMA TotalSame ==
  ASSUME NEW K, CalculusLaws(K), NEW n \in Nat, NEW t, NumbersTo(K, n, t), NEW u,
         AgreeOn(1..n, t, u)
  PROVE  Total(K, t, n) = Total(K, u, n)
<1> DEFINE S == {k \in Nat : k <= n => Total(K, t, k) = Total(K, u, k)}
<1>1. 0 \in S
  BY TotalOfNone
<1>2. ASSUME NEW k \in Nat, k \in S PROVE k + 1 \in S
  <2> SUFFICES ASSUME k + 1 <= n PROVE Total(K, t, k + 1) = Total(K, u, k + 1)
    OBVIOUS
  <2>1. NumbersTo(K, k + 1, t) /\ NumbersTo(K, k + 1, u) /\ t[k + 1] = u[k + 1]
    BY DEF NumbersTo, AgreeOn
  <2>2. Total(K, t, k) = Total(K, u, k)
    BY <1>2
  <2>. QED BY <2>1, <2>2, TotalNext
<1>3. \A k \in Nat : k \in S
  <2> HIDE DEF S
  <2>. QED BY <1>1, <1>2, SetInduction
<1>. QED BY <1>3

LEMMA AbsorbedBySums ==
  ASSUME NEW K, CalculusLaws(K), NEW x \in K.all
  PROVE  /\ Plus(K, K.none, x) = K.none /\ Plus(K, x, K.none) = K.none
         /\ Times(K, K.none, x) = K.none /\ Times(K, x, K.none) = K.none
BY RuleAssumption DEF CalculusLaws, RingLaws, Absorbing, Plus, Times

(* A sum that is a value is one of values. *)
LEMMA TotalAbsorbs ==
  ASSUME NEW K, CalculusLaws(K), NEW n \in Nat, NEW t, NumbersTo(K, n, t), Total(K, t, n) # K.none
  PROVE  \A i \in 1..n : t[i] # K.none
<1> DEFINE S == {k \in Nat : k <= n /\ Total(K, t, k) # K.none => \A i \in 1..k : t[i] # K.none}
<1>1. 0 \in S
  OBVIOUS
<1>2. ASSUME NEW k \in Nat, k \in S PROVE k + 1 \in S
  <2> SUFFICES ASSUME k + 1 <= n, Total(K, t, k + 1) # K.none
               PROVE \A i \in 1..(k + 1) : t[i] # K.none
    OBVIOUS
  <2>1. NumbersTo(K, k + 1, t) /\ NumbersTo(K, k, t) /\ t[k + 1] \in K.all
    BY DEF NumbersTo
  <2>2. Total(K, t, k + 1) = Plus(K, Total(K, t, k), t[k + 1]) /\ Total(K, t, k) \in K.all
    BY <2>1, TotalNext, TotalNumber
  <2>3. Total(K, t, k) # K.none /\ t[k + 1] # K.none
    BY <2>1, <2>2, AbsorbedBySums
  <2>. QED BY <1>2, <2>3
<1>3. \A k \in Nat : k \in S
  <2> HIDE DEF S
  <2>. QED BY <1>1, <1>2, SetInduction
<1>. QED BY <1>3

(* Adding to a term adds to the sum. *)
Adds(K, n, i, x, t, u) ==
  /\ NumbersTo(K, n, t) /\ i \in 1..n /\ x \in K.all
  /\ u[i] = Plus(K, t[i], x) /\ \A j \in 1..n : j # i => u[j] = t[j]
LEMMA TotalMore ==
  ASSUME NEW K, CalculusLaws(K), NEW n \in Nat, NEW i, NEW x, NEW t, NEW u, Adds(K, n, i, x, t, u)
  PROVE  NumbersTo(K, n, u) /\ Total(K, u, n) = Plus(K, Total(K, t, n), x)
<1>0. NumbersTo(K, n, t) /\ i \in 1..n /\ x \in K.all
  BY DEF Adds
<1>1. NumbersTo(K, n, u)
  BY SumsAreNumbers DEF Adds, NumbersTo
<1> DEFINE S == {k \in Nat : k <= n => IF k < i THEN Total(K, u, k) = Total(K, t, k)
                                       ELSE Total(K, u, k) = Plus(K, Total(K, t, k), x)}
<1>2. 0 \in S
  BY <1>0, TotalOfNone
<1>3. ASSUME NEW k \in Nat, k \in S PROVE k + 1 \in S
  <2> SUFFICES ASSUME k + 1 <= n
               PROVE  IF k + 1 < i THEN Total(K, u, k + 1) = Total(K, t, k + 1)
                      ELSE Total(K, u, k + 1) = Plus(K, Total(K, t, k + 1), x)
    OBVIOUS
  <2>1. NumbersTo(K, k + 1, t) /\ NumbersTo(K, k, t) /\ NumbersTo(K, k + 1, u)
          /\ t[k + 1] \in K.all
    BY <1>0, <1>1 DEF NumbersTo
  <2> DEFINE a == Total(K, t, k)
             b == t[k + 1]
  <2>2. Total(K, t, k + 1) = Plus(K, a, b)
          /\ Total(K, u, k + 1) = Plus(K, Total(K, u, k), u[k + 1])
        /\ a \in K.all /\ b \in K.all
    BY <2>1, TotalNext, TotalNumber
  <2>3. IF k < i THEN Total(K, u, k) = a ELSE Total(K, u, k) = Plus(K, a, x)
    BY <1>3
  <2>4. u[k + 1] = IF k + 1 = i THEN Plus(K, b, x) ELSE b
    BY DEF Adds
  <2>5. Plus(K, a, Plus(K, b, x)) = Plus(K, Plus(K, a, b), x)
          /\ Plus(K, Plus(K, a, x), b) = Plus(K, Plus(K, a, b), x)
    <3>1. /\ Plus(K, Plus(K, a, b), x) = Plus(K, a, Plus(K, b, x))
             /\ Plus(K, b, x) = Plus(K, x, b)
          /\ Plus(K, Plus(K, a, x), b) = Plus(K, a, Plus(K, x, b))
      BY <1>0, <2>2 DEF CalculusLaws, RingLaws
    <3>. QED BY <3>1
  <2> HIDE DEF a, b
  <2>6. CASE k + 1 < i
    BY <1>0, <2>2, <2>3, <2>4, <2>6
  <2>7. CASE k + 1 = i
    BY <1>0, <2>2, <2>3, <2>4, <2>5, <2>7
  <2>8. CASE k + 1 > i
    BY <1>0, <2>2, <2>3, <2>4, <2>5, <2>8
  <2>. QED BY <1>0, <2>6, <2>7, <2>8
<1>4. \A k \in Nat : k \in S
  <2> HIDE DEF S
  <2>. QED BY <1>2, <1>3, SetInduction
<1>5. n \in S /\ ~(n < i)
  BY <1>0, <1>4
<1>. QED BY <1>1, <1>5

LEMMA PlusZero ==
  ASSUME NEW K, CalculusLaws(K), NEW x \in K.all
  PROVE  Plus(K, K.of[Zero], x) = x
<1>1. CASE x = K.none
  BY <1>1, NumbersClosed, AbsorbedBySums
<1>. QED BY <1>1 DEF CalculusLaws, RingLaws

(* A sum with at most one term that is not zero. *)
LEMMA TotalSingle ==
  ASSUME NEW K, CalculusLaws(K), NEW n \in Nat, NEW t, NEW i \in 1..n, t[i] \in K.all,
         \A j \in 1..n : j # i => t[j] = K.of[Zero]
  PROVE  Total(K, t, n) = t[i]
<1> DEFINE zero == [j \in 1..n |-> K.of[Zero]]
           S == {k \in Nat : k <= n => Total(K, zero, k) = K.of[Zero]}
<1>0. K.of[Zero] \in K.all /\ Plus(K, K.of[Zero], K.of[Zero]) = K.of[Zero]
        /\ Plus(K, K.of[Zero], t[i]) = t[i]
  BY NumbersClosed, PlusZero
<1>1. 0 \in S
  BY TotalOfNone
<1>2. ASSUME NEW k \in Nat, k \in S PROVE k + 1 \in S
  <2> SUFFICES ASSUME k + 1 <= n PROVE Total(K, zero, k + 1) = K.of[Zero]
    OBVIOUS
  <2>1. NumbersTo(K, k + 1, zero) /\ zero[k + 1] = K.of[Zero] /\ Total(K, zero, k) = K.of[Zero]
    BY <1>0, <1>2 DEF NumbersTo
  <2>. QED BY <1>0, <2>1, TotalNext
<1>3. \A k \in Nat : k \in S
  <2> HIDE DEF S
  <2>. QED BY <1>1, <1>2, SetInduction
<1>4. Total(K, zero, n) = K.of[Zero]
  BY <1>3
<1>5. Adds(K, n, i, t[i], zero, t)
  BY <1>0 DEF Adds, NumbersTo
<1>. QED BY <1>0, <1>4, <1>5, TotalMore

-----------------------------------------------------------------------------
(* The sums a sweep keeps.  Everything is read at one point in an arena C    *)
(* that has all the nodes formed by then.                                    *)

(* The adjoints still to be propagated from 1..c are values. *)
Valued(K, sweep, c, w) == \A u \in 1..c : sweep.adj[u] # NoNode => w[sweep.adj[u]] # K.none
Reads(K, n, C, p, w, s, t) ==
  Numbers(K, C, p, w) /\ Sound(C) /\ n \in 0..Len(C.nodes) /\ Differentiates(K, C, n, w, s, t)

LEMMA TermsAreNumbers ==
  ASSUME NEW K, NEW n, NEW sweep, Sweeping(n, sweep), NEW C, Keeps(sweep.arena, C),
         NEW p, NEW w, NEW s, NEW t, Reads(K, n, C, p, w, s, t), NEW c
  PROVE  /\ n \in Nat /\ DOMAIN sweep.adj = 1..n
         /\ NumbersTo(K, n, Terms(K, sweep, c, w, t))
         /\ \A v \in 1..n : sweep.adj[v] # NoNode => w[sweep.adj[v]] \in K.all
         /\ \A v \in 1..n : t[v] \in K.all /\ v \in Ids(sweep.arena)
         /\ \A v \in 1..n : sweep.adj[v] # NoNode =>
              sweep.adj[v] \in Ids(sweep.arena) /\ sweep.adj[v] \in Ids(C)
<1>1. n \in Nat /\ DOMAIN sweep.adj = 1..n /\ Sound(sweep.arena)
        /\ 1..n \subseteq Ids(sweep.arena)
  BY DEF Sweeping, Sound, Arenas, Ids
<1>2. \A v \in 1..n : sweep.adj[v] # NoNode =>
              sweep.adj[v] \in Ids(sweep.arena) /\ sweep.adj[v] \in Ids(C)
  BY <1>1, IdsGrow DEF Sweeping
<1>3. \A v \in 1..n : sweep.adj[v] # NoNode => w[sweep.adj[v]] \in K.all
  BY <1>2 DEF Reads, Numbers, Interprets, Ids
<1>4. \A v \in 1..n : t[v] \in K.all
  BY <1>1 DEF Reads, Differentiates
<1>5. ASSUME NEW v \in 1..n PROVE Terms(K, sweep, c, w, t)[v] \in K.all
  <2>1. CalculusLaws(K) /\ K.of[Zero] \in K.all
    BY NumbersClosed DEF Reads, Numbers
  <2>. QED BY <1>1, <1>3, <1>4, <2>1, SumsAreNumbers DEF Terms, Live
<1>. QED BY <1>1, <1>2, <1>3, <1>4, <1>5 DEF NumbersTo

(* What the product of values is. *)
LEMMA ValuesMultiply ==
  ASSUME NEW K, CalculusLaws(K), NEW x \in K.all, NEW y \in K.all
  PROVE  /\ Times(K, x, y) # K.none <=> x # K.none /\ y # K.none
         /\ Plus(K, x, y) # K.none <=> x # K.none /\ y # K.none
  BY AbsorbedBySums DEF CalculusLaws, RingLaws, Absorbing

(* add_to(): the child's adjoint has x more, and so has the sum.             *)
LEMMA AddToGives ==
  ASSUME NEW K, NEW n, NEW sweep, Sweeping(n, sweep), NEW child \in 1..n,
         NEW C, NEW p, NEW w, Numbers(K, C, p, w), NEW stage, NEW x \in K.all \ {K.none},
         Gives(K, sweep.arena, stage, C, w, x), Keeps(AddTo(sweep, child, stage).arena, C),
         sweep.adj[child] # NoNode => w[sweep.adj[child]] # K.none
  PROVE  \E id \in Nat \ {NoNode} :
           /\ AddTo(sweep, child, stage).adj = [sweep.adj EXCEPT ![child] = id]
           /\ w[id] = IF sweep.adj[child] = NoNode THEN x ELSE Plus(K, w[sweep.adj[child]], x)
           /\ w[id] # K.none
<1> DEFINE c == Materialise(stage.arena, stage.e)
           sum == Make(c.arena, "Add", sweep.adj[child], c.id)
           total == IF sweep.adj[child] = NoNode THEN c ELSE sum
<1>0. /\ Sound(sweep.arena) /\ Keeps(sweep.arena, stage.arena) /\ Sound(stage.arena)
      /\ Names(stage.arena, stage.e) /\ Stage(sweep.arena, stage)
  BY DEF Sweeping, Stage, Keeps, Gives
<1>1. Keeps(stage.arena, c.arena) /\ c.id \in Ids(c.arena) /\ Sound(c.arena)
  BY <1>0, MaterialiseAnswers DEF Answers, Keeps
<1>2. Keeps(sweep.arena, c.arena)
  BY <1>0, <1>1, KeepsTransitive
<1>3. AddTo(sweep, child, stage) =
        [arena |-> total.arena, adj |-> [sweep.adj EXCEPT ![child] = total.id]]
  BY DEF AddTo, AddedTo, Recorded, Sum, IdOf
<1>4. Keeps(total.arena, C)
  BY <1>3
<1>5. sweep.adj[child] # NoNode =>
        sweep.adj[child] \in Ids(sweep.arena) /\ sweep.adj[child] \in Ids(c.arena)
  BY <1>0, <1>2, IdsGrow DEF Sweeping
<1>6. sweep.adj[child] # NoNode => Answers(c.arena, sum)
  BY <1>1, <1>5, MakeBinaryAnswers, RuleAssumption
<1> HIDE DEF c, sum
<1>7. total.id \in Nat \ {NoNode}
  BY <1>1, <1>6 DEF Answers, Ids, NoNode
<1>8. Keeps(c.arena, C)
  BY <1>1, <1>4, <1>6, KeepsTransitive DEF Answers
<1>9. w[c.id] = x
  <2>1. Keeps(stage.arena, C)
    BY <1>0, <1>1, <1>8, KeepsTransitive
  <2>2. ValueOf(K, w, stage.e) = x
    BY <2>1 DEF Gives
  <2>3. w[c.id] = ValueOf(K, w, stage.e)
    BY <1>0, <1>8, MaterialiseValue DEF c
  <2>. QED BY <2>2, <2>3
<1>10. ASSUME sweep.adj[child] # NoNode
       PROVE  w[sum.id] = Plus(K, w[sweep.adj[child]], x) /\ w[sum.id] # K.none
  <2> DEFINE a == sweep.adj[child]
  <2>1. w[a] \in K.all \ {K.none}
    <3>1. a \in Ids(C)
      BY <1>1, <1>5, <1>8, <1>10, IdsGrow
    <3>. QED BY <1>10, <3>1 DEF Numbers, Interprets, Ids
  <2>2. Plus(K, w[a], x) # K.none
    BY <2>1, ValuesMultiply DEF Numbers
  <2>3. a \in Ids(c.arena) /\ Keeps(sum.arena, C) /\ On2(K, "Add", w[a], w[c.id]) # K.none
    BY <1>4, <1>5, <1>9, <1>10, <2>2 DEF Plus
  <2> HIDE DEF a
  <2>4. w[Make(c.arena, "Add", a, c.id).id] = On2(K, "Add", w[a], w[c.id])
    <3>1. Keeps(Make(c.arena, "Add", a, c.id).arena, C)
      BY <2>3 DEF sum, a
    <3>2. NumberLaws(K) /\ Interprets(K, C, p, w)
      BY DEF Numbers, CalculusLaws
    <3>. QED BY <1>1, <2>3, <3>1, <3>2, MakeBinaryLater, RuleAssumption
  <2>. QED BY <1>9, <2>2, <2>4 DEF sum, Plus, a
<1>11. /\ w[total.id] = IF sweep.adj[child] = NoNode THEN x ELSE Plus(K, w[sweep.adj[child]], x)
       /\ w[total.id] # K.none
  BY <1>9, <1>10
<1> HIDE DEF total
<1>. QED BY <1>3, <1>7, <1>11

(* The stage x about to be added to the adjoint of a child not visited yet.   *)
Adding(K, n, sweep, c, child, C, p, w, s, t, stage, x) ==
  /\ Sweeping(n, sweep) /\ c \in 0..n /\ child \in 1..c
  /\ Reads(K, n, C, p, w, s, t) /\ Valued(K, sweep, c, w)
  /\ x \in K.all \ {K.none} /\ Gives(K, sweep.arena, stage, C, w, x)
  /\ Keeps(AddTo(sweep, child, stage).arena, C)
LEMMA AddToTotal ==
  ASSUME NEW K, NEW n, NEW sweep, NEW c, NEW child, NEW C, NEW p, NEW w, NEW s, NEW t,
         NEW stage, NEW x, Adding(K, n, sweep, c, child, C, p, w, s, t, stage, x)
  PROVE  /\ Valued(K, AddTo(sweep, child, stage), c, w)
         /\ Total(K, Terms(K, AddTo(sweep, child, stage), c, w, t), n)
              = Plus(K, Total(K, Terms(K, sweep, c, w, t), n), Times(K, x, t[child]))
<1> SUFFICES ASSUME Sweeping(n, sweep), c \in 0..n, child \in 1..c,
                    Reads(K, n, C, p, w, s, t), Valued(K, sweep, c, w),
                    x \in K.all \ {K.none}, Gives(K, sweep.arena, stage, C, w, x),
                    Keeps(AddTo(sweep, child, stage).arena, C)
             PROVE  /\ Valued(K, AddTo(sweep, child, stage), c, w)
                    /\ Total(K, Terms(K, AddTo(sweep, child, stage), c, w, t), n)
                         = Plus(K, Total(K, Terms(K, sweep, c, w, t), n), Times(K, x, t[child]))
  BY DEF Adding
<1> DEFINE next == AddTo(sweep, child, stage)
           a == sweep.adj[child]
<1>0. Numbers(K, C, p, w) /\ n \in Nat /\ child \in 1..n /\ Stage(sweep.arena, stage)
        /\ CalculusLaws(K)
  BY DEF Reads, Sweeping, Sound, Arenas, Gives, Numbers, CalculusLaws
<1>1. Moves(n, sweep, next) /\ Sound(sweep.arena)
  BY <1>0, AddToMoves DEF Sweeping
<1>2. Keeps(sweep.arena, C)
  BY <1>1, KeepsTransitive DEF Moves
<1>3. a # NoNode => w[a] # K.none
  BY DEF Valued
<1>4. PICK id \in Nat \ {NoNode} :
         /\ next.adj = [sweep.adj EXCEPT ![child] = id]
         /\ w[id] = IF a = NoNode THEN x ELSE Plus(K, w[a], x)
         /\ w[id] # K.none
  BY <1>0, <1>3, AddToGives
<1>5. /\ DOMAIN sweep.adj = 1..n /\ DOMAIN next.adj = 1..n
      /\ NumbersTo(K, n, Terms(K, sweep, c, w, t))
      /\ a # NoNode => w[a] \in K.all
      /\ \A v \in 1..n : t[v] \in K.all
      /\ \A v \in 1..n : next.arena.nodes[v].op = sweep.arena.nodes[v].op
  <2>1. \A v \in 1..n : v \in Ids(sweep.arena)
    BY <1>0, <1>2, TermsAreNumbers
  <2>2. \A v \in 1..n : next.arena.nodes[v].op = sweep.arena.nodes[v].op
    BY <1>1, <2>1 DEF Moves, Keeps, Extends
  <2>3. DOMAIN next.adj = 1..n
    BY <1>1 DEF Moves, Sweeping
  <2>. QED BY <1>0, <1>2, <2>2, <2>3, TermsAreNumbers
<1> HIDE DEF next
<1>6. Valued(K, next, c, w)
  <2> SUFFICES ASSUME NEW u \in 1..c, next.adj[u] # NoNode PROVE w[next.adj[u]] # K.none
    BY DEF Valued
  <2>1. u \in 1..n
    BY <1>0
  <2>. QED BY <1>4, <1>5, <2>1 DEF Valued
<1>7. Adds(K, n, child, Times(K, x, t[child]), Terms(K, sweep, c, w, t), Terms(K, next, c, w, t))
  <2>1. t[child] \in K.all /\ Times(K, x, t[child]) \in K.all
    BY <1>0, <1>5, SumsAreNumbers
  <2>2. Terms(K, next, c, w, t)[child] = Times(K, w[id], t[child])
    BY <1>0, <1>4, <1>5 DEF Terms, Live
  <2>3. Terms(K, sweep, c, w, t)[child] = IF a = NoNode THEN K.of[Zero]
          ELSE Times(K, w[a], t[child])
    BY <1>0, <1>5 DEF Terms, Live
  <2>4. Terms(K, next, c, w, t)[child] =
          Plus(K, Terms(K, sweep, c, w, t)[child], Times(K, x, t[child]))
    <3>1. CASE a = NoNode
      BY <1>0, <1>4, <2>1, <2>2, <2>3, <3>1, PlusZero
    <3>2. CASE a # NoNode
      <4>1. w[id] = Plus(K, w[a], x) /\ w[a] \in K.all
        BY <1>4, <1>5, <3>2
      <4>2. Times(K, Plus(K, w[a], x), t[child]) =
              Plus(K, Times(K, w[a], t[child]), Times(K, x, t[child]))
        BY <1>0, <2>1, <4>1 DEF CalculusLaws, RingLaws
      <4>. QED BY <2>2, <2>3, <3>2, <4>1, <4>2
    <3>. QED BY <3>1, <3>2
  <2>5. \A j \in 1..n : j # child => Terms(K, next, c, w, t)[j] = Terms(K, sweep, c, w, t)[j]
    BY <1>0, <1>4, <1>5 DEF Terms, Live
  <2>. QED BY <1>0, <1>5, <2>1, <2>4, <2>5 DEF Adds
<1>8. Total(K, Terms(K, next, c, w, t), n) =
        Plus(K, Total(K, Terms(K, sweep, c, w, t), n), Times(K, x, t[child]))
  BY <1>0, <1>7, TotalMore
<1>. QED BY <1>6, <1>8 DEF next

(* A sweep about to visit v, whose sum is a value x. *)
Visits(K, n, sweep, v, C, p, w, s, t, x) ==
  /\ Sweeping(n, sweep) /\ v \in 1..n /\ Keeps(sweep.arena, C) /\ Reads(K, n, C, p, w, s, t)
  /\ Total(K, Terms(K, sweep, v, w, t), n) = x /\ x # K.none

LEMMA VisitReads ==
  ASSUME NEW K, NEW n, NEW sweep, NEW v, NEW C, NEW p, NEW w, NEW s, NEW t, NEW x,
         Visits(K, n, sweep, v, C, p, w, s, t, x)
  PROVE  LET node == sweep.arena.nodes[v]
         IN  /\ n \in Nat /\ Sound(sweep.arena) /\ Numbers(K, C, p, w) /\ CalculusLaws(K)
             /\ v \in Ids(sweep.arena) /\ 1..n \subseteq Ids(sweep.arena) /\ v \in Nat
             /\ \A u \in 1..n : w[u] \in K.all /\ t[u] \in K.all
             /\ node.op \in {"Const", "Var"} \cup UnaryOps \cup BinaryOps
             /\ node.op \in UnaryOps \cup BinaryOps => node.a \in 1..(v - 1)
             /\ node.op \in BinaryOps => node.b \in 1..(v - 1)
             /\ w[v] = NodeValue(K, node, w, p) /\ t[v] = Tangent(K, node, w, t, s)
             /\ Valued(K, sweep, v, w)
             /\ sweep.adj[v] # NoNode =>
                  /\ sweep.adj[v] \in Ids(sweep.arena) /\ w[sweep.adj[v]] \in K.all \ {K.none}
                  /\ t[v] # K.none
<1> DEFINE node == sweep.arena.nodes[v]
<1>1. /\ n \in Nat /\ Sound(sweep.arena) /\ Numbers(K, C, p, w) /\ CalculusLaws(K)
      /\ v \in 1..n /\ 1..n \subseteq Ids(sweep.arena) /\ v \in Nat
         /\ Len(sweep.arena.nodes) \in Nat
  BY DEF Visits, Sweeping, Reads, Numbers, CalculusLaws, Sound, Arenas, Ids
<1>2. /\ DOMAIN sweep.adj = 1..n
      /\ NumbersTo(K, n, Terms(K, sweep, v, w, t))
      /\ \A u \in 1..n : sweep.adj[u] # NoNode =>
           sweep.adj[u] \in Ids(sweep.arena) /\ w[sweep.adj[u]] \in K.all
      /\ \A u \in 1..n : t[u] \in K.all
  BY TermsAreNumbers DEF Visits
<1>3. 1..n \subseteq Ids(C) /\ \A u \in 1..n : w[u] \in K.all
  BY <1>1, IdsGrow DEF Visits, Numbers, Interprets, Ids
<1>4. C.nodes[v] = node
  BY <1>1 DEF Visits, Keeps, Extends
<1>5. w[v] = NodeValue(K, node, w, p) /\ t[v] = Tangent(K, node, w, t, s)
  BY <1>1, <1>3, <1>4 DEF Visits, Reads, Numbers, Interprets, Differentiates
<1>6. /\ node.op \in {"Const", "Var"} \cup UnaryOps \cup BinaryOps
      /\ node.op \in UnaryOps \cup BinaryOps => node.a \in 1..(v - 1)
      /\ node.op \in BinaryOps => node.b \in 1..(v - 1)
  <2>1. node \in Node
    BY <1>1, NodeOf
  <2>. QED BY <1>1, <2>1 DEF Node, Sound, WellFormed
<1>7. \A u \in 1..v : sweep.adj[u] # NoNode => w[sweep.adj[u]] # K.none /\ t[u] # K.none
  <2> SUFFICES ASSUME NEW u \in 1..v, sweep.adj[u] # NoNode
               PROVE w[sweep.adj[u]] # K.none /\ t[u] # K.none
    OBVIOUS
  <2>1. u \in 1..n
    BY <1>1
  <2>2. Terms(K, sweep, v, w, t)[u] = Times(K, w[sweep.adj[u]], t[u])
    BY <1>2, <2>1 DEF Terms, Live
  <2>3. Terms(K, sweep, v, w, t)[u] # K.none
    BY <1>1, <1>2, <2>1, TotalAbsorbs DEF Visits
  <2>. QED BY <1>1, <1>2, <2>1, <2>2, <2>3, ValuesMultiply
<1>. QED BY <1>1, <1>2, <1>3, <1>5, <1>6, <1>7 DEF Valued

(* With v visited its term is gone from the sum, unless it is a leaf.        *)
LEMMA Retired ==
  ASSUME NEW K, NEW n, NEW sweep, NEW v, NEW C, NEW p, NEW w, NEW s, NEW t, NEW x,
         Visits(K, n, sweep, v, C, p, w, s, t, x)
  PROVE  /\ x = IF sweep.adj[v] = NoNode \/ sweep.arena.nodes[v].op = "Var"
                THEN Total(K, Terms(K, sweep, v - 1, w, t), n)
                ELSE Plus(K, Total(K, Terms(K, sweep, v - 1, w, t), n),
                       Times(K, w[sweep.adj[v]], t[v]))
         /\ Total(K, Terms(K, sweep, v - 1, w, t), n) \in K.all
<1> DEFINE now == Terms(K, sweep, v, w, t)
           later == Terms(K, sweep, v - 1, w, t)
           y == Times(K, w[sweep.adj[v]], t[v])
<1>1. n \in Nat /\ v \in 1..n /\ CalculusLaws(K) /\ Total(K, now, n) = x
  BY VisitReads DEF Visits
<1>2. /\ DOMAIN sweep.adj = 1..n /\ NumbersTo(K, n, now) /\ NumbersTo(K, n, later)
      /\ sweep.adj[v] # NoNode => w[sweep.adj[v]] \in K.all
      /\ t[v] \in K.all
  BY <1>1, TermsAreNumbers DEF Visits
<1>3. Total(K, later, n) \in K.all
  BY <1>1, <1>2, TotalNumber
<1>4. \A j \in 1..n : j # v => now[j] = later[j]
  BY <1>1, <1>2 DEF Terms, Live
<1>5. CASE sweep.adj[v] = NoNode \/ sweep.arena.nodes[v].op = "Var"
  <2>1. now[v] = later[v]
    BY <1>1, <1>2, <1>5 DEF Terms, Live
  <2>2. AgreeOn(1..n, now, later)
    BY <1>4, <2>1 DEF AgreeOn
  <2> HIDE DEF now, later
  <2>. QED BY <1>1, <1>2, <1>3, <1>5, <2>2, TotalSame DEF later
<1>6. CASE ~(sweep.adj[v] = NoNode \/ sweep.arena.nodes[v].op = "Var")
  <2>1. now[v] = y /\ later[v] = K.of[Zero]
    BY <1>1, <1>2, <1>6 DEF Terms, Live
  <2>2. y \in K.all /\ Plus(K, K.of[Zero], y) = y
    BY <1>1, <1>2, <1>6, SumsAreNumbers, PlusZero
  <2> HIDE DEF now, later, y
  <2>3. Adds(K, n, v, y, later, now)
    BY <1>1, <1>2, <1>4, <2>1, <2>2 DEF Adds
  <2>4. Total(K, now, n) = Plus(K, Total(K, later, n), y)
    BY <1>1, <2>3, TotalMore
  <2>. QED BY <1>1, <1>3, <1>6, <2>4 DEF later, y
<1>. QED BY <1>5, <1>6

LEMMA AtValue ==
  ASSUME NEW K, NEW w, NEW B, NEW v, v \in Ids(B)
  PROVE  ValueOf(K, w, At(v)) = w[v]
  BY DEF ValueOf, At, Pending, Ids, NoNode

LEMMA UnaryAddsUp ==
  ASSUME NEW K, NEW n, NEW sweep, NEW v, NEW C, NEW p, NEW w, NEW s, NEW t, NEW x,
         Visits(K, n, sweep, v, C, p, w, s, t, x), Keeps(SweepAt(sweep, v).arena, C),
         sweep.adj[v] # NoNode, sweep.arena.nodes[v].op \in UnaryOps
  PROVE  Total(K, Terms(K, SweepAt(sweep, v), v - 1, w, t), n) = x
<1> DEFINE B == sweep.arena
           node == B.nodes[v]
           op == node.op
           a == node.a
           A == w[sweep.adj[v]]
           slope == K.slope[op][w[a]]
           rest == Total(K, Terms(K, sweep, v - 1, w, t), n)
           part == Partial(B, op, At(a), At(v))
           stage == After(At(sweep.adj[v]), "Mul", part)
<1>0. op \in UnaryOps /\ op \notin BinaryOps /\ op \notin {"Const", "Var"}
  BY OpAssumption
<1>1. /\ n \in Nat /\ Sound(B) /\ Numbers(K, C, p, w) /\ CalculusLaws(K) /\ v \in Nat
      /\ v \in 1..n /\ 1..n \subseteq Ids(B) /\ a \in 1..(v - 1)
      /\ w[a] \in K.all /\ t[a] \in K.all
      /\ w[v] = NodeValue(K, node, w, p) /\ t[v] = Tangent(K, node, w, t, s)
         /\ t[v] \in K.all \ {K.none}
      /\ Valued(K, sweep, v, w) /\ A \in K.all \ {K.none} /\ sweep.adj[v] \in Ids(B)
  BY <1>0, VisitReads DEF Visits
<1>2. w[v] = On1(K, op, w[a]) /\ t[v] = Times(K, slope, t[a])
  BY <1>0, <1>1 DEF NodeValue, Tangent
<1>3. slope \in K.all
  BY <1>0, <1>1, SlopeNumber DEF Numbers
<1>4. slope # K.none /\ slope = RowOf(K, op, w[a])
  <2>1. slope # K.none
    BY <1>1, <1>2, <1>3, ValuesMultiply
  <2>. QED BY <1>0, <1>1, <2>1 DEF Numbers, CalculusLaws, SlopeLaws
<1>5. /\ Names(B, At(a)) /\ Names(B, At(v)) /\ Names(B, At(sweep.adj[v]))
      /\ ValueOf(K, w, At(a)) = w[a] /\ ValueOf(K, w, At(v)) = w[v]
      /\ ValueOf(K, w, At(sweep.adj[v])) = A
  <2>1. \A u \in Ids(B) : Names(B, At(u)) /\ ValueOf(K, w, At(u)) = w[u]
    BY <1>1, NodeNames, AtValue
  <2>2. a \in Ids(B) /\ v \in Ids(B)
    BY <1>1
  <2>. QED BY <1>1, <2>1, <2>2
<1>6. Gives(K, B, part, C, w, slope)
  <2>1. Gives(K, B, part, C, w, RowOf(K, op, ValueOf(K, w, At(a))))
    BY <1>0, <1>1, <1>2, <1>5, PartialGives
  <2>. QED BY <1>4, <1>5, <2>1
<1>7. Gives(K, B, stage, C, w, Times(K, A, slope)) /\ Times(K, A, slope) \in K.all \ {K.none}
  <2> HIDE DEF part
  <2>1. Gives(K, B, stage, C, w, On2(K, "Mul", A, slope))
    BY <1>1, <1>5, <1>6, PipelineGives, RuleAssumption
  <2>2. Times(K, A, slope) \in K.all \ {K.none}
    BY <1>1, <1>3, <1>4, SumsAreNumbers, ValuesMultiply
  <2>. QED BY <2>1, <2>2 DEF Times
<1>8. SweepAt(sweep, v) = AddTo(sweep, a, stage)
  BY <1>0 DEF SweepAt, SweepUnary
<1>9. x = Plus(K, rest, Times(K, A, t[v]))
  BY <1>0, Retired
<1> HIDE DEF stage
<1>10. Total(K, Terms(K, AddTo(sweep, a, stage), v - 1, w, t), n) =
         Plus(K, rest, Times(K, Times(K, A, slope), t[a]))
  <2>1. v - 1 \in 0..n /\ Valued(K, sweep, v - 1, w)
    BY <1>1 DEF Valued
  <2>2. Keeps(AddTo(sweep, a, stage).arena, C)
    BY <1>8
  <2>3. Sweeping(n, sweep) /\ Reads(K, n, C, p, w, s, t)
    BY DEF Visits
  <2> DEFINE c == v - 1
             x1 == Times(K, A, slope)
  <2>4. c \in 0..n /\ a \in 1..c /\ Valued(K, sweep, c, w) /\ x1 \in K.all \ {K.none}
        /\ Gives(K, B, stage, C, w, x1)
    BY <1>1, <1>7, <2>1
  <2> HIDE DEF c, x1, a
  <2>5. Total(K, Terms(K, AddTo(sweep, a, stage), c, w, t), n)
          = Plus(K, Total(K, Terms(K, sweep, c, w, t), n), Times(K, x1, t[a]))
    <3> HIDE DEF A, slope, B
    <3>1. Adding(K, n, sweep, c, a, C, p, w, s, t, stage, x1)
      BY <2>2, <2>3, <2>4 DEF B, Adding
    <3>. QED BY <3>1, AddToTotal
  <2>. QED BY <2>5 DEF c, x1, a
<1>11. Times(K, Times(K, A, slope), t[a]) = Times(K, A, t[v])
  <2> DEFINE y == t[a]
  <2>1. y \in K.all /\ t[v] = Times(K, slope, y) /\ A \in K.all
    BY <1>1, <1>2
  <2> HIDE DEF y, A, slope
  <2>2. Times(K, Times(K, A, slope), y) = Times(K, A, Times(K, slope, y))
    BY <1>1, <1>3, <2>1, NumbersAdd
  <2>. QED BY <2>1, <2>2 DEF y
<1>. QED BY <1>8, <1>9, <1>10, <1>11

(* Both contributions of a two-operand node, in the arena that its partials  *)
(* have left; they may be the same node's.                                   *)
LEMMA ContributionsAddUp ==
  ASSUME NEW K, NEW n, NEW sweep, Sweeping(n, sweep), NEW c \in 0..n, NEW a \in 1..c,
         NEW b \in 1..c,
         NEW C, NEW p, NEW w, NEW s, NEW t, Reads(K, n, C, p, w, s, t), Valued(K, sweep, c, w),
         NEW e, Names(sweep.arena, e),
         NEW dl, Gives(K, sweep.arena, dl, C, w, ValueOf(K, w, dl.e)),
         NEW dr, Stage(dl.arena, dr),
         Keeps(ThenProduct(AddProduct(sweep, a, dr.arena, e, dl.e), b, e, dr.e).arena, C),
         NEW x1, x1 = Times(K, ValueOf(K, w, e), ValueOf(K, w, dl.e)), x1 \in K.all \ {K.none},
         NEW x2, x2 = Times(K, ValueOf(K, w, e), ValueOf(K, w, dr.e)), x2 \in K.all \ {K.none}
  PROVE  LET next == ThenProduct(AddProduct(sweep, a, dr.arena, e, dl.e), b, e, dr.e)
             old == Total(K, Terms(K, sweep, c, w, t), n)
         IN  Total(K, Terms(K, next, c, w, t), n)
               = Plus(K, Plus(K, old, Times(K, x1, t[a])), Times(K, x2, t[b]))
<1> DEFINE B == sweep.arena
           first == Form(dr.arena, "Mul", e, dl.e)
           once == AddTo(sweep, a, first)
           second == Form(once.arena, "Mul", e, dr.e)
           twice == AddTo(once, b, second)
<1>0. ThenProduct(AddProduct(sweep, a, dr.arena, e, dl.e), b, e, dr.e) = twice
  BY DEF ThenProduct, AddProduct
<1>1. Sound(B) /\ Numbers(K, C, p, w) /\ n \in Nat /\ a \in 1..n /\ b \in 1..n
        /\ Keeps(twice.arena, C)
  BY <1>0 DEF Sweeping, Sound, Arenas, Reads
<1>2. Keeps(B, dl.arena) /\ Names(dl.arena, dl.e) /\ Sound(dl.arena)
  BY DEF Gives, Stage, Keeps
<1>3. Keeps(dl.arena, dr.arena) /\ Names(dr.arena, dr.e) /\ Sound(dr.arena)
  BY DEF Stage, Keeps
<1>4. /\ Keeps(B, dr.arena) /\ Keeps(dr.arena, dr.arena)
      /\ Names(dr.arena, dl.e) /\ Names(dr.arena, e)
  BY <1>1, <1>2, <1>3, NamesKept, KeepsTransitive, ExtendsRefl
<1>5. Stage(B, first) /\ Stage(dr.arena, first)
  BY <1>1, <1>3, <1>4, FormStage, RuleAssumption
<1>6. Gives(K, B, first, C, w, x1)
  <2>1. Gives(K, B, first, C, w, On2(K, "Mul", ValueOf(K, w, e), ValueOf(K, w, dl.e)))
    BY <1>1, <1>4, FormGives, RuleAssumption
  <2>. QED BY <2>1 DEF Times
<1> HIDE DEF first
<1>7. Moves(n, sweep, once) /\ Keeps(first.arena, once.arena)
  BY <1>1, <1>5, AddToMoves
<1> HIDE DEF once
<1>8. Keeps(dr.arena, once.arena) /\ Keeps(B, once.arena) /\ Sound(once.arena)
      /\ Sweeping(n, once)
  BY <1>3, <1>5, <1>7, KeepsTransitive DEF Moves, Sweeping, Stage
<1>9. Names(once.arena, e) /\ Names(once.arena, dr.e) /\ Keeps(once.arena, once.arena)
  BY <1>1, <1>3, <1>8, NamesKept, ExtendsRefl
<1>10. Stage(once.arena, second)
  BY <1>8, <1>9, FormStage, RuleAssumption
<1>11. Gives(K, once.arena, second, C, w, x2)
  <2>1. Gives(K, once.arena, second, C, w, On2(K, "Mul", ValueOf(K, w, e), ValueOf(K, w, dr.e)))
    BY <1>1, <1>8, <1>9, FormGives, RuleAssumption
  <2>. QED BY <2>1 DEF Times
<1> HIDE DEF second
<1>12. Moves(n, once, twice)
  BY <1>1, <1>8, <1>10, AddToMoves
<1> HIDE DEF twice
<1>13. Keeps(once.arena, C)
  BY <1>1, <1>8, <1>12, KeepsTransitive DEF Moves
<1>14. /\ Valued(K, once, c, w)
       /\ Total(K, Terms(K, once, c, w, t), n) =
            Plus(K, Total(K, Terms(K, sweep, c, w, t), n), Times(K, x1, t[a]))
  <2>1. Keeps(AddTo(sweep, a, first).arena, C)
    BY <1>13 DEF once
  <2>2. Adding(K, n, sweep, c, a, C, p, w, s, t, first, x1)
    BY <1>6, <2>1 DEF Adding
  <2>. QED BY <2>2, AddToTotal DEF once
<1>15. Total(K, Terms(K, twice, c, w, t), n) =
         Plus(K, Total(K, Terms(K, once, c, w, t), n), Times(K, x2, t[b]))
  <2>1. Keeps(AddTo(once, b, second).arena, C)
    BY <1>1 DEF twice
  <2> DEFINE more == AddTo(once, b, second)
  <2>2. Keeps(more.arena, C) /\ more = AddTo(once, b, second) /\ b \in 1..c
    BY <2>1
  <2> HIDE DEF more
  <2>3. Total(K, Terms(K, more, c, w, t), n)
          = Plus(K, Total(K, Terms(K, once, c, w, t), n), Times(K, x2, t[b]))
    <3>1. Adding(K, n, once, c, b, C, p, w, s, t, second, x2)
      BY <1>8, <1>11, <1>14, <2>2 DEF Adding
    <3>. QED BY <2>2, <3>1, AddToTotal
  <2>. QED BY <2>2, <2>3 DEF twice
<1>. QED BY <1>0, <1>14, <1>15

LEMMA BinaryAddsUp ==
  ASSUME NEW K, NEW n, NEW sweep, NEW v, NEW C, NEW p, NEW w, NEW s, NEW t, NEW x,
         Visits(K, n, sweep, v, C, p, w, s, t, x), Keeps(SweepAt(sweep, v).arena, C),
         sweep.adj[v] # NoNode, sweep.arena.nodes[v].op \in BinaryOps
  PROVE  Total(K, Terms(K, SweepAt(sweep, v), v - 1, w, t), n) = x
<1> DEFINE B == sweep.arena
           node == B.nodes[v]
           op == node.op
           a == node.a
           b == node.b
           e == At(sweep.adj[v])
           A == w[sweep.adj[v]]
           left == K.left[op][w[a]][w[b]]
           right == K.right[op][w[a]][w[b]]
           c == v - 1
           rest == Total(K, Terms(K, sweep, c, w, t), n)
           dl == LeftPartial(B, op, At(a), At(b), At(v))
           dr == RightPartial(dl.arena, op, At(a), At(b), At(v))
           next == ThenProduct(AddProduct(sweep, a, dr.arena, e, dl.e), b, e, dr.e)
<1>0. op \in BinaryOps /\ op \notin UnaryOps /\ op \notin {"Const", "Var"}
  BY OpAssumption
<1>1. /\ n \in Nat /\ Sound(B) /\ Numbers(K, C, p, w) /\ CalculusLaws(K) /\ v \in Nat
      /\ v \in 1..n /\ 1..n \subseteq Ids(B) /\ a \in 1..(v - 1) /\ b \in 1..(v - 1)
      /\ w[a] \in K.all /\ t[a] \in K.all /\ w[b] \in K.all /\ t[b] \in K.all
      /\ w[v] = NodeValue(K, node, w, p) /\ t[v] = Tangent(K, node, w, t, s)
         /\ t[v] \in K.all \ {K.none}
      /\ Valued(K, sweep, v, w) /\ A \in K.all \ {K.none} /\ sweep.adj[v] \in Ids(B)
  BY <1>0, VisitReads DEF Visits
<1>2. /\ w[v] = On2(K, op, w[a], w[b])
      /\ t[v] = Plus(K, Times(K, left, t[a]), Times(K, right, t[b]))
  BY <1>0, <1>1 DEF NodeValue, Tangent
<1>3. left \in K.all /\ right \in K.all
  BY <1>0, <1>1, SlopeNumber DEF Numbers
<1>4. /\ left # K.none /\ left = LeftOf(K, op, w[a], w[b])
      /\ right # K.none /\ right = RightOf(K, op, w[a], w[b])
  <2>1. Times(K, left, t[a]) \in K.all /\ Times(K, right, t[b]) \in K.all
    BY <1>1, <1>3, SumsAreNumbers
  <2>2. Times(K, left, t[a]) # K.none /\ Times(K, right, t[b]) # K.none
    BY <1>1, <1>2, <2>1, ValuesMultiply
  <2>3. left # K.none /\ right # K.none
    BY <1>1, <1>3, <2>2, ValuesMultiply
  <2>4. /\ left \in {K.none, LeftOf(K, op, w[a], w[b])}
        /\ right \in {K.none, RightOf(K, op, w[a], w[b])}
    <3> DEFINE x1 == w[a]
               x2 == w[b]
               o == op
    <3>1. x1 \in K.all /\ x2 \in K.all /\ o \in BinaryOps
      BY <1>0, <1>1
    <3> HIDE DEF x1, x2, o
    <3>2. /\ K.left[o][x1][x2] \in {K.none, LeftOf(K, o, x1, x2)}
          /\ K.right[o][x1][x2] \in {K.none, RightOf(K, o, x1, x2)}
      BY <1>1, <3>1 DEF CalculusLaws, SlopeLaws
    <3>. QED BY <3>2 DEF x1, x2, o
  <2>. QED BY <2>3, <2>4
<1>5. /\ Names(B, At(a)) /\ Names(B, At(b)) /\ Names(B, At(v)) /\ Names(B, e)
      /\ ValueOf(K, w, At(a)) = w[a] /\ ValueOf(K, w, At(b)) = w[b] /\ ValueOf(K, w, At(v)) = w[v]
      /\ ValueOf(K, w, e) = A
  <2>1. \A u \in Ids(B) : Names(B, At(u)) /\ ValueOf(K, w, At(u)) = w[u]
    BY <1>1, NodeNames, AtValue
  <2>2. a \in Ids(B) /\ b \in Ids(B) /\ v \in Ids(B)
    BY <1>1
  <2>. QED BY <1>1, <2>1, <2>2
<1> DEFINE l == At(a)
           r == At(b)
           f == At(v)
<1>6. ASSUME NEW D, Sound(D), Names(D, l), Names(D, r), Names(D, f)
      PROVE  /\ Gives(K, D, LeftPartial(D, op, l, r, f), C, w, left)
             /\ Gives(K, D, RightPartial(D, op, l, r, f), C, w, right)
  <2>1. ValueOf(K, w, f) = On2(K, op, ValueOf(K, w, l), ValueOf(K, w, r))
    BY <1>2, <1>5
  <2> HIDE DEF l, r, f
  <2>2. /\ Gives(K, D, LeftPartial(D, op, l, r, f), C, w,
             LeftOf(K, op, ValueOf(K, w, l), ValueOf(K, w, r)))
        /\ Gives(K, D, RightPartial(D, op, l, r, f), C, w,
             RightOf(K, op, ValueOf(K, w, l), ValueOf(K, w, r)))
    BY <1>0, <1>1, <1>6, <2>1, PartialsGive
  <2>. QED BY <1>4, <1>5, <2>2 DEF l, r
<1>7. Gives(K, B, dl, C, w, left)
  BY <1>1, <1>5, <1>6
<1>8. Keeps(B, dl.arena) /\ Sound(dl.arena)
  BY <1>7 DEF Gives, Stage, Keeps
<1>9. Gives(K, dl.arena, dr, C, w, right)
  <2> HIDE DEF dl
  <2>1. Names(dl.arena, l) /\ Names(dl.arena, r) /\ Names(dl.arena, f)
    BY <1>1, <1>5, <1>8, NamesKept
  <2>. QED BY <1>6, <1>8, <2>1
<1>10. SweepAt(sweep, v) = next
  BY <1>0 DEF SweepAt, SweepBinary, ContributeAfter, Contribute
<1>11. x = Plus(K, rest, Times(K, A, t[v])) /\ rest \in K.all
  BY <1>0, Retired
<1> HIDE DEF dr, dl, e
<1>12. Keeps(dr.arena, C) /\ Keeps(dl.arena, C)
  <2> DEFINE once == AddProduct(sweep, a, dr.arena, e, dl.e)
  <2>1. Names(dl.arena, dl.e) /\ Keeps(dl.arena, dr.arena) /\ Sound(dr.arena)
          /\ Names(dr.arena, dr.e)
    BY <1>7, <1>9 DEF Gives, Stage, Keeps
  <2>2. Names(dr.arena, dl.e) /\ Keeps(B, dr.arena)
    BY <1>1, <1>8, <2>1, NamesKept, KeepsTransitive
  <2>3. Names(dr.arena, e) /\ Keeps(dr.arena, dr.arena)
    BY <1>1, <1>5, <2>1, <2>2, NamesKept, ExtendsRefl
  <2> DEFINE first == Form(dr.arena, "Mul", e, dl.e)
  <2>4. Stage(B, first) /\ Stage(dr.arena, first)
    BY <1>1, <2>1, <2>2, <2>3, FormStage, RuleAssumption
  <2>5. once = AddTo(sweep, a, first)
    BY DEF AddProduct
  <2> HIDE DEF first, once
  <2>6. Moves(n, sweep, once) /\ Keeps(first.arena, once.arena)
    <3>1. Sweeping(n, sweep) /\ a \in 1..n
      BY <1>1 DEF Visits
    <3> HIDE DEF a
    <3>. QED BY <2>4, <2>5, <3>1, AddToMoves
  <2>7. Keeps(dr.arena, once.arena) /\ Sound(once.arena) /\ Keeps(B, once.arena)
          /\ Sweeping(n, once)
    BY <2>1, <2>4, <2>6, KeepsTransitive DEF Moves, Sweeping, Stage
  <2>8. Stage(once.arena, Form(once.arena, "Mul", e, dr.e))
    <3>1. Names(once.arena, e) /\ Names(once.arena, dr.e) /\ Keeps(once.arena, once.arena)
      BY <1>1, <1>5, <2>1, <2>7, NamesKept, ExtendsRefl
    <3>. QED BY <2>7, <3>1, FormStage, RuleAssumption
  <2>9. next = AddTo(once, b, Form(once.arena, "Mul", e, dr.e))
    BY DEF ThenProduct, AddProduct, once
  <2> HIDE DEF next
  <2>10. Moves(n, once, next)
    <3>1. b \in 1..n
      BY <1>1
    <3> HIDE DEF b
    <3>. QED BY <2>7, <2>8, <2>9, <3>1, AddToMoves
  <2>11. Keeps(once.arena, C)
    BY <1>10, <2>7, <2>10, KeepsTransitive DEF Moves
  <2>12. Keeps(dr.arena, C)
    BY <2>1, <2>7, <2>11, KeepsTransitive
  <2>. QED BY <1>8, <2>1, <2>12, KeepsTransitive
<1>13. ValueOf(K, w, dl.e) = left /\ ValueOf(K, w, dr.e) = right
  BY <1>4, <1>7, <1>9, <1>12 DEF Gives
<1> DEFINE x1 == Times(K, A, left)
           x2 == Times(K, A, right)
<1>14. x1 \in K.all \ {K.none} /\ x2 \in K.all \ {K.none}
  <2>1. A \in K.all /\ A # K.none
    BY <1>1
  <2>3. CalculusLaws(K)
    BY <1>1
  <2> HIDE DEF A, left, right
  <2>2. left \in K.all /\ left # K.none /\ right \in K.all /\ right # K.none
    BY ONLY <1>3, <1>4
  <2>4. x1 \in K.all /\ x2 \in K.all
    BY ONLY <2>1, <2>2, <2>3, SumsAreNumbers DEF x1, x2
  <2>. QED BY ONLY <2>1, <2>2, <2>3, <2>4, ValuesMultiply DEF x1, x2
<1>15. Total(K, Terms(K, next, c, w, t), n) =
         Plus(K, Plus(K, rest, Times(K, x1, t[a])), Times(K, x2, t[b]))
  <2>1. c \in 0..n /\ a \in 1..c /\ b \in 1..c /\ Valued(K, sweep, c, w)
    BY <1>1 DEF Valued
  <2>2. Sweeping(n, sweep) /\ Reads(K, n, C, p, w, s, t) /\ Keeps(next.arena, C)
    BY <1>10 DEF Visits
  <2>3. Stage(dl.arena, dr) /\ Gives(K, B, dl, C, w, ValueOf(K, w, dl.e)) /\ Names(sweep.arena, e)
    BY <1>5, <1>7, <1>9, <1>13 DEF Gives
  <2>4. x1 = Times(K, ValueOf(K, w, e), ValueOf(K, w, dl.e))
          /\ x2 = Times(K, ValueOf(K, w, e), ValueOf(K, w, dr.e))
    BY <1>5, <1>13
  <2> HIDE DEF c, a, b, x1, x2, left, right
  <2>. QED BY <1>14, <2>1, <2>2, <2>3, <2>4, ContributionsAddUp
<1>16. Plus(K, Plus(K, rest, Times(K, x1, t[a])), Times(K, x2, t[b])) =
         Plus(K, rest, Times(K, A, t[v]))
  <2> DEFINE ta == t[a]
             tb == t[b]
             tv == t[v]
             y1 == Times(K, left, ta)
             y2 == Times(K, right, tb)
  <2>0. /\ ta \in K.all /\ tb \in K.all /\ A \in K.all /\ left \in K.all /\ right \in K.all
        /\ rest \in K.all /\ tv = Plus(K, y1, y2) /\ CalculusLaws(K)
    BY <1>1, <1>2, <1>3, <1>11
  <2> HIDE DEF ta, tb, tv, A, left, right, rest
  <2>1. y1 \in K.all /\ y2 \in K.all /\ Times(K, A, y1) \in K.all /\ Times(K, A, y2) \in K.all
    BY <2>0, SumsAreNumbers
  <2>2. Times(K, x1, ta) = Times(K, A, y1) /\ Times(K, x2, tb) = Times(K, A, y2)
    BY <2>0, NumbersAdd
  <2> HIDE DEF y1, y2, x1, x2
  <2>3. Times(K, A, tv) = Plus(K, Times(K, A, y1), Times(K, A, y2))
    BY <2>0, <2>1, NumbersAdd
  <2>4. Plus(K, Plus(K, rest, Times(K, A, y1)), Times(K, A, y2))
          = Plus(K, rest, Plus(K, Times(K, A, y1), Times(K, A, y2)))
    BY <2>0, <2>1, NumbersAdd
  <2>. QED BY <2>2, <2>3, <2>4 DEF ta, tb, tv
<1>. QED BY <1>10, <1>11, <1>15, <1>16

(* "reverse_gradient": what a visit takes off the sum of a node it gives to  *)
(* the sum of its operands.                                                  *)
LEMMA VisitAddsUp ==
  ASSUME NEW K, NEW n, NEW sweep, NEW v, NEW C, NEW p, NEW w, NEW s, NEW t, NEW x,
         Visits(K, n, sweep, v, C, p, w, s, t, x), Keeps(SweepAt(sweep, v).arena, C)
  PROVE  Total(K, Terms(K, SweepAt(sweep, v), v - 1, w, t), n) = x
<1> DEFINE op == sweep.arena.nodes[v].op
           rest == Total(K, Terms(K, sweep, v - 1, w, t), n)
<1>1. /\ op \in {"Const", "Var"} \cup UnaryOps \cup BinaryOps /\ CalculusLaws(K)
      /\ t[v] = Tangent(K, sweep.arena.nodes[v], w, t, s)
      /\ sweep.adj[v] # NoNode => w[sweep.adj[v]] \in K.all \ {K.none}
  BY VisitReads
<1>2. CASE sweep.adj[v] = NoNode \/ op = "Var"
  <2>1. SweepAt(sweep, v) = sweep
    BY <1>2, OpAssumption DEF SweepAt
  <2>. QED BY <1>2, <2>1, Retired
<1>3. CASE sweep.adj[v] # NoNode /\ op = "Const"
  <2>1. SweepAt(sweep, v) = sweep
    BY <1>3, OpAssumption DEF SweepAt
  <2>2. t[v] = K.of[Zero]
    BY <1>1, <1>3, OpAssumption DEF Tangent
  <2>3. Times(K, w[sweep.adj[v]], t[v]) = K.of[Zero]
    BY <1>1, <1>3, <2>2 DEF CalculusLaws, RingLaws
  <2>4. x = Plus(K, rest, K.of[Zero]) /\ rest \in K.all
    BY <1>3, <2>3, Retired
  <2>5. Plus(K, rest, K.of[Zero]) = rest
    <3>1. Plus(K, rest, K.of[Zero]) = Plus(K, K.of[Zero], rest)
      BY <1>1, <2>4, NumbersClosed, NumbersAdd
    <3>. QED BY <1>1, <2>4, <3>1, PlusZero
  <2>. QED BY <2>1, <2>4, <2>5
<1>4. CASE sweep.adj[v] # NoNode /\ op \in UnaryOps
  BY <1>4, UnaryAddsUp
<1>5. CASE sweep.adj[v] # NoNode /\ op \in BinaryOps
  BY <1>5, BinaryAddsUp
<1>. QED BY <1>1, <1>2, <1>3, <1>4, <1>5

LEMMA BeginAddsUp ==
  ASSUME NEW K, NEW B, Sound(B), NEW r \in Ids(B), NEW C, Keeps(BeginSweep(B, r).arena, C),
         NEW n, n = Len(B.nodes), NEW p, NEW w, NEW s, NEW t, Reads(K, n, C, p, w, s, t)
  PROVE  Total(K, Terms(K, BeginSweep(B, r), n, w, t), n) = t[r]
<1> DEFINE one == Constant(B, One)
           sweep == BeginSweep(B, r)
           terms == Terms(K, sweep, n, w, t)
<1>1. sweep = [arena |-> one.arena, adj |-> [v \in Ids(B) |-> IF v = r THEN one.id ELSE NoNode]]
  BY DEF BeginSweep
<1>2. /\ Answers(B, one) /\ n \in Nat /\ r \in 1..n /\ CalculusLaws(K)
      /\ EqualIsSame /\ Interprets(K, C, p, w)
  BY ConstantAnswers, ScalarAssumption
  DEF Reads, Numbers, CalculusLaws, NumberLaws, EqualIsSame, Sound, Arenas, Ids
<1>3. w[one.id] = K.of[One]
  <2>1. Keeps(one.arena, C)
    BY <1>1
  <2>2. Numbers(K, C, p, w)
    BY DEF Reads
  <2>. QED BY <2>1, <2>2, ConstantReads, ScalarAssumption
<1>4. one.id # NoNode /\ t[r] \in K.all
  BY <1>2 DEF Answers, Ids, NoNode, Reads, Differentiates
<1> HIDE DEF one
<1>5. Times(K, K.of[One], t[r]) = t[r]
  <2>1. CASE t[r] = K.none
    BY <1>2, <2>1, AbsorbedBySums, NumbersClosed
  <2>2. CASE t[r] # K.none
    BY <1>2, <1>4, <2>2 DEF CalculusLaws, RingLaws
  <2>. QED BY <2>1, <2>2
<1>6. terms[r] = t[r] /\ \A v \in 1..n : v # r => terms[v] = K.of[Zero]
  BY <1>1, <1>2, <1>3, <1>4, <1>5 DEF Terms, Live, Ids
<1> HIDE DEF terms
<1>7. Total(K, terms, n) = t[r]
  BY <1>2, <1>4, <1>6, TotalSingle
<1>. QED BY <1>7 DEF terms

(* The leaves' terms are all that is left when every node has been visited.  *)
LEMMA CollectGives ==
  ASSUME NEW K, NEW n \in Nat \ {0}, NEW sweep, Sweeping(n, sweep), NodesOnce(sweep.arena),
         NEW C, Keeps(Collect(sweep).arena, C), NEW p, NEW w, NEW s, NEW t,
         Reads(K, n, C, p, w, s, t),
         s \in 1..Len(sweep.arena.symbols),
         NEW x, x = Total(K, Terms(K, sweep, 0, w, t), n), x # K.none
  PROVE  w[Collect(sweep).partial[s]] = x
<1> DEFINE B == sweep.arena
           zero == Constant(B, Zero)
           Leaves(k) == {v \in DOMAIN sweep.adj : /\ B.nodes[v].op = "Var"
                                                  /\ B.nodes[v].slot = k
                                                  /\ sweep.adj[v] # NoNode}
           terms == Terms(K, sweep, 0, w, t)
           answer == Collect(sweep)
<1>0. Sound(B) /\ CalculusLaws(K) /\ EqualIsSame /\ Interprets(K, C, p, w)
  BY DEF Sweeping, Reads, Numbers, CalculusLaws, NumberLaws, EqualIsSame
<1>1. /\ answer.arena = zero.arena
      /\ answer.partial[s] = IF Leaves(s) = {} THEN zero.id
                             ELSE sweep.adj[CHOOSE v \in Leaves(s) : TRUE]
  BY DEF Collect
<1>2. Answers(B, zero) /\ Keeps(zero.arena, C)
  BY <1>0, <1>1, ConstantAnswers, ScalarAssumption
<1>3. w[zero.id] = K.of[Zero]
  BY <1>0, <1>2, ConstantLater, ScalarAssumption
<1>4. Keeps(B, C)
  BY <1>0, <1>2, KeepsTransitive DEF Answers
<1> HIDE DEF answer
<1>5. /\ DOMAIN sweep.adj = 1..n /\ NumbersTo(K, n, terms)
      /\ \A v \in 1..n : sweep.adj[v] # NoNode => w[sweep.adj[v]] \in K.all
      /\ \A v \in 1..n : t[v] \in K.all /\ v \in Ids(B)
  BY <1>4, TermsAreNumbers
<1>6. \A v \in 1..n : terms[v] # K.none
  BY <1>0, <1>5, TotalAbsorbs
<1>7. ASSUME NEW v \in 1..n
      PROVE  terms[v] = IF v \in Leaves(s) THEN w[sweep.adj[v]] ELSE K.of[Zero]
  <2>1. CASE ~Live(sweep, 0, v)
    BY <1>5, <2>1 DEF Terms, Live
  <2>2. CASE Live(sweep, 0, v)
    <3> DEFINE A == w[sweep.adj[v]]
    <3>1. B.nodes[v].op = "Var" /\ sweep.adj[v] # NoNode /\ terms[v] = Times(K, A, t[v])
      BY <1>5, <2>2 DEF Terms, Live
    <3>2. A \in K.all /\ t[v] \in K.all
      BY <1>5, <3>1
    <3>3. A # K.none
      BY <1>0, <1>6, <3>1, <3>2, ValuesMultiply
    <3>4. t[v] = IF B.nodes[v].slot = s THEN K.of[One] ELSE K.of[Zero]
      <4>1. C.nodes[v] = B.nodes[v]
        BY <1>4, <1>5 DEF Keeps, Extends
      <4>2. t[v] = Tangent(K, C.nodes[v], w, t, s)
        BY DEF Reads, Differentiates
      <4>. QED BY <3>1, <4>1, <4>2, OpAssumption DEF Tangent
    <3> HIDE DEF A
    <3>5. Times(K, A, K.of[One]) = A /\ Times(K, A, K.of[Zero]) = K.of[Zero]
      BY <1>0, <3>2, <3>3 DEF CalculusLaws, RingLaws
    <3>. QED BY <1>5, <3>1, <3>4, <3>5 DEF A
  <2>. QED BY <2>1, <2>2
<1>8. \A u, v \in Leaves(s) : u = v
  <2> SUFFICES ASSUME NEW u \in Leaves(s), NEW v \in Leaves(s) PROVE u = v
    OBVIOUS
  <2>1. u \in Ids(B) /\ v \in Ids(B)
    BY <1>5
  <2>2. SameNode(B.nodes[u], B.nodes[v])
    BY <1>0, <2>1, OpAssumption DEF SameNode, Sound, WellFormed
  <2>. QED BY <2>1, <2>2 DEF NodesOnce
<1>9. CASE Leaves(s) = {}
  <2>1. 1 \in 1..n /\ \A v \in 1..n : terms[v] = K.of[Zero]
    BY <1>7, <1>9
  <2> HIDE DEF terms
  <2>2. Total(K, terms, n) = K.of[Zero]
    BY <1>0, <2>1, TotalSingle, NumbersClosed
  <2>. QED BY <1>1, <1>3, <1>9, <2>2 DEF terms, answer
<1>10. CASE Leaves(s) # {}
  <2> DEFINE v == CHOOSE u \in Leaves(s) : TRUE
  <2>1. v \in Leaves(s)
    BY <1>10
  <2> HIDE DEF v
  <2>2. v \in 1..n /\ terms[v] = w[sweep.adj[v]] /\ \A u \in 1..n : u # v => terms[u] = K.of[Zero]
    BY <1>5, <1>7, <1>8, <2>1
  <2>3. answer.partial[s] = sweep.adj[v] /\ terms[v] \in K.all
    BY <1>1, <1>5, <1>10, <2>2 DEF v, NumbersTo
  <2> HIDE DEF terms, Leaves
  <2>4. Total(K, terms, n) = terms[v]
    BY <1>0, <2>2, <2>3, TotalSingle
  <2>. QED BY <2>2, <2>3, <2>4 DEF terms, answer
<1>. QED BY <1>9, <1>10

-----------------------------------------------------------------------------
(* The interpreter's values of an arena, with their tangents, are those of   *)
(* every longer one.                                                         *)
LEMMA OwnReads ==
  ASSUME NEW K, CalculusLaws(K), NEW C, Sound(C), NEW p, p \in PointFor(K, C),
         NEW n \in 0..Len(C.nodes), NEW s
  PROVE  Reads(K, n, C, p, ValuesAt(K, C, p), s, TangentsAt(K, C, ValuesAt(K, C, p), s, n))
<1> DEFINE w == ValuesAt(K, C, p)
<1>1. Interprets(K, C, p, w)
  BY ValuesAnswers DEF CalculusLaws, NumberLaws
<1> HIDE DEF w
<1>2. NumbersTo(K, n, w)
  BY <1>1 DEF Interprets, NumbersTo, Ids, Sound, Arenas
<1>3. Differentiates(K, C, n, w, s, TangentsAt(K, C, w, s, n))
  BY <1>2, TangentsAnswer
<1>. QED BY <1>1, <1>3 DEF Reads, Numbers, w

LEMMA ReadsKept ==
  ASSUME NEW K, NEW B, Sound(B), NEW C, Keeps(B, C), NEW n, NEW m, n \in 0..Len(B.nodes), n <= m,
         NEW p, NEW s, NEW v, NEW t, Reads(K, n, B, p, v, s, t), NEW w, NEW u,
         Reads(K, m, C, p, w, s, u)
  PROVE  AgreeOn(Ids(B), v, w) /\ AgreeOn(1..n, t, u)
<1>1. Interprets(K, B, p, v) /\ Interprets(K, C, p, w) /\ m \in Nat /\ n \in Nat
        /\ Len(B.nodes) \in Nat
  BY DEF Reads, Numbers, Sound, Arenas
<1>2. AgreeOn(Ids(B), v, w)
  <2>1. \A x \in Ids(B) : w[x] = v[x]
    BY <1>1, ValuesKept
  <2>. QED BY <2>1 DEF AgreeOn
<1>3. AgreeOn(1..n, v, w)
  BY <1>1, <1>2 DEF AgreeOn, Ids
<1>4. AgreeOn(1..n, t, u)
  BY <1>1, <1>3, TangentsKept DEF Reads, Keeps
<1>. QED BY <1>2, <1>4

(* So a sum that a sweep has kept is one in any arena since. *)
LEMMA SumsKept ==
  ASSUME NEW K, NEW n, NEW sweep, Sweeping(n, sweep), NEW C, Keeps(sweep.arena, C),
         NEW p, NEW s, NEW v, NEW t, Reads(K, n, sweep.arena, p, v, s, t),
         NEW w, NEW u, Reads(K, n, C, p, w, s, u), NEW c
  PROVE  t = u /\ Total(K, Terms(K, sweep, c, v, t), n) = Total(K, Terms(K, sweep, c, w, u), n)
<1> DEFINE B == sweep.arena
<1>1. Sound(B) /\ n \in 0..Len(B.nodes) /\ n \in Nat /\ Keeps(B, B)
  BY ExtendsRefl DEF Sweeping, Sound, Arenas
<1>2. AgreeOn(Ids(B), v, w) /\ AgreeOn(1..n, t, u)
  <2>1. n <= n /\ Reads(K, n, B, p, v, s, t) /\ Keeps(B, C)
    BY <1>1
  <2> HIDE DEF B
  <2>. QED BY <1>1, <2>1, ReadsKept
<1>3. t = u
  <2>1. t \in Seq(K.all) /\ u \in Seq(K.all) /\ Len(t) = n /\ Len(u) = n
    BY DEF Reads, Differentiates
  <2>. QED BY <1>1, <1>2, <2>1 DEF AgreeOn
<1>4. /\ DOMAIN sweep.adj = 1..n /\ NumbersTo(K, n, Terms(K, sweep, c, v, t))
      /\ \A i \in 1..n : sweep.adj[i] # NoNode => sweep.adj[i] \in Ids(B)
  BY <1>1, TermsAreNumbers
<1>5. AgreeOn(1..n, Terms(K, sweep, c, v, t), Terms(K, sweep, c, w, u))
  BY <1>2, <1>3, <1>4 DEF AgreeOn, Terms, Live
<1>6. CalculusLaws(K)
  BY DEF Reads, Numbers
<1>. QED BY <1>1, <1>3, <1>4, <1>5, <1>6, TotalSame

-----------------------------------------------------------------------------
(* A gradient names the derivatives of node r, in whatever comes after it.   *)
NamesSlopes(K, r, k, g) ==
  \A C, p, w, s, u :
    Keeps(g.arena, C) /\ Reads(K, r, C, p, w, s, u) /\ s \in 1..k /\ u[r] # K.none =>
      w[g.partial[s]] = u[r]

(* reverse_gradient() does: the sweep's sum is the root's tangent at its     *)
(* start, each visit keeps it, and what is left of it at the end is one      *)
(* variable's adjoint.                                                       *)
LEMMA ReverseSums ==
  ASSUME NEW K, NEW n, NEW B, Sound(B), NEW r \in Ids(B), NEW f, SweepRun(n, B, r, f),
         NEW C, Keeps(f[n].arena, C), NEW p, NEW w, NEW s, NEW t, Reads(K, n, C, p, w, s, t),
         t[r] # K.none
  PROVE  Total(K, Terms(K, f[n], 0, w, t), n) = t[r]
<1>0. /\ n \in Nat /\ n = Len(B.nodes) /\ f[0] = BeginSweep(B, r)
      /\ \A k \in 1..n : f[k] = SweepAt(f[k - 1], n + 1 - k)
      /\ \A k \in 0..n : Sweeping(n, f[k]) /\ Sound(f[k].arena)
  BY DEF SweepRun, Sweeping
<1>1. \A k \in 0..n : Keeps(f[n - k].arena, C)
  <2> DEFINE S == {k \in Nat : k <= n => Keeps(f[n - k].arena, C)}
  <2>1. 0 \in S
    BY <1>0
  <2>2. ASSUME NEW k \in Nat, k \in S PROVE k + 1 \in S
    <3> SUFFICES ASSUME k + 1 <= n PROVE Keeps(f[n - (k + 1)].arena, C)
      BY <1>0
    <3> DEFINE j == n - k
    <3>1. /\ j \in 1..n /\ j \in 0..n /\ j - 1 \in 0..n /\ n + 1 - j \in 1..n
          /\ n - (k + 1) = j - 1 /\ k <= n
      BY <1>0
    <3>2. Keeps(f[j].arena, C)
      BY <2>2, <3>1
    <3> HIDE DEF j
    <3>3. Moves(n, f[j - 1], f[j])
      BY <1>0, <3>1, SweepAtMoves
    <3>4. Keeps(f[j - 1].arena, C)
      BY <1>0, <3>1, <3>2, <3>3, KeepsTransitive DEF Moves
    <3>. QED BY <3>1, <3>4
  <2> HIDE DEF S
  <2>3. \A k \in Nat : k \in S
    BY <2>1, <2>2, SetInduction
  <2>. QED BY <1>0, <2>3 DEF S
<1>2. \A k \in 0..n : Keeps(f[k].arena, C)
  <2> SUFFICES ASSUME NEW k \in 0..n PROVE Keeps(f[k].arena, C)
    OBVIOUS
  <2>1. n - k \in 0..n /\ n - (n - k) = k
    BY <1>0
  <2>. QED BY <1>1, <2>1
<1> DEFINE S == {k \in Nat : k <= n => Total(K, Terms(K, f[k], n - k, w, t), n) = t[r]}
<1>3. 0 \in S
  <2>1. Keeps(BeginSweep(B, r).arena, C) /\ n - 0 = n
    BY <1>0, <1>2
  <2>2. Total(K, Terms(K, BeginSweep(B, r), n, w, t), n) = t[r]
    BY <1>0, <2>1, BeginAddsUp
  <2>. QED BY <1>0, <2>1, <2>2
<1>4. ASSUME NEW k \in Nat, k \in S PROVE k + 1 \in S
  <2> SUFFICES ASSUME k + 1 <= n PROVE Total(K, Terms(K, f[k + 1], n - (k + 1), w, t), n) = t[r]
    OBVIOUS
  <2>0. k <= n => Total(K, Terms(K, f[k], n - k, w, t), n) = t[r]
    BY <1>4
  <2> HIDE DEF S
  <2> DEFINE v == n - k
             sweep == f[k]
             next == f[k + 1]
  <2>1. /\ k + 1 \in 1..n /\ k \in 0..n /\ k + 1 \in 0..n /\ (k + 1) - 1 = k
        /\ n + 1 - (k + 1) = v /\ v \in 1..n /\ n - (k + 1) = v - 1
    <3>1. n \in Nat
      BY <1>0
    <3>. QED BY ONLY <3>1, k \in Nat, k + 1 <= n DEF v
  <2>2. next = SweepAt(sweep, v)
    BY <1>0, <2>1
  <2>3. Sweeping(n, sweep) /\ Keeps(sweep.arena, C) /\ Keeps(next.arena, C)
    BY <1>0, <1>2, <2>1
  <2>4. Total(K, Terms(K, sweep, v, w, t), n) = t[r]
    BY <1>0, <2>0, <2>1
  <2> HIDE DEF v, sweep, next
  <2>5. Visits(K, n, sweep, v, C, p, w, s, t, t[r])
    BY <2>1, <2>3, <2>4 DEF Visits
  <2>6. Total(K, Terms(K, next, v - 1, w, t), n) = t[r]
    BY <2>2, <2>3, <2>5, VisitAddsUp
  <2>. QED BY <2>1, <2>6 DEF next
<1> HIDE DEF S
<1>5. n \in S
  BY <1>0, <1>3, <1>4, SetInduction
<1>. QED BY <1>0, <1>5 DEF S

LEMMA ReverseNamesSlopes ==
  ASSUME NEW K, CalculusLaws(K), NEW B, Sound(B), NodesOnce(B), NEW r \in Ids(B)
  PROVE  NamesSlopes(K, r, Len(B.symbols), ReverseGradient(B, r))
<1> DEFINE n == Len(B.nodes)
           g == ReverseGradient(B, r)
<1>1. PICK f : SweepRun(n, B, r, f) /\ g = Collect(f[n])
  BY ReverseRuns
<1> HIDE DEF g
<1>2. n \in Nat \ {0} /\ r \in 1..n
  BY DEF Ids, Sound, Arenas
<1>3. Sweeping(n, f[n]) /\ Keeps(B, f[n].arena) /\ Sound(f[n].arena)
  BY <1>1, <1>2 DEF SweepRun, Sweeping
<1>4. NodesOnce(f[n].arena) /\ f[n].arena.symbols = B.symbols
  BY <1>3 DEF Keeps
<1>5. Keeps(f[n].arena, g.arena)
  BY <1>1, <1>3, CollectAnswers DEF Partials
<1> SUFFICES ASSUME NEW C, NEW p, NEW w, NEW s, NEW u, Keeps(g.arena, C),
                    Reads(K, r, C, p, w, s, u),
                    s \in 1..Len(B.symbols), u[r] # K.none
             PROVE  w[g.partial[s]] = u[r]
  BY DEF NamesSlopes, g
<1>6. Keeps(f[n].arena, C) /\ Keeps(B, C) /\ Sound(C)
  BY <1>3, <1>5, KeepsTransitive DEF Keeps
<1> DEFINE t == TangentsAt(K, C, w, s, n)
<1>7. n \in 0..Len(C.nodes) /\ NumbersTo(K, n, w)
  BY <1>2, <1>6 DEF Keeps, Extends, Reads, Numbers, Interprets, NumbersTo, Sound, Arenas
<1>8. Reads(K, n, C, p, w, s, t)
  BY <1>6, <1>7, TangentsAnswer DEF Reads
<1> HIDE DEF t, n
<1>9. Keeps(C, C) /\ r \in 0..Len(C.nodes) /\ r <= n
  BY <1>2, <1>6, ExtendsRefl DEF Reads
<1>10. AgreeOn(1..r, u, t)
  BY <1>6, <1>8, <1>9, ReadsKept
<1>11. u[r] = t[r]
  BY <1>2, <1>10 DEF AgreeOn
<1>12. Total(K, Terms(K, f[n], 0, w, t), n) = t[r]
  BY <1>1, <1>6, <1>8, <1>11, ReverseSums
<1> DEFINE sweep == f[n]
<1>13. w[Collect(sweep).partial[s]] = t[r]
  <2>1. /\ Sweeping(n, sweep) /\ NodesOnce(sweep.arena) /\ Keeps(Collect(sweep).arena, C)
        /\ s \in 1..Len(sweep.arena.symbols) /\ t[r] # K.none
        /\ t[r] = Total(K, Terms(K, sweep, 0, w, t), n)
    BY <1>1, <1>3, <1>4, <1>11, <1>12
  <2> HIDE DEF sweep
  <2>. QED BY <1>2, <1>8, <2>1, CollectGives
<1>. QED BY <1>1, <1>11, <1>13

-----------------------------------------------------------------------------
(* A number with its derivative, and what is computed of two of them.        *)
LEMMA SmoothReads ==
  /\ Smooth.all = Scalar /\ Smooth.none = NaN /\ \A c \in Scalar : Smooth.of[c] = c
  /\ \A op \in UnaryOps, u \in Scalar :
       On1(Smooth, op, u) = Apply1(op, u) /\ Smooth.slope[op][u] = Slope(op, u)
  /\ \A op \in BinaryOps, l, r \in Scalar :
       /\ On2(Smooth, op, l, r) = Apply2(op, l, r)
       /\ Smooth.left[op][l][r] = SlopeLeft(op, l, r)
          /\ Smooth.right[op][l][r] = SlopeRight(op, l, r)
BY DEF Smooth, Scalars, On1, On2

LEMMA DualReads ==
  /\ Duals.all = DualNumber /\ Duals.none = <<NaN, NaN>>
  /\ \A c \in Scalar : Duals.of[c] = Pair(c, Zero)
  /\ \A op \in UnaryOps, u \in DualNumber :
       On1(Duals, op, u) = Pair(Apply1(op, u[1]), Carried(Slope(op, u[1]), u[2]))
  /\ \A op \in BinaryOps, l, r \in DualNumber :
       On2(Duals, op, l, r) =
         Pair(Apply2(op, l[1], r[1]),
              Chained(SlopeLeft(op, l[1], r[1]), l[2], SlopeRight(op, l[1], r[1]), r[2]))
BY DEF Duals, On1, On2

LEMMA PairReads ==
  ASSUME NaN \in Scalar, NEW x \in Scalar, NEW y \in Scalar
  PROVE  /\ Pair(x, y) \in DualNumber
         /\ Pair(x, y) = Duals.none <=> x = NaN \/ y = NaN
         /\ Pair(x, y) # Duals.none => Pair(x, y)[1] = x /\ Pair(x, y)[2] = y
BY DualReads DEF Pair, DualNumber

LEMMA DualParts ==
  ASSUME NaN \in Scalar, NEW u \in DualNumber
  PROVE  /\ u[1] \in Scalar /\ u[2] \in Scalar /\ u = Pair(u[1], u[2])
         /\ u = Duals.none <=> u[1] = NaN
         /\ u = Duals.none <=> u[2] = NaN
BY DualReads DEF Pair, DualNumber

(* What is computed of scalars is what their laws say. *)
LEMMA SmoothClosed ==
  ASSUME CalculusLaws(Smooth)
  PROVE  /\ NaN \in Scalar /\ NaN # Zero /\ NaN # One
         /\ \A op \in UnaryOps, u \in Scalar : Apply1(op, u) \in Scalar /\ Slope(op, u) \in Scalar
         /\ \A op \in BinaryOps, l, r \in Scalar :
              /\ Apply2(op, l, r) \in Scalar
              /\ SlopeLeft(op, l, r) \in Scalar /\ SlopeRight(op, l, r) \in Scalar
         /\ \A op \in UnaryOps : Apply1(op, NaN) = NaN
         /\ \A op \in BinaryOps, u \in Scalar : Apply2(op, NaN, u) = NaN
            /\ Apply2(op, u, NaN) = NaN
         /\ \A x, y \in Scalar : Plus(Smooth, x, y) \in Scalar /\ Times(Smooth, x, y) \in Scalar
<1>1. NaN \in Scalar /\ NaN # Zero /\ NaN # One
  BY NumbersClosed, SmoothReads, ScalarAssumption
<1>2. \A op \in UnaryOps, u \in Scalar : Apply1(op, u) \in Scalar /\ Slope(op, u) \in Scalar
  <2>1. \A op \in UnaryOps, u \in Scalar : On1(Smooth, op, u) \in Scalar
          /\ Smooth.slope[op][u] \in Scalar
    BY NumbersClosed, SlopeNumber, SmoothReads
  <2>. QED BY <2>1, SmoothReads
<1>3. \A op \in BinaryOps, l, r \in Scalar :
         /\ Apply2(op, l, r) \in Scalar
         /\ SlopeLeft(op, l, r) \in Scalar /\ SlopeRight(op, l, r) \in Scalar
  <2> SUFFICES ASSUME NEW op \in BinaryOps, NEW l \in Scalar, NEW r \in Scalar
               PROVE  /\ Apply2(op, l, r) \in Scalar
                      /\ SlopeLeft(op, l, r) \in Scalar /\ SlopeRight(op, l, r) \in Scalar
    OBVIOUS
  <2>1. l \in Smooth.all /\ r \in Smooth.all /\ Smooth.all = Scalar
    BY SmoothReads
  <2>2. On2(Smooth, op, l, r) \in Smooth.all
    BY <2>1, NumbersClosed
  <2>3. Smooth.left[op][l][r] \in Smooth.all /\ Smooth.right[op][l][r] \in Smooth.all
    BY <2>1, SlopeNumber
  <2>. QED BY <2>1, <2>2, <2>3, SmoothReads
<1>4. /\ \A op \in UnaryOps : Apply1(op, NaN) = NaN
      /\ \A op \in BinaryOps, u \in Scalar : Apply2(op, NaN, u) = NaN /\ Apply2(op, u, NaN) = NaN
  BY <1>1, SmoothReads DEF CalculusLaws, RingLaws, Absorbing
<1>5. \A x, y \in Scalar : Plus(Smooth, x, y) \in Scalar /\ Times(Smooth, x, y) \in Scalar
  BY NumbersClosed, SmoothReads
<1>. QED BY <1>1, <1>2, <1>3, <1>4, <1>5

LEMMA CarriedReads ==
  ASSUME CalculusLaws(Smooth), NEW x \in Scalar
  PROVE  /\ Carried(x, Zero) \in {Zero, NaN} /\ Carried(x, NaN) = NaN
         /\ \A y \in Scalar : Carried(x, y) \in Scalar
<1>1. Times(Smooth, x, Zero) \in {Zero, NaN}
  <2>1. CASE x = NaN
    BY <2>1, SmoothReads, AbsorbedBySums, ScalarAssumption
  <2>2. CASE x # NaN
    BY <2>2, SmoothReads, ScalarAssumption DEF CalculusLaws, RingLaws
  <2>. QED BY <2>1, <2>2
<1>2. Times(Smooth, x, NaN) = NaN
  BY SmoothReads, AbsorbedBySums
<1>. QED BY <1>1, <1>2, SmoothClosed DEF Carried

(* A dual without a derivative: operations keep it one, and a constant is. *)
Flat == {x \in DualNumber : x = Duals.none \/ x[2] = Zero}
LEMMA FlatClosed ==
  ASSUME CalculusLaws(Smooth), CalculusLaws(Duals)
  PROVE  Closed(Duals, Flat)
<1>0. NaN \in Scalar /\ Zero \in Scalar
  BY SmoothClosed, ScalarAssumption
<1>1. Flat \subseteq Duals.all /\ Duals.none \in Flat
  BY DualReads, NumbersClosed DEF Flat
<1>2. ASSUME NEW c \in Scalar PROVE Duals.of[c] \in Flat
  BY <1>0, DualReads, PairReads DEF Flat
<1>3. ASSUME NEW x \in Scalar, NEW y \in {Zero, NaN} PROVE Pair(x, y) \in Flat
  BY <1>0, PairReads DEF Flat
<1>4. ASSUME NEW op \in UnaryOps, NEW u \in Flat PROVE On1(Duals, op, u) \in Flat
  <2>1. CASE u = Duals.none
    BY <1>1, <2>1 DEF CalculusLaws, RingLaws, Absorbing
  <2>2. CASE u # Duals.none
    <3>1. u \in DualNumber /\ u[2] = Zero /\ u[1] \in Scalar
      BY <1>0, <2>2, DualParts DEF Flat
    <3>2. Apply1(op, u[1]) \in Scalar /\ Carried(Slope(op, u[1]), u[2]) \in {Zero, NaN}
      BY <3>1, SmoothClosed, CarriedReads
    <3>. QED BY <1>3, <3>1, <3>2, DualReads
  <2>. QED BY <2>1, <2>2
<1>5. ASSUME NEW op \in BinaryOps, NEW l \in Flat, NEW r \in Flat
      PROVE On2(Duals, op, l, r) \in Flat
  <2>1. CASE l = Duals.none \/ r = Duals.none
    BY <1>1, <2>1 DEF CalculusLaws, RingLaws, Absorbing
  <2>2. CASE l # Duals.none /\ r # Duals.none
    <3> DEFINE x == Carried(SlopeLeft(op, l[1], r[1]), l[2])
               y == Carried(SlopeRight(op, l[1], r[1]), r[2])
    <3>1. /\ l \in DualNumber /\ l[2] = Zero /\ l[1] \in Scalar
          /\ r \in DualNumber /\ r[2] = Zero /\ r[1] \in Scalar
      BY <1>0, <2>2, DualParts DEF Flat
    <3>2. Apply2(op, l[1], r[1]) \in Scalar /\ x \in {Zero, NaN} /\ y \in {Zero, NaN}
      BY <3>1, SmoothClosed, CarriedReads
    <3> HIDE DEF x, y
    <3>3. Plus(Smooth, x, y) \in {Zero, NaN}
      <4>1. x \in Smooth.all /\ y \in Smooth.all /\ Smooth.of[Zero] = Zero /\ Smooth.none = NaN
        BY <1>0, <3>2, SmoothReads
      <4>. QED BY <3>2, <4>1, PlusZero, AbsorbedBySums
    <3>4. On2(Duals, op, l, r) = Pair(Apply2(op, l[1], r[1]), Plus(Smooth, x, y))
      BY <3>1, DualReads DEF Chained, x, y
    <3>. QED BY <1>3, <3>2, <3>3, <3>4
  <2>. QED BY <2>1, <2>2
<1>. QED BY <1>1, <1>2, <1>4, <1>5 DEF Closed

(* Nothing, or no value. *)
Nought(K) == {K.none, K.of[Zero]}
LEMMA NoughtTimes ==
  ASSUME NEW K, CalculusLaws(K), NEW x \in K.all, NEW y \in Nought(K)
  PROVE  Times(K, x, y) \in Nought(K)
<1>1. CASE x = K.none \/ y = K.none
  BY <1>1, NumbersClosed, AbsorbedBySums DEF Nought
<1>2. CASE x # K.none /\ y # K.none
  BY <1>2 DEF CalculusLaws, RingLaws, Nought
<1>. QED BY <1>1, <1>2

LEMMA NoughtPlus ==
  ASSUME NEW K, CalculusLaws(K), NEW x \in Nought(K), NEW y \in Nought(K)
  PROVE  Plus(K, x, y) \in Nought(K)
<1>1. CASE x = K.none
  BY <1>1, NumbersClosed, AbsorbedBySums DEF Nought
<1>2. CASE x = K.of[Zero]
  BY <1>2, NumbersClosed, PlusZero DEF Nought
<1>. QED BY <1>1, <1>2 DEF Nought
-----------------------------------------------------------------------------
(* What the coupling pass has established of a set of nodes: each depends on *)
(* the symbols its operands do, and what it couples is in the rows.          *)
OperandSupport(support, u) == IF u = NoNode THEN {} ELSE support[u]
DependsOn(node, support) ==
  IF node.op = "Var" THEN {node.slot}
       ELSE OperandSupport(support, node.a) \cup OperandSupport(support, node.b)
Covers(node, own, left, right, R) ==
  /\ node.op \in (UnaryOps \ {"Neg"}) \cup (BinaryOps \ {"Add", "Mul", "Div"}) =>
       \A i, j \in own : j \in R[i]
  /\ node.op \in {"Mul", "Div"} => \A i \in left, j \in right : j \in R[i] /\ i \in R[j]
  /\ node.op = "Div" => \A i, j \in right : j \in R[i]
CoveredAt(node, own, support, R) ==
  /\ own = DependsOn(node, support)
  /\ Covers(node, own, OperandSupport(support, node.a), OperandSupport(support, node.b), R)
Covered(B, live, k, support, R) ==
  \A v \in 1..k : v \in live => CoveredAt(B.nodes[v], support[v], support, R)

LEMMA CoupleGrows ==
  ASSUME NEW m, NEW R \in [1..m -> SUBSET (1..m)], NEW left \in SUBSET (1..m),
         NEW right \in SUBSET (1..m)
  PROVE  /\ Couple(R, left, right) \in [1..m -> SUBSET (1..m)]
         /\ \A i \in 1..m : R[i] \subseteq Couple(R, left, right)[i]
         /\ \A i \in left, j \in right :
              j \in Couple(R, left, right)[i] /\ i \in Couple(R, left, right)[j]
<1>1. Couple(R, left, right) =
        [i \in 1..m |-> R[i] \cup (IF i \in left THEN right ELSE {})
                                \cup (IF i \in right THEN left ELSE {})]
  BY DEF Couple
<1>. QED BY <1>1

LEMMA NodeCouplesCovers ==
  ASSUME NEW m, NEW R \in [1..m -> SUBSET (1..m)], NEW node \in Node, NEW own \in SUBSET (1..m),
         NEW left \in SUBSET (1..m), NEW right \in SUBSET (1..m),
         NEW grown, grown = NodeCouples(R, node, own, left, right)
  PROVE  /\ \A i \in 1..m : R[i] \subseteq grown[i]
         /\ Covers(node, own, left, right, grown)
<1>1. CASE node.op \in {"Const", "Var", "Neg", "Add"}
  <2>1. grown = R
    BY <1>1, RuleAssumption, OpAssumption DEF NodeCouples, UnaryRules
  <2>2. node.op \notin (UnaryOps \ {"Neg"}) \cup (BinaryOps \ {"Add", "Mul", "Div"})
        /\ node.op \notin {"Mul", "Div"}
    BY <1>1, RuleAssumption, OpAssumption DEF UnaryRules, BinaryRules
  <2>. QED BY <2>1, <2>2 DEF Covers
<1>2. CASE node.op \in (UnaryOps \ {"Neg"}) \cup (BinaryOps \ {"Add", "Mul", "Div"})
  <2>1. grown = Couple(R, own, own)
    BY <1>2, RuleAssumption, OpAssumption DEF NodeCouples, UnaryRules
  <2>2. node.op \notin {"Mul", "Div"}
    BY <1>2, RuleAssumption, OpAssumption DEF UnaryRules
  <2>3. /\ \A i \in 1..m : R[i] \subseteq grown[i]
        /\ \A i, j \in own : j \in grown[i]
    BY ONLY <2>1, CoupleGrows, R \in [1..m -> SUBSET (1..m)], own \in SUBSET (1..m)
  <2>. QED BY <2>2, <2>3 DEF Covers
<1>3. CASE node.op = "Mul"
  <2>1. grown = Couple(R, left, right)
    BY <1>3, RuleAssumption DEF NodeCouples, UnaryRules
  <2>2. node.op \notin (UnaryOps \ {"Neg"}) \cup (BinaryOps \ {"Add", "Mul", "Div"})
          /\ node.op # "Div"
    BY <1>3, RuleAssumption DEF UnaryRules
  <2>3. /\ \A i \in 1..m : R[i] \subseteq grown[i]
        /\ \A i \in left, j \in right : j \in grown[i] /\ i \in grown[j]
    BY ONLY <2>1, CoupleGrows, R \in [1..m -> SUBSET (1..m)],
            left \in SUBSET (1..m), right \in SUBSET (1..m)
  <2>. QED BY <2>2, <2>3 DEF Covers
<1>4. CASE node.op = "Div"
  <2> DEFINE first == Couple(R, left, right)
  <2>1. grown = Couple(first, right, right)
    BY <1>4, RuleAssumption DEF NodeCouples, UnaryRules
  <2>2. node.op \notin (UnaryOps \ {"Neg"}) \cup (BinaryOps \ {"Add", "Mul", "Div"})
    BY <1>4, RuleAssumption DEF UnaryRules
  <2>3. /\ first \in [1..m -> SUBSET (1..m)] /\ \A i \in 1..m : R[i] \subseteq first[i]
        /\ \A i \in left, j \in right : j \in first[i] /\ i \in first[j]
    BY CoupleGrows
  <2> HIDE DEF first
  <2>4. /\ \A i \in 1..m : first[i] \subseteq grown[i]
        /\ \A i, j \in right : j \in grown[i]
    BY <2>1, <2>3, CoupleGrows
  <2>. QED BY <2>2, <2>3, <2>4 DEF Covers
<1>. QED BY <1>1, <1>2, <1>3, <1>4 DEF Node

(* One node of the pass: what it knew before it still does. *)
LEMMA CoupleAtCovers ==
  ASSUME NEW B, Sound(B), NEW v \in Ids(B), NEW live,
         NEW pass, Supported(Len(B.symbols), v - 1, pass),
         Covered(B, live, v - 1, pass.support, pass.rows),
         NEW next, next = CoupleAt(pass, B.nodes[v], v \in live)
  PROVE  Covered(B, live, v, next.support, next.rows)
<1> DEFINE m == Len(B.symbols)
           node == B.nodes[v]
           left == SupportOf(pass, node.a)
           right == SupportOf(pass, node.b)
           own == IF node.op = "Var" THEN {node.slot} ELSE left \cup right
<1>0. /\ m \in Nat /\ v \in Nat /\ v - 1 \in Nat /\ node \in Node
      /\ node.op = "Var" => node.slot \in 1..m
  BY NodeOf DEF Sound, Arenas, WellFormed, Ids
<1>1. /\ pass.support \in Seq(SUBSET (1..m)) /\ Len(pass.support) = v - 1
      /\ pass.rows \in [1..m -> SUBSET (1..m)]
      /\ pass = [support |-> pass.support, rows |-> pass.rows]
  BY DEF Supported, Pattern
<1>2. \A u \in 1..v : /\ B.nodes[u].a = NoNode \/ B.nodes[u].a \in 1..(u - 1)
                      /\ B.nodes[u].b = NoNode \/ B.nodes[u].b \in 1..(u - 1)
  BY DEF Sound, Arenas, WellFormed, Ids
<1>3. left \in SUBSET (1..m) /\ right \in SUBSET (1..m) /\ own \in SUBSET (1..m)
  BY <1>0, <1>1, <1>2 DEF SupportOf
<1>4. /\ \A u \in 1..(v - 1) : next.support[u] = pass.support[u]
      /\ \A i \in 1..m : pass.rows[i] \subseteq next.rows[i]
      /\ v \in live => next.support[v] = own /\ Covers(node, own, left, right, next.rows)
  <2>1. CASE v \in live
    <3> DEFINE grown == NodeCouples(pass.rows, node, own, left, right)
    <3>1. next = [support |-> Append(pass.support, own), rows |-> grown]
      BY <2>1 DEF CoupleAt, CoupledUnder, CoupledBy
    <3> HIDE DEF node, left, right, own
    <3>2. /\ \A i \in 1..m : pass.rows[i] \subseteq grown[i]
          /\ Covers(node, own, left, right, grown)
      BY <1>0, <1>1, <1>3, NodeCouplesCovers
    <3> HIDE DEF grown, m
    <3>3. next.support = Append(pass.support, own) /\ next.rows = grown
      BY <3>1
    <3>4. /\ \A u \in 1..(v - 1) : Append(pass.support, own)[u] = pass.support[u]
          /\ Append(pass.support, own)[v] = own
      BY <1>0, <1>1, <1>3
    <3>5. \A u \in 1..(v - 1) : next.support[u] = pass.support[u]
      BY <3>3, <3>4
    <3>6. next.support[v] = own
      BY <3>3, <3>4
    <3>7. /\ \A i \in 1..m : pass.rows[i] \subseteq next.rows[i]
          /\ Covers(node, own, left, right, next.rows)
      BY <3>2, <3>3
    <3>. QED BY <3>5, <3>6, <3>7
  <2>2. CASE v \notin live
    <3>1. next = [support |-> Append(pass.support, {}), rows |-> pass.rows]
      BY <1>1, <2>2 DEF CoupleAt
    <3>2. \A u \in 1..(v - 1) : Append(pass.support, {})[u] = pass.support[u]
      BY <1>0, <1>1
    <3>3. next.support = Append(pass.support, {}) /\ next.rows = pass.rows
      BY <3>1
    <3> HIDE DEF m, node, left, right, own
    <3>4. \A u \in 1..(v - 1) : next.support[u] = pass.support[u]
      BY <3>2, <3>3
    <3>. QED BY <2>2, <3>3, <3>4
  <2>. QED BY <2>1, <2>2
<1>5. \A u \in 1..v : u \notin 1..(v - 1) => u = v
  BY <1>0
<1> HIDE DEF m, own, left, right
<1>6. ASSUME NEW u \in 1..v, u \in live
      PROVE CoveredAt(B.nodes[u], next.support[u], next.support, next.rows)
  <2> DEFINE e == B.nodes[u]
  <2>0. \A x \in {e.a, e.b} : x # NoNode => x \in 1..(u - 1) /\ x \in 1..(v - 1)
    BY <1>0, <1>2
  <2>1. /\ OperandSupport(next.support, e.a) = OperandSupport(pass.support, e.a)
        /\ OperandSupport(next.support, e.b) = OperandSupport(pass.support, e.b)
    BY <1>4, <2>0 DEF OperandSupport
  <2>2. CASE u = v
    <3>1. /\ left = OperandSupport(next.support, e.a) /\ right = OperandSupport(next.support, e.b)
          /\ own = DependsOn(e, next.support)
      BY <2>1, <2>2 DEF left, right, own, SupportOf, OperandSupport, DependsOn
    <3>. QED BY <1>4, <1>6, <2>2, <3>1 DEF CoveredAt
  <2>3. CASE u \in 1..(v - 1)
    <3>1. CoveredAt(e, pass.support[u], pass.support, pass.rows)
      BY <1>6, <2>3 DEF Covered
    <3>2. /\ pass.support[u] \in SUBSET (1..m)
          /\ OperandSupport(pass.support, e.a) \in SUBSET (1..m)
             /\ OperandSupport(pass.support, e.b) \in SUBSET (1..m)
      BY <1>1, <2>0, <2>3 DEF OperandSupport
    <3>3. Covers(e, pass.support[u], OperandSupport(pass.support, e.a),
            OperandSupport(pass.support, e.b), next.rows)
      <4> DEFINE x == OperandSupport(pass.support, e.a)
                 y == OperandSupport(pass.support, e.b)
                 z == pass.support[u]
      <4> HIDE DEF x, y, z
      <4>1. Covers(e, z, x, y, pass.rows) /\ x \in SUBSET (1..m) /\ y \in SUBSET (1..m)
              /\ z \in SUBSET (1..m)
        BY <3>1, <3>2 DEF CoveredAt, x, y, z
      <4>2. Covers(e, z, x, y, next.rows)
        BY <1>4, <4>1 DEF Covers
      <4>. QED BY <4>2 DEF x, y, z
    <3>. QED BY <1>4, <2>1, <2>3, <3>1, <3>3 DEF CoveredAt, DependsOn
  <2>. QED BY <1>5, <2>2, <2>3
<1>. QED BY <1>6 DEF Covered

(* The rows of a pattern cover every node its function is made of. *)
IsCovered(B, r, live, support, R) ==
  /\ r \in live /\ live \subseteq Ids(B)
  /\ \A v \in live : Operands(B.nodes[v]) \subseteq live
  /\ \A v \in live : CoveredAt(B.nodes[v], support[v], support, R)
LEMMA PatternCovers ==
  ASSUME NEW B, Sound(B), NEW r \in Ids(B)
  PROVE  \E live, support : IsCovered(B, r, live, support, CouplingPattern(B, r))
<1> DEFINE n == Len(B.nodes)
           live == Reachable(B, {r})
<1>0. n \in Nat /\ Ids(B) = 1..n
  BY DEF Sound, Arenas, Ids
<1>1. PICK f : PatternRun(n, B, r, f) /\ CouplingPattern(B, r) = f[n].rows
  BY PatternRuns
<1>2. /\ {r} \subseteq live
      /\ \A v \in live : v \in 1..n /\ Operands(B.nodes[v]) \subseteq live
  <2> DEFINE below == [v \in Ids(B) |-> Operands(B.nodes[v])]
  <2>1. Descends(n, below) /\ {r} \in SUBSET (1..n)
    BY <1>0, OperandsDescend
  <2>2. live = Marked(below, {r})
    BY DEF Reachable
  <2> HIDE DEF below, live, n
  <2>3. {r} \subseteq live /\ \A v \in live : v \in 1..n /\ below[v] \subseteq live
    BY <2>1, <2>2, MarkedIsClosed
  <2>. QED BY <1>0, <2>3 DEF below
<1> DEFINE States == {f[k] : k \in 0..n}
           G == [k \in 0..n |-> {s \in States : Supported(Len(B.symbols), k, s)
                                                  /\ Covered(B, live, k, s.support, s.rows)}]
<1>3. \A k \in 0..n : Supported(Len(B.symbols), k, f[k]) /\ f[k] \in States
  BY <1>1 DEF PatternRun
<1>4. f[0] \in G[0]
  <2>1. Covered(B, live, 0, f[0].support, f[0].rows)
    BY DEF Covered
  <2> HIDE DEF live, States
  <2>. QED BY <1>0, <1>3, <2>1
<1>5. ASSUME NEW k \in 1..n, f[k - 1] \in G[k - 1] PROVE f[k] \in G[k]
  <2>1. k \in 0..n /\ k - 1 \in 0..n /\ k \in Ids(B)
    BY <1>0
  <2>2. Supported(Len(B.symbols), k - 1, f[k - 1])
          /\ Covered(B, live, k - 1, f[k - 1].support, f[k - 1].rows)
    BY <1>5, <2>1
  <2>3. f[k] = CoupleAt(f[k - 1], B.nodes[k], k \in live)
    BY <1>1 DEF PatternRun
  <2> HIDE DEF live, States
  <2>4. Covered(B, live, k, f[k].support, f[k].rows)
    BY <2>1, <2>2, <2>3, CoupleAtCovers
  <2>. QED BY <1>3, <2>1, <2>4
<1>6. f[n] \in G[n]
  <2> HIDE DEF G
  <2>1. \A k \in 0..n : f[k] \in G[k]
    BY <1>0, <1>4, <1>5, LoopInvariant
  <2>. QED BY <1>0, <2>1
<1>7. Covered(B, live, n, f[n].support, f[n].rows)
  <2> HIDE DEF live, States
  <2>. QED BY <1>0, <1>6
<1> HIDE DEF live, n, States, G
<1>8. IsCovered(B, r, live, f[n].support, CouplingPattern(B, r))
  BY <1>0, <1>1, <1>2, <1>7 DEF IsCovered, Covered
<1>. QED BY <1>8
-----------------------------------------------------------------------------
(* Where symbol i does not reach, nothing moves; where j does not, the       *)
(* tangent is nothing; and a tangent of an uncoupled pair does not move.     *)
Quiet(support, i, j, w, t, v) ==
  /\ i \notin support[v] => w[v] \in Flat
  /\ j \notin support[v] => t[v] \in Nought(Duals)
  /\ t[v] \in Flat

LEMMA NoughtFlat ==
  ASSUME CalculusLaws(Smooth), CalculusLaws(Duals)
  PROVE  /\ Nought(Duals) \subseteq Flat /\ Flat \subseteq Duals.all
         /\ Duals.of[Zero] \in Nought(Duals) /\ Duals.none \in Nought(Duals)
         /\ \A c \in Scalar : Duals.of[c] \in Flat
BY FlatClosed, ScalarAssumption DEF Closed, Nought

(* A product with a tangent does not move when neither does, or when the     *)
(* tangent is nothing.                                                       *)
LEMMA QuietProduct ==
  ASSUME CalculusLaws(Smooth), CalculusLaws(Duals),
         NEW slope \in Duals.all, NEW x \in Flat, slope \in Flat \/ x \in Nought(Duals)
  PROVE  Times(Duals, slope, x) \in Flat
           /\ (x \in Nought(Duals) => Times(Duals, slope, x) \in Nought(Duals))
<1>1. x \in Nought(Duals) => Times(Duals, slope, x) \in Nought(Duals)
  BY NoughtTimes
<1>2. slope \in Flat => Times(Duals, slope, x) \in Flat
  BY FlatClosed, RuleAssumption DEF Closed, Times
<1>. QED BY <1>1, <1>2, NoughtFlat

LEMMA QuietUnary ==
  ASSUME CalculusLaws(Smooth), CalculusLaws(Duals),
         NEW node, node.op \in UnaryOps, node.a # NoNode, node.b = NoNode,
         NEW support, NEW R, NEW own, CoveredAt(node, own, support, R), NEW i, NEW j,
         j \notin R[i],
         NEW w, NEW t, Quiet(support, i, j, w, t, node.a), w[node.a] \in Duals.all,
         NEW x, x = Times(Duals, Duals.slope[node.op][w[node.a]], t[node.a])
  PROVE  /\ i \notin own => On1(Duals, node.op, w[node.a]) \in Flat
         /\ j \notin own => x \in Nought(Duals)
         /\ x \in Flat
<1> DEFINE slope == Duals.slope[node.op][w[node.a]]
<1>1. own = support[node.a]
  BY OpAssumption DEF CoveredAt, DependsOn, OperandSupport
<1>2. slope \in Duals.all /\ (w[node.a] \in Flat => slope \in Flat)
  <2>1. slope \in Duals.all
    BY SlopeNumber
  <2>2. ASSUME w[node.a] \in Flat PROVE slope \in Flat
    BY <2>2, FlatClosed, SlopesClosed
  <2>. QED BY <2>1, <2>2
<1>3. i \notin own => On1(Duals, node.op, w[node.a]) \in Flat
  BY <1>1, FlatClosed DEF Closed, Quiet
<1>4. slope \in Flat \/ t[node.a] \in Nought(Duals)
  <2>1. CASE node.op = "Neg"
    <3>1. slope \in {Duals.none, Duals.of[MinusOne]}
      BY <2>1 DEF CalculusLaws, SlopeLaws, RowOf
    <3>. QED BY <3>1, NoughtFlat, RuleAssumption
  <2>2. CASE node.op # "Neg"
    <3>1. i \notin own \/ j \notin own
      BY <2>2 DEF CoveredAt, Covers
    <3>. QED BY <1>1, <1>2, <3>1 DEF Quiet
  <2>. QED BY <2>1, <2>2
<1>5. t[node.a] \in Flat /\ (j \notin own => t[node.a] \in Nought(Duals))
  BY <1>1 DEF Quiet
<1>6. x = Times(Duals, slope, t[node.a])
  OBVIOUS
<1> HIDE DEF slope
<1>. QED BY <1>2, <1>3, <1>4, <1>5, <1>6, QuietProduct

LEMMA QuietBinary ==
  ASSUME CalculusLaws(Smooth), CalculusLaws(Duals),
         NEW node, node.op \in BinaryOps, node.a # NoNode, node.b # NoNode,
         NEW support, NEW R, NEW own, CoveredAt(node, own, support, R), NEW i, NEW j,
         j \notin R[i],
         NEW w, NEW t, Quiet(support, i, j, w, t, node.a), Quiet(support, i, j, w, t, node.b),
         w[node.a] \in Duals.all, w[node.b] \in Duals.all,
         NEW x,
         x = Plus(Duals, Times(Duals, Duals.left[node.op][w[node.a]][w[node.b]], t[node.a]),
                         Times(Duals, Duals.right[node.op][w[node.a]][w[node.b]], t[node.b]))
  PROVE  /\ i \notin own => On2(Duals, node.op, w[node.a], w[node.b]) \in Flat
         /\ j \notin own => x \in Nought(Duals)
         /\ x \in Flat
<1> DEFINE u == w[node.a]
           v == w[node.b]
           left == Duals.left[node.op][u][v]
           right == Duals.right[node.op][u][v]
<1>1. own = support[node.a] \cup support[node.b] /\ u \in Duals.all /\ v \in Duals.all
  BY OpAssumption DEF CoveredAt, DependsOn, OperandSupport
<1>2. Covers(node, own, support[node.a], support[node.b], R)
  BY DEF CoveredAt, OperandSupport
<1>3. /\ i \notin support[node.a] => u \in Flat
      /\ i \notin support[node.b] => v \in Flat
      /\ j \notin support[node.a] => t[node.a] \in Nought(Duals)
      /\ j \notin support[node.b] => t[node.b] \in Nought(Duals)
      /\ t[node.a] \in Flat /\ t[node.b] \in Flat
  BY DEF Quiet
<1>4. /\ left \in {Duals.none, LeftOf(Duals, node.op, u, v)}
      /\ right \in {Duals.none, RightOf(Duals, node.op, u, v)}
  BY <1>1 DEF CalculusLaws, SlopeLaws
<1>5. left \in Duals.all /\ right \in Duals.all
  BY <1>1, SlopeNumber
<1>6. ASSUME u \in Flat, v \in Flat PROVE left \in Flat /\ right \in Flat
  BY <1>6, FlatClosed, SlopesClosed
<1>7. i \notin own => On2(Duals, node.op, u, v) \in Flat
  BY <1>1, <1>3, FlatClosed DEF Closed
<1>8. x = Plus(Duals, Times(Duals, left, t[node.a]), Times(Duals, right, t[node.b]))
  OBVIOUS
<1> HIDE DEF u, v, left, right
<1>9. /\ left \in Flat \/ t[node.a] \in Nought(Duals)
      /\ right \in Flat \/ t[node.b] \in Nought(Duals)
  <2>1. CASE node.op = "Add"
    <3>1. left \in {Duals.none, Duals.of[One]} /\ right \in {Duals.none, Duals.of[One]}
      BY <1>4, <2>1 DEF LeftOf, RightOf
    <3>. QED BY <3>1, NoughtFlat, ScalarAssumption
  <2>2. CASE node.op = "Mul"
    <3>1. left \in {Duals.none, v} /\ right \in {Duals.none, u}
      BY <1>4, <2>2 DEF LeftOf, RightOf
    <3>2. /\ i \notin support[node.b] \/ j \notin support[node.a]
          /\ i \notin support[node.a] \/ j \notin support[node.b]
      BY <1>2, <2>2 DEF Covers
    <3>. QED BY <1>3, <3>1, <3>2, NoughtFlat
  <2>3. CASE node.op = "Div"
    <3>1. /\ left \in {Duals.none, Over(Duals, Duals.of[One], v)}
          /\ right \in {Duals.none, Over(Duals, Negated(Duals, Over(Duals, u, v)), v)}
      BY <1>4, <2>3 DEF LeftOf, RightOf
    <3>2. /\ v \in Flat => Over(Duals, Duals.of[One], v) \in Flat
          /\ u \in Flat /\ v \in Flat =>
               Over(Duals, Negated(Duals, Over(Duals, u, v)), v) \in Flat
      BY FlatClosed, RuleAssumption, ScalarAssumption DEF Closed, Over, Negated
    <3>3. /\ i \notin support[node.b] \/ j \notin support[node.a]
          /\ i \notin support[node.a] \/ j \notin support[node.b]
          /\ i \notin support[node.b] \/ j \notin support[node.b]
      BY <1>2, <2>3 DEF Covers
    <3>. QED BY <1>3, <3>1, <3>2, <3>3, NoughtFlat
  <2>4. CASE node.op \notin {"Add", "Mul", "Div"}
    <3>1. i \notin own \/ j \notin own
      BY <1>2, <2>4 DEF Covers
    <3>. QED BY <1>1, <1>3, <1>6, <3>1
  <2>. QED BY <2>1, <2>2, <2>3, <2>4
<1> DEFINE y == Times(Duals, left, t[node.a])
           z == Times(Duals, right, t[node.b])
<1>10. /\ y \in Flat /\ (t[node.a] \in Nought(Duals) => y \in Nought(Duals))
       /\ z \in Flat /\ (t[node.b] \in Nought(Duals) => z \in Nought(Duals))
  BY <1>3, <1>5, <1>9, QuietProduct
<1> HIDE DEF y, z
<1>11. x = Plus(Duals, y, z)
  BY <1>8 DEF y, z
<1>12. x \in Flat
  <2>1. \A c, d \in Flat : On2(Duals, "Add", c, d) \in Flat
    BY FlatClosed, RuleAssumption DEF Closed
  <2>. QED BY <1>10, <1>11, <2>1 DEF Plus
<1>13. ASSUME j \notin own PROVE x \in Nought(Duals)
  BY <1>1, <1>3, <1>10, <1>11, <1>13, NoughtPlus
<1>. QED BY <1>7, <1>12, <1>13 DEF u, v

Uncoupled(B, r, live, support, R, i, j, C, p, w, t) ==
  /\ Sound(B) /\ IsCovered(B, r, live, support, R) /\ j \notin R[i]
  /\ Keeps(B, C) /\ p \in PointFor(Smooth, C)
     /\ Reads(Duals, Len(B.nodes), C, Moving(p, i), w, j, t)
LEMMA QuietNode ==
  ASSUME CalculusLaws(Smooth), CalculusLaws(Duals), NEW B, NEW r, NEW live, NEW support, NEW R,
         NEW i, NEW j, NEW C, NEW p, NEW w, NEW t,
         Uncoupled(B, r, live, support, R, i, j, C, p, w, t),
         NEW v \in live, \A u \in 1..(v - 1) : u \in live => Quiet(support, i, j, w, t, u)
  PROVE  Quiet(support, i, j, w, t, v)
<1> DEFINE node == B.nodes[v]
           n == Len(B.nodes)
<1>0. /\ Sound(B) /\ Keeps(B, C) /\ v \in Ids(B) /\ v \in 1..n /\ n \in Nat
      /\ Operands(node) \subseteq live /\ CoveredAt(node, support[v], support, R) /\ j \notin R[i]
  BY DEF Uncoupled, IsCovered, Sound, Arenas, Ids
<1>1. /\ node \in Node
      /\ node.op \in UnaryOps => node.a \in 1..(v - 1) /\ node.a # NoNode /\ node.b = NoNode
      /\ node.op \in BinaryOps => /\ node.a \in 1..(v - 1) /\ node.a # NoNode
                                  /\ node.b \in 1..(v - 1) /\ node.b # NoNode
      /\ node.op = "Var" => node.slot \in 1..Len(B.symbols)
  BY <1>0, NodeOf, OperandsIn DEF Sound, WellFormed, NoNode
<1>2. node = C.nodes[v] /\ v \in Ids(C) /\ B.symbols = C.symbols /\ Ids(C) = 1..Len(C.nodes)
  BY <1>0 DEF Keeps, Extends, Ids, Sound, Arenas
<1>3. /\ Numbers(Duals, C, Moving(p, i), w) /\ Differentiates(Duals, C, n, w, j, t)
      /\ p \in [1..Len(B.symbols) -> Scalar]
  BY <1>2, SmoothReads DEF Uncoupled, Reads, PointFor
<1>4. w[v] = NodeValue(Duals, node, w, Moving(p, i)) /\ t[v] = Tangent(Duals, node, w, t, j)
  BY <1>0, <1>2, <1>3 DEF Numbers, Interprets, Differentiates
<1>5. \A u \in 1..(v - 1) : w[u] \in Duals.all
  <2>1. w \in Seq(Duals.all) /\ Len(w) = Len(C.nodes) /\ Len(C.nodes) \in Nat
    BY <1>2, <1>3 DEF Numbers, Interprets
  <2>2. \A u \in 1..(v - 1) : u \in 1..Len(C.nodes)
    BY <1>0, <1>2, <2>1
  <2>. QED BY <2>1, <2>2
<1>6. CASE node.op = "Const"
  <2>1. w[v] = Duals.of[node.value] /\ t[v] = Duals.of[Zero] /\ node.value \in Scalar
    BY <1>1, <1>4, <1>6, OpAssumption DEF NodeValue, Tangent, Node
  <2>. QED BY <2>1, NoughtFlat DEF Quiet
<1>7. CASE node.op = "Var"
  <2>1. w[v] = Moving(p, i)[node.slot]
          /\ t[v] = IF node.slot = j THEN Duals.of[One] ELSE Duals.of[Zero]
    BY <1>4, <1>7, OpAssumption DEF NodeValue, Tangent
  <2>2. node.slot # i => w[v] = Duals.of[p[node.slot]] /\ p[node.slot] \in Scalar
    BY <1>1, <1>3, <1>7, <2>1, DualReads DEF Moving
  <2>3. support[v] = {node.slot}
    BY <1>0, <1>7 DEF CoveredAt, DependsOn
  <2>. QED BY <2>1, <2>2, <2>3, NoughtFlat, ScalarAssumption DEF Quiet
<1>8. CASE node.op \in UnaryOps
  <2>1. node.op \notin {"Const", "Var"} /\ node.op \notin BinaryOps
    BY <1>8, OpAssumption
  <2>2. node.a \in live
    BY <1>0, <1>1, <1>8 DEF Operands
  <2>3. Quiet(support, i, j, w, t, node.a) /\ w[node.a] \in Duals.all
    BY <1>1, <1>5, <1>8, <2>2
  <2> DEFINE x == Times(Duals, Duals.slope[node.op][w[node.a]], t[node.a])
             y == On1(Duals, node.op, w[node.a])
  <2>4. w[v] = y /\ t[v] = x
    BY <1>4, <1>8, <2>1 DEF NodeValue, Tangent
  <2>5. /\ i \notin support[v] => y \in Flat
        /\ j \notin support[v] => x \in Nought(Duals)
        /\ x \in Flat
    <3> HIDE DEF node
    <3>. QED BY <1>0, <1>1, <1>8, <2>3, QuietUnary
  <2> HIDE DEF x, y, node
  <2>. QED BY <2>4, <2>5 DEF Quiet
<1>9. CASE node.op \in BinaryOps
  <2>1. node.op \notin {"Const", "Var"} /\ node.op \notin UnaryOps
    BY <1>9, OpAssumption
  <2>2. node.a \in live /\ node.b \in live
    BY <1>0, <1>1, <1>9 DEF Operands
  <2>3. /\ Quiet(support, i, j, w, t, node.a) /\ w[node.a] \in Duals.all
        /\ Quiet(support, i, j, w, t, node.b) /\ w[node.b] \in Duals.all
    BY <1>1, <1>5, <1>9, <2>2
  <2> DEFINE x == Plus(Duals, Times(Duals, Duals.left[node.op][w[node.a]][w[node.b]], t[node.a]),
                              Times(Duals, Duals.right[node.op][w[node.a]][w[node.b]], t[node.b]))
             y == On2(Duals, node.op, w[node.a], w[node.b])
  <2>4. w[v] = y /\ t[v] = x
    BY <1>4, <1>9, <2>1 DEF NodeValue, Tangent
  <2>5. /\ i \notin support[v] => y \in Flat
        /\ j \notin support[v] => x \in Nought(Duals)
        /\ x \in Flat
    <3> HIDE DEF node
    <3>. QED BY <1>0, <1>1, <1>9, <2>3, QuietBinary
  <2> HIDE DEF x, y, node
  <2>. QED BY <2>4, <2>5 DEF Quiet
<1>. QED BY <1>1, <1>6, <1>7, <1>8, <1>9 DEF Node

(* The tangent of an uncoupled pair has no derivative. *)
LEMMA PatternFlat ==
  ASSUME CalculusLaws(Smooth), CalculusLaws(Duals), NEW B, NEW r, NEW live, NEW support, NEW R,
         NEW i, NEW j, NEW C, NEW p, NEW w, NEW t,
         Uncoupled(B, r, live, support, R, i, j, C, p, w, t)
  PROVE  t[r] \in Flat
<1> DEFINE S == {k \in Nat : \A u \in 1..k : u \in live => Quiet(support, i, j, w, t, u)}
<1>1. 0 \in S
  OBVIOUS
<1>2. ASSUME NEW k \in Nat, k \in S PROVE k + 1 \in S
  <2>1. \A u \in 1..k : u \in live => Quiet(support, i, j, w, t, u)
    BY <1>2
  <2>2. ASSUME k + 1 \in live PROVE Quiet(support, i, j, w, t, k + 1)
    <3> DEFINE v == k + 1
    <3>1. v - 1 = k /\ v \in live
      BY <2>2
    <3> HIDE DEF v
    <3>. QED BY <2>1, <3>1, QuietNode DEF v
  <2>3. \A u \in 1..(k + 1) : u \in 1..k \/ u = k + 1
    OBVIOUS
  <2>. QED BY <2>1, <2>2, <2>3
<1>3. r \in live /\ r \in Nat /\ r \in 1..r
  BY DEF Uncoupled, IsCovered, Ids
<1> HIDE DEF S
<1>4. r \in S
  BY <1>1, <1>2, <1>3, SetInduction
<1>. QED BY <1>3, <1>4 DEF S, Quiet
-----------------------------------------------------------------------------
(* Whether a tangent has a value does not depend on its direction. *)
Directions(K, n, C, p, w, j, t, k, u) == Reads(K, n, C, p, w, j, t) /\ Reads(K, n, C, p, w, k, u)
LEMMA TangentsDefined ==
  ASSUME NEW K, NEW n, NEW C, NEW p, NEW w, NEW j, NEW t, NEW k, NEW u,
         Directions(K, n, C, p, w, j, t, k, u)
  PROVE  \A v \in 1..n : t[v] = K.none <=> u[v] = K.none
<1>0. /\ Reads(K, n, C, p, w, j, t) /\ Reads(K, n, C, p, w, k, u)
      /\ CalculusLaws(K) /\ Sound(C) /\ n \in 0..Len(C.nodes) /\ Len(C.nodes) \in Nat
  BY DEF Directions, Reads, Numbers, Sound, Arenas
<1> DEFINE S == {c \in Nat : \A v \in 1..c : v \in 1..n => (t[v] = K.none <=> u[v] = K.none)}
<1>1. 0 \in S
  OBVIOUS
<1>2. ASSUME NEW v \in 1..n, \A c \in 1..(v - 1) : t[c] = K.none <=> u[c] = K.none
      PROVE  t[v] = K.none <=> u[v] = K.none
  <2> DEFINE node == C.nodes[v]
  <2>1. /\ v \in Ids(C) /\ v \in 1..Len(C.nodes)
        /\ t[v] = Tangent(K, node, w, t, j) /\ u[v] = Tangent(K, node, w, u, k)
    BY <1>0 DEF Reads, Differentiates, Ids
  <2>2. /\ node \in Node
        /\ node.op \in UnaryOps => node.a \in 1..(v - 1)
        /\ node.op \in BinaryOps => node.a \in 1..(v - 1) /\ node.b \in 1..(v - 1)
    BY <1>0, <2>1, NodeOf DEF Sound, WellFormed
  <2>3. \A c \in 1..(v - 1) : w[c] \in K.all /\ t[c] \in K.all /\ u[c] \in K.all
    <3>1. \A c \in 1..(v - 1) : c \in 1..n /\ c \in 1..Len(C.nodes)
      BY <1>0
    <3>2. w \in Seq(K.all) /\ Len(w) = Len(C.nodes)
      BY <1>0 DEF Reads, Numbers, Interprets
    <3>3. t \in Seq(K.all) /\ Len(t) = n /\ u \in Seq(K.all) /\ Len(u) = n
      BY <1>0 DEF Reads, Differentiates
    <3>. QED BY <3>1, <3>2, <3>3
  <2>4. CASE node.op \in {"Const", "Var"}
    <3>1. K.of[Zero] # K.none /\ K.of[One] # K.none
      BY <1>0, NumbersClosed
    <3>. QED BY <2>1, <2>4, <3>1, OpAssumption DEF Tangent
  <2>5. CASE node.op \in UnaryOps
    <3> DEFINE slope == K.slope[node.op][w[node.a]]
               x == t[node.a]
               y == u[node.a]
    <3>1. node.op \notin {"Const", "Var"} /\ node.op \notin BinaryOps
      BY <2>5, OpAssumption
    <3>2. slope \in K.all /\ x \in K.all /\ y \in K.all /\ (x = K.none <=> y = K.none)
      BY <1>0, <1>2, <2>2, <2>3, <2>5, SlopeNumber
    <3>3. t[v] = Times(K, slope, x) /\ u[v] = Times(K, slope, y)
      BY <2>1, <2>5, <3>1 DEF Tangent
    <3> HIDE DEF slope, x, y
    <3>. QED BY <1>0, <3>2, <3>3, ValuesMultiply
  <2>6. CASE node.op \in BinaryOps
    <3> DEFINE left == K.left[node.op][w[node.a]][w[node.b]]
               right == K.right[node.op][w[node.a]][w[node.b]]
               x == t[node.a]
               y == u[node.a]
               f == t[node.b]
               g == u[node.b]
    <3>1. node.op \notin {"Const", "Var"} /\ node.op \notin UnaryOps
      BY <2>6, OpAssumption
    <3>2. w[node.a] \in K.all /\ w[node.b] \in K.all
      BY <2>2, <2>3, <2>6
    <3>3. left \in K.all /\ right \in K.all
      BY <1>0, <2>6, <3>2, SlopeNumber
    <3>4. /\ x \in K.all /\ y \in K.all /\ (x = K.none <=> y = K.none)
          /\ f \in K.all /\ g \in K.all /\ (f = K.none <=> g = K.none)
      BY <1>2, <2>2, <2>3, <2>6
    <3>5. /\ t[v] = Plus(K, Times(K, left, x), Times(K, right, f))
          /\ u[v] = Plus(K, Times(K, left, y), Times(K, right, g))
      BY <2>1, <2>6, <3>1 DEF Tangent
    <3> HIDE DEF left, right, x, y, f, g
    <3> DEFINE a1 == Times(K, left, x)
               a2 == Times(K, left, y)
               b1 == Times(K, right, f)
               b2 == Times(K, right, g)
    <3>6. /\ a1 \in K.all /\ a2 \in K.all /\ (a1 = K.none <=> a2 = K.none)
          /\ b1 \in K.all /\ b2 \in K.all /\ (b1 = K.none <=> b2 = K.none)
      BY <1>0, <3>3, <3>4, ValuesMultiply, SumsAreNumbers
    <3>7. t[v] = Plus(K, a1, b1) /\ u[v] = Plus(K, a2, b2)
      BY <3>5
    <3> HIDE DEF a1, a2, b1, b2
    <3>. QED BY <1>0, <3>6, <3>7, ValuesMultiply
  <2>. QED BY <2>2, <2>4, <2>5, <2>6 DEF Node
<1>3. ASSUME NEW c \in Nat, c \in S PROVE c + 1 \in S
  <2>1. \A v \in 1..c : v \in 1..n => (t[v] = K.none <=> u[v] = K.none)
    BY <1>3
  <2>2. ASSUME c + 1 \in 1..n PROVE t[c + 1] = K.none <=> u[c + 1] = K.none
    <3> DEFINE v == c + 1
    <3>1. v \in 1..n /\ v - 1 = c /\ \A d \in 1..c : d \in 1..n
      BY <1>0, <2>2
    <3> HIDE DEF v
    <3>. QED BY <1>2, <2>1, <3>1 DEF v
  <2>3. \A v \in 1..(c + 1) : v \in 1..c \/ v = c + 1
    OBVIOUS
  <2>. QED BY <2>1, <2>2, <2>3
<1> HIDE DEF S
<1>4. n \in S
  BY <1>0, <1>1, <1>3, SetInduction
<1>. QED BY <1>4 DEF S

-----------------------------------------------------------------------------
(* The interpreter at a moving point computes each node's value beside its   *)
(* tangent.                                                                  *)
LEMMA PairsUnary ==
  ASSUME CalculusLaws(Smooth), CalculusLaws(Duals), NEW op \in UnaryOps, NEW x \in Scalar,
         NEW y \in Scalar
  PROVE  On1(Duals, op, Pair(x, y)) =
           Pair(On1(Smooth, op, x), Times(Smooth, Smooth.slope[op][x], y))
<1>0. NaN \in Scalar
  BY SmoothClosed
<1>1. On1(Smooth, op, x) = Apply1(op, x)
        /\ Times(Smooth, Smooth.slope[op][x], y) = Carried(Slope(op, x), y)
  BY SmoothReads DEF Carried
<1>2. CASE x = NaN \/ y = NaN
  <2>1. Pair(x, y) = Duals.none
    BY <1>0, <1>2, PairReads
  <2>2. On1(Duals, op, Pair(x, y)) = Duals.none
    BY <2>1 DEF CalculusLaws, RingLaws, Absorbing
  <2>3. Apply1(op, x) = NaN \/ Carried(Slope(op, x), y) = NaN
    BY <1>2, SmoothClosed, CarriedReads
  <2>4. Apply1(op, x) \in Scalar /\ Carried(Slope(op, x), y) \in Scalar
    BY SmoothClosed, CarriedReads
  <2>5. Pair(Apply1(op, x), Carried(Slope(op, x), y)) = Duals.none
    BY <1>0, <2>3, <2>4, PairReads
  <2>. QED BY <1>1, <2>2, <2>5
<1>3. CASE x # NaN /\ y # NaN
  <2> DEFINE d == Pair(x, y)
  <2>1. d \in DualNumber /\ d[1] = x /\ d[2] = y
    BY <1>0, <1>3, PairReads
  <2> HIDE DEF d
  <2>2. On1(Duals, op, d) = Pair(Apply1(op, d[1]), Carried(Slope(op, d[1]), d[2]))
    BY <2>1, DualReads
  <2>. QED BY <1>1, <2>1, <2>2 DEF d
<1>. QED BY <1>2, <1>3

LEMMA PairsBinary ==
  ASSUME CalculusLaws(Smooth), CalculusLaws(Duals), NEW op \in BinaryOps,
         NEW x \in Scalar, NEW y \in Scalar, NEW u \in Scalar, NEW v \in Scalar
  PROVE  On2(Duals, op, Pair(x, y), Pair(u, v)) =
           Pair(On2(Smooth, op, x, u),
                Plus(Smooth, Times(Smooth, Smooth.left[op][x][u], y),
                  Times(Smooth, Smooth.right[op][x][u], v)))
<1> DEFINE f == Carried(SlopeLeft(op, x, u), y)
           g == Carried(SlopeRight(op, x, u), v)
<1>0. NaN \in Scalar
  BY SmoothClosed
<1>1. /\ On2(Smooth, op, x, u) = Apply2(op, x, u)
      /\ Times(Smooth, Smooth.left[op][x][u], y) = f
      /\ Times(Smooth, Smooth.right[op][x][u], v) = g
  BY SmoothReads DEF Carried
<1>2. Apply2(op, x, u) \in Scalar /\ f \in Scalar /\ g \in Scalar
  <2>1. Apply2(op, x, u) \in Scalar /\ SlopeLeft(op, x, u) \in Scalar
          /\ SlopeRight(op, x, u) \in Scalar
    BY SmoothClosed
  <2>. QED BY <2>1, CarriedReads
<1>3. (y = NaN => f = NaN) /\ (v = NaN => g = NaN)
        /\ (x = NaN \/ u = NaN => Apply2(op, x, u) = NaN)
  <2>1. SlopeLeft(op, x, u) \in Scalar /\ SlopeRight(op, x, u) \in Scalar
    BY SmoothClosed
  <2>2. (y = NaN => f = NaN) /\ (v = NaN => g = NaN)
    BY <2>1, CarriedReads
  <2>. QED BY <2>2, SmoothClosed
<1> HIDE DEF f, g
<1>4. Plus(Smooth, f, g) \in Scalar /\ (f = NaN \/ g = NaN => Plus(Smooth, f, g) = NaN)
  <2>1. f \in Smooth.all /\ g \in Smooth.all /\ Smooth.none = NaN
    BY <1>2, SmoothReads
  <2>. QED BY <1>2, <2>1, SmoothClosed, AbsorbedBySums
<1>5. CASE NaN \in {x, y, u, v}
  <2>1. Pair(x, y) = Duals.none \/ Pair(u, v) = Duals.none
    BY <1>0, <1>5, PairReads
  <2>2. Pair(x, y) \in Duals.all /\ Pair(u, v) \in Duals.all
    BY <1>0, PairReads, DualReads
  <2>3. On2(Duals, op, Pair(x, y), Pair(u, v)) = Duals.none
    <3> DEFINE c == Pair(x, y)
               d == Pair(u, v)
    <3> HIDE DEF c, d
    <3>1. (c = Duals.none \/ d = Duals.none) /\ c \in Duals.all /\ d \in Duals.all
      BY <2>1, <2>2 DEF c, d
    <3>2. On2(Duals, op, c, d) = Duals.none
      BY <3>1 DEF CalculusLaws, RingLaws, Absorbing
    <3>. QED BY <3>2 DEF c, d
  <2>4. Pair(Apply2(op, x, u), Plus(Smooth, f, g)) = Duals.none
    BY <1>0, <1>2, <1>3, <1>4, <1>5, PairReads
  <2>. QED BY <1>1, <2>3, <2>4
<1>6. CASE NaN \notin {x, y, u, v}
  <2> DEFINE c == Pair(x, y)
             d == Pair(u, v)
  <2>1. c \in DualNumber /\ c[1] = x /\ c[2] = y /\ d \in DualNumber /\ d[1] = u /\ d[2] = v
    BY <1>0, <1>6, PairReads
  <2> HIDE DEF c, d
  <2>2. On2(Duals, op, c, d) =
          Pair(Apply2(op, c[1], d[1]),
               Chained(SlopeLeft(op, c[1], d[1]), c[2], SlopeRight(op, c[1], d[1]), d[2]))
    BY <2>1, DualReads
  <2>3. On2(Duals, op, c, d) = Pair(Apply2(op, x, u), Plus(Smooth, f, g))
    BY <2>1, <2>2 DEF Chained, f, g
  <2>. QED BY <1>1, <2>3 DEF c, d
<1>. QED BY <1>5, <1>6

Paired(n, C, p, i, v, t, w) ==
  /\ Reads(Smooth, n, C, p, v, i, t) /\ Numbers(Duals, C, Moving(p, i), w)
     /\ p \in PointFor(Smooth, C)
LEMMA DualsPair ==
  ASSUME NEW n, NEW C, NEW p, NEW i, NEW v, NEW t, NEW w, Paired(n, C, p, i, v, t, w)
  PROVE  \A k \in 1..n : w[k] = Pair(v[k], t[k])
<1>0. /\ CalculusLaws(Smooth) /\ CalculusLaws(Duals) /\ Sound(C) /\ n \in 0..Len(C.nodes)
         /\ Len(C.nodes) \in Nat
      /\ Interprets(Smooth, C, p, v) /\ Interprets(Duals, C, Moving(p, i), w)
      /\ Differentiates(Smooth, C, n, v, i, t) /\ p \in [1..Len(C.symbols) -> Scalar]
  BY SmoothReads DEF Paired, Reads, Numbers, Sound, Arenas, PointFor
<1> DEFINE S == {c \in Nat : \A k \in 1..c : k \in 1..n => w[k] = Pair(v[k], t[k])}
<1>1. 0 \in S
  OBVIOUS
<1>2. ASSUME NEW k \in 1..n, \A c \in 1..(k - 1) : w[c] = Pair(v[c], t[c])
      PROVE  w[k] = Pair(v[k], t[k])
  <2> DEFINE node == C.nodes[k]
  <2>1. /\ k \in Ids(C) /\ k \in 1..Len(C.nodes)
        /\ v[k] = NodeValue(Smooth, node, v, p) /\ w[k] = NodeValue(Duals, node, w, Moving(p, i))
        /\ t[k] = Tangent(Smooth, node, v, t, i)
    BY <1>0 DEF Interprets, Differentiates, Ids
  <2>2. /\ node \in Node
        /\ node.op \in UnaryOps => node.a \in 1..(k - 1)
        /\ node.op \in BinaryOps => node.a \in 1..(k - 1) /\ node.b \in 1..(k - 1)
        /\ node.op = "Var" => node.slot \in 1..Len(C.symbols)
    BY <1>0, <2>1, NodeOf DEF Sound, WellFormed
  <2>3. \A c \in 1..(k - 1) : v[c] \in Scalar /\ t[c] \in Scalar
    <3>1. \A c \in 1..(k - 1) : c \in 1..n /\ c \in 1..Len(C.nodes)
      BY <1>0
    <3>2. v \in Seq(Scalar) /\ Len(v) = Len(C.nodes) /\ t \in Seq(Scalar) /\ Len(t) = n
      BY <1>0, SmoothReads DEF Interprets, Differentiates
    <3>. QED BY <3>1, <3>2
  <2>4. CASE node.op = "Const"
    <3>1. v[k] = Smooth.of[node.value] /\ w[k] = Duals.of[node.value] /\ t[k] = Smooth.of[Zero]
          /\ node.value \in Scalar
      BY <2>1, <2>2, <2>4, OpAssumption DEF NodeValue, Tangent, Node
    <3>. QED BY <3>1, SmoothReads, DualReads, ScalarAssumption
  <2>5. CASE node.op = "Var"
    <3>1. /\ v[k] = p[node.slot] /\ w[k] = Moving(p, i)[node.slot]
          /\ t[k] = IF node.slot = i THEN Smooth.of[One] ELSE Smooth.of[Zero]
      BY <2>1, <2>5, OpAssumption DEF NodeValue, Tangent
    <3>2. w[k] = Pair(p[node.slot], IF node.slot = i THEN One ELSE Zero)
      BY <1>0, <2>2, <2>5, <3>1 DEF Moving
    <3>. QED BY <3>1, <3>2, SmoothReads, ScalarAssumption
  <2>6. CASE node.op \in UnaryOps
    <3> DEFINE x == v[node.a]
               y == t[node.a]
    <3>1. node.op \notin {"Const", "Var"} /\ node.op \notin BinaryOps
      BY <2>6, OpAssumption
    <3>2. x \in Scalar /\ y \in Scalar /\ w[node.a] = Pair(x, y)
      BY <1>2, <2>2, <2>3, <2>6
    <3>3. /\ v[k] = On1(Smooth, node.op, x) /\ w[k] = On1(Duals, node.op, w[node.a])
          /\ t[k] = Times(Smooth, Smooth.slope[node.op][x], y)
      BY <2>1, <2>6, <3>1 DEF NodeValue, Tangent
    <3> HIDE DEF x, y, node
    <3>. QED BY <1>0, <2>6, <3>2, <3>3, PairsUnary
  <2>7. CASE node.op \in BinaryOps
    <3> DEFINE x == v[node.a]
               y == t[node.a]
               f == v[node.b]
               g == t[node.b]
    <3>1. node.op \notin {"Const", "Var"} /\ node.op \notin UnaryOps
      BY <2>7, OpAssumption
    <3>2. /\ x \in Scalar /\ y \in Scalar /\ w[node.a] = Pair(x, y)
          /\ f \in Scalar /\ g \in Scalar /\ w[node.b] = Pair(f, g)
      BY <1>2, <2>2, <2>3, <2>7
    <3>3. /\ v[k] = On2(Smooth, node.op, x, f) /\ w[k] = On2(Duals, node.op, w[node.a], w[node.b])
          /\ t[k] = Plus(Smooth, Times(Smooth, Smooth.left[node.op][x][f], y),
                                 Times(Smooth, Smooth.right[node.op][x][f], g))
      BY <2>1, <2>7, <3>1 DEF NodeValue, Tangent
    <3> HIDE DEF x, y, f, g, node
    <3>. QED BY <1>0, <2>7, <3>2, <3>3, PairsBinary
  <2>. QED BY <2>2, <2>4, <2>5, <2>6, <2>7 DEF Node
<1>3. ASSUME NEW c \in Nat, c \in S PROVE c + 1 \in S
  <2>1. \A k \in 1..c : k \in 1..n => w[k] = Pair(v[k], t[k])
    BY <1>3
  <2>2. ASSUME c + 1 \in 1..n PROVE w[c + 1] = Pair(v[c + 1], t[c + 1])
    <3> DEFINE k == c + 1
    <3>1. k \in 1..n /\ k - 1 = c /\ \A d \in 1..c : d \in 1..n
      BY <1>0, <2>2
    <3> HIDE DEF k
    <3>. QED BY <1>2, <2>1, <3>1 DEF k
  <2>3. \A k \in 1..(c + 1) : k \in 1..c \/ k = c + 1
    OBVIOUS
  <2>. QED BY <2>1, <2>2, <2>3
<1> HIDE DEF S
<1>4. n \in S
  BY <1>0, <1>1, <1>3, SetInduction
<1>. QED BY <1>4 DEF S
-----------------------------------------------------------------------------
(* The seed of a colour's sweep is the sum of that colour's partials.        *)
ColorTerms(K, m, w, d, hue, c) ==
  [k \in 1..m |-> IF hue[k] = c THEN w[d[k]] ELSE K.of[Zero]]

LEMMA ColorTermsNumbers ==
  ASSUME NEW K, NEW B, Sound(B), NEW m, NEW d, NEW hue, Seeds(m, B, d, hue), NEW c,
         NEW C, Keeps(B, C), NEW p, NEW w, Numbers(K, C, p, w)
  PROVE  NumbersTo(K, m, ColorTerms(K, m, w, d, hue, c))
<1>1. \A v \in Ids(B) : w[v] \in K.all
  <2>1. Ids(B) \subseteq Ids(C)
    BY IdsGrow
  <2>2. w \in Seq(K.all) /\ Len(w) = Len(C.nodes)
    BY DEF Numbers, Interprets
  <2>. QED BY <2>1, <2>2 DEF Ids
<1>2. K.of[Zero] \in K.all
  BY NumbersClosed DEF Numbers
<1>. QED BY <1>1, <1>2 DEF NumbersTo, ColorTerms, Seeds

LEMMA SeedGives ==
  ASSUME NEW K, NEW B, Sound(B), NEW m, NEW d, NEW hue, Seeds(m, B, d, hue), NEW c,
         NEW C, Keeps(B, C), NEW p, NEW w, Numbers(K, C, p, w)
  PROVE  Gives(K, B, SeedOf(B, d, hue, c), C, w, Total(K, ColorTerms(K, m, w, d, hue, c), m))
<1> DEFINE term == ColorTerms(K, m, w, d, hue, c)
<1>0. m \in Nat /\ CalculusLaws(K) /\ NumbersTo(K, m, term)
  BY ColorTermsNumbers DEF Seeds, Numbers
<1>1. PICK f : SeedRun(m, B, d, hue, c, f) /\ SeedOf(B, d, hue, c) = f[m]
  BY SeedRuns
<1>2. /\ f[0] = Start(B, Lit(Zero))
      /\ \A k \in 1..m : f[k] = WithColumn(f[k - 1], d[k], hue[k] = c)
  BY <1>1 DEF SeedRun
<1>3. \A k \in 1..m : term[k] = IF hue[k] = c THEN w[d[k]] ELSE K.of[Zero]
  BY DEF ColorTerms
<1> HIDE DEF term
<1> DEFINE S == {k \in Nat : k <= m => Gives(K, B, f[k], C, w, Total(K, term, k))}
<1>4. 0 \in S
  <2>1. Gives(K, B, Start(B, Lit(Zero)), C, w, K.of[Zero])
    BY ConstantGives, ScalarAssumption
  <2>2. Total(K, term, 0) = K.of[Zero]
    BY <1>0, TotalOfNone
  <2>. QED BY <1>2, <2>1, <2>2
<1>5. ASSUME NEW j \in Nat, j \in S PROVE j + 1 \in S
  <2> SUFFICES ASSUME j + 1 <= m PROVE Gives(K, B, f[j + 1], C, w, Total(K, term, j + 1))
    OBVIOUS
  <2>0. j <= m => Gives(K, B, f[j], C, w, Total(K, term, j))
    BY <1>5
  <2> HIDE DEF S
  <2> DEFINE k == j + 1
             x == Total(K, term, j)
  <2>1. k \in 1..m /\ k - 1 = j /\ j <= m
    <3>1. m \in Nat
      BY <1>0
    <3>. QED BY ONLY <3>1, j \in Nat, j + 1 <= m DEF k
  <2>2. NumbersTo(K, j + 1, term) /\ NumbersTo(K, j, term)
    BY <1>0, <2>1 DEF NumbersTo
  <2>3. Total(K, term, j + 1) = Plus(K, x, term[k]) /\ x \in K.all
    BY <1>0, <2>2, TotalNext, TotalNumber
  <2>4. Gives(K, B, f[j], C, w, x) /\ f[k] = WithColumn(f[j], d[k], hue[k] = c)
    BY <1>2, <2>0, <2>1
  <2> HIDE DEF x, k
  <2>5. CASE hue[k] = c
    <3>1. term[k] = w[d[k]] /\ f[k] = Then(f[j], "Add", At(d[k])) /\ d[k] \in Ids(B)
      BY <1>3, <2>1, <2>4, <2>5 DEF WithColumn, Seeds
    <3>2. Names(B, At(d[k])) /\ ValueOf(K, w, At(d[k])) = w[d[k]]
      BY <3>1, NodeNames, AtValue
    <3>3. Gives(K, B, f[k], C, w, On2(K, "Add", x, w[d[k]]))
      BY <2>4, <3>1, <3>2, PipelineGives, RuleAssumption
    <3>. QED BY <2>3, <3>1, <3>3 DEF Plus, k
  <2>6. CASE hue[k] # c
    <3>1. term[k] = K.of[Zero] /\ f[k] = f[j]
      BY <1>3, <2>1, <2>4, <2>6 DEF WithColumn
    <3>2. Plus(K, x, K.of[Zero]) = x
      BY <1>0, <2>3, PlusZero, NumbersAdd, NumbersClosed
    <3>. QED BY <2>3, <2>4, <3>1, <3>2 DEF k
  <2>. QED BY <2>5, <2>6
<1> HIDE DEF S
<1>6. m \in S
  BY <1>0, <1>4, <1>5, SetInduction
<1>. QED BY <1>0, <1>1, <1>6 DEF S, term

(* The derivative of a sum is the sum of its terms' derivatives. *)
LEMMA SecondOfSum ==
  ASSUME CalculusLaws(Smooth), CalculusLaws(Duals),
         NEW x \in Duals.all \ {Duals.none}, NEW y \in Duals.all \ {Duals.none}
  PROVE  /\ Plus(Duals, x, y) # Duals.none /\ Plus(Duals, x, y) \in Duals.all
         /\ Plus(Duals, x, y)[2] = Plus(Smooth, x[2], y[2])
<1> DEFINE l == SlopeLeft("Add", x[1], y[1])
           r == SlopeRight("Add", x[1], y[1])
           a == Apply2("Add", x[1], y[1])
           d == Chained(l, x[2], r, y[2])
<1>0. NaN \in Scalar /\ "Add" \in BinaryOps
  BY SmoothClosed, RuleAssumption
<1>1. /\ x[1] \in Scalar /\ x[2] \in Scalar \ {NaN} /\ x \in DualNumber
      /\ y[1] \in Scalar /\ y[2] \in Scalar \ {NaN} /\ y \in DualNumber
  BY <1>0, DualReads, DualParts
<1>2. Plus(Duals, x, y) # Duals.none /\ Plus(Duals, x, y) \in Duals.all
  BY NumbersClosed, ValuesMultiply
<1>3. Plus(Duals, x, y) = Pair(a, d)
  BY <1>0, <1>1, DualReads DEF Plus
<1>4. l \in Scalar /\ r \in Scalar /\ a \in Scalar
  BY <1>0, <1>1, SmoothClosed
<1>5. l \in {NaN, One} /\ r \in {NaN, One}
  <2>1. /\ Smooth.left["Add"][x[1]][y[1]] \in {Smooth.none, Smooth.of[One]}
        /\ Smooth.right["Add"][x[1]][y[1]] \in {Smooth.none, Smooth.of[One]}
    <3>1. x[1] \in Smooth.all /\ y[1] \in Smooth.all
      BY <1>1, SmoothReads
    <3>2. LeftOf(Smooth, "Add", x[1], y[1]) = Smooth.of[One]
            /\ RightOf(Smooth, "Add", x[1], y[1]) = Smooth.of[One]
      BY DEF LeftOf, RightOf
    <3>. QED BY <1>0, <3>1, <3>2 DEF CalculusLaws, SlopeLaws
  <2>2. Smooth.none = NaN /\ Smooth.of[One] = One
    BY SmoothReads, ScalarAssumption
  <2>3. Smooth.left["Add"][x[1]][y[1]] = l /\ Smooth.right["Add"][x[1]][y[1]] = r
    BY <1>0, <1>1, SmoothReads
  <2>. QED BY <2>1, <2>2, <2>3
<1> HIDE DEF l, r, a
<1>6. /\ Carried(l, x[2]) \in Scalar /\ Carried(r, y[2]) \in Scalar
      /\ l = NaN => Carried(l, x[2]) = NaN
      /\ r = NaN => Carried(r, y[2]) = NaN
      /\ l = One => Carried(l, x[2]) = x[2]
      /\ r = One => Carried(r, y[2]) = y[2]
  <2>1. Carried(l, x[2]) \in Scalar /\ Carried(r, y[2]) \in Scalar
    BY <1>1, <1>4, CarriedReads
  <2>2. x[2] \in Smooth.all /\ y[2] \in Smooth.all /\ Smooth.none = NaN /\ Smooth.of[One] = One
    BY <1>1, SmoothReads, ScalarAssumption
  <2>3. \A z \in Smooth.all : Times(Smooth, NaN, z) = NaN
    BY <2>2, AbsorbedBySums
  <2>4. \A z \in Smooth.all \ {NaN} : Times(Smooth, One, z) = z
    BY <2>2 DEF CalculusLaws, RingLaws
  <2>. QED BY <1>1, <2>1, <2>2, <2>3, <2>4 DEF Carried
<1> DEFINE f == Carried(l, x[2])
           g == Carried(r, y[2])
<1>7. d = Plus(Smooth, f, g)
  BY DEF Chained
<1> HIDE DEF f, g, d
<1>8. f \in Scalar /\ g \in Scalar /\ Smooth.all = Scalar /\ Smooth.none = NaN
  BY <1>6, SmoothReads DEF f, g
<1>9. d \in Scalar
  BY <1>7, <1>8, SmoothClosed
<1>10. d # NaN /\ Pair(a, d)[2] = d
  BY <1>0, <1>2, <1>3, <1>4, <1>9, PairReads
<1>11. f # NaN /\ g # NaN
  BY <1>7, <1>8, <1>10, AbsorbedBySums
<1>12. f = x[2] /\ g = y[2]
  BY <1>5, <1>6, <1>11 DEF f, g
<1>. QED BY <1>2, <1>3, <1>7, <1>10, <1>12

LEMMA SecondOfTotal ==
  ASSUME CalculusLaws(Smooth), CalculusLaws(Duals), NEW m \in Nat, NEW term,
         \A k \in 1..m : term[k] \in Duals.all \ {Duals.none},
         NEW j \in 1..m, \A k \in 1..m : k # j => term[k][2] = Zero
  PROVE  /\ Total(Duals, term, m) # Duals.none
         /\ Total(Duals, term, m)[2] = term[j][2]
<1>0. /\ NaN \in Scalar /\ Zero \in Smooth.all /\ Smooth.of[Zero] = Zero /\ Smooth.all = Scalar
      /\ Duals.of[Zero] \in Duals.all /\ Duals.of[Zero] # Duals.none /\ Duals.of[Zero][2] = Zero
  <2>1. NaN \in Scalar /\ NaN # Zero /\ Zero \in Scalar
    BY SmoothClosed, ScalarAssumption
  <2>. QED BY <2>1, SmoothReads, DualReads, PairReads
<1>1. \A k \in 1..m : term[k][2] \in Smooth.all
  BY <1>0, DualReads, DualParts
<1>2. NumbersTo(Duals, m, term)
  BY DEF NumbersTo
<1> DEFINE T(k) == Total(Duals, term, k)
           S == {k \in Nat : k <= m => /\ T(k) # Duals.none
                                       /\ T(k)[2] = IF j <= k THEN term[j][2] ELSE Zero}
<1>3. 0 \in S
  <2>1. T(0) = Duals.of[Zero] /\ ~(j <= 0)
    BY TotalOfNone
  <2>. QED BY <1>0, <2>1
<1>4. ASSUME NEW i \in Nat, i \in S PROVE i + 1 \in S
  <2> SUFFICES ASSUME i + 1 <= m
               PROVE  /\ T(i + 1) # Duals.none
                      /\ T(i + 1)[2] = IF j <= i + 1 THEN term[j][2] ELSE Zero
    OBVIOUS
  <2>0. i <= m => T(i) # Duals.none /\ T(i)[2] = IF j <= i THEN term[j][2] ELSE Zero
    BY <1>4
  <2> HIDE DEF S
  <2>1. i <= m /\ i + 1 \in 1..m /\ j \in Nat
    <3>. QED BY ONLY m \in Nat, i \in Nat, i + 1 <= m, j \in 1..m
  <2>2. NumbersTo(Duals, i + 1, term) /\ NumbersTo(Duals, i, term)
    BY <1>2, <2>1 DEF NumbersTo
  <2> DEFINE x == T(i)
             y == term[i + 1]
  <2>3. T(i + 1) = Plus(Duals, x, y) /\ x \in Duals.all
    BY <2>2, TotalNext, TotalNumber
  <2>4. x # Duals.none /\ x[2] = (IF j <= i THEN term[j][2] ELSE Zero)
          /\ y \in Duals.all \ {Duals.none}
    BY <2>0, <2>1
  <2> HIDE DEF T, x, y
  <2>5. Plus(Duals, x, y) # Duals.none /\ Plus(Duals, x, y)[2] = Plus(Smooth, x[2], y[2])
    BY <2>3, <2>4, SecondOfSum
  <2>6. \A z \in Smooth.all : Plus(Smooth, Zero, z) = z /\ Plus(Smooth, z, Zero) = z
    BY <1>0, PlusZero, NumbersAdd
  <2>7. CASE j = i + 1
    <3>1. ~(j <= i) /\ j <= i + 1
      BY <2>1, <2>7
    <3>. QED BY <1>1, <2>1, <2>3, <2>4, <2>5, <2>6, <2>7, <3>1 DEF y
  <2>8. CASE j # i + 1
    <3>1. (j <= i + 1 <=> j <= i) /\ y[2] = Zero
      BY <2>1, <2>8 DEF y
    <3>2. x[2] \in Smooth.all
      BY <1>0, <1>1, <2>4
    <3>. QED BY <2>3, <2>4, <2>5, <2>6, <3>1, <3>2
  <2>. QED BY <2>7, <2>8
<1>5. m \in S /\ j <= m
  <2> HIDE DEF S
  <2>1. m \in S
    BY <1>3, <1>4, SetInduction
  <2>. QED BY <2>1
<1>. QED BY <1>5
(* What a colour's row is: its entries are the derivatives of the seed.      *)
RowNames(m, A, d, hue, c, row) ==
  \A C, p, i, n, v, t, w, x :
    /\ Keeps(A, C) /\ Paired(n, C, p, i, v, t, w) /\ n = Len(C.nodes) /\ i \in 1..m
    /\ x = Total(Duals, ColorTerms(Duals, m, w, d, hue, c), m) /\ x # Duals.none
    => v[row[i]] = x[2]

LEMMA ColorRowNames ==
  ASSUME CalculusLaws(Smooth), CalculusLaws(Duals), NEW B, Sound(B), NodesOnce(B),
         NEW m, m = Len(B.symbols), NEW d, d \in [1..m -> Ids(B)], NEW hue, hue \in [1..m -> Nat],
         NEW c,
         NEW g, g = ColorRow(B, d, hue, c)
  PROVE  RowNames(m, g.arena, d, hue, c, g.partial)
<1> DEFINE stage == SeedOf(B, d, hue, c)
           seed == IdOf(stage)
<1>0. m \in Nat /\ Seeds(m, B, d, hue)
  BY DEF Sound, Arenas, Seeds
<1>1. Stage(B, stage)
  BY <1>0, SeedStage
<1>2. g = ReverseGradient(seed.arena, seed.id) /\ seed = Materialise(stage.arena, stage.e)
  BY DEF ColorRow, RowFrom, IdOf
<1>3. \A C, p, w : Keeps(B, C) /\ Numbers(Duals, C, p, w) =>
        Gives(Duals, B, stage, C, w, Total(Duals, ColorTerms(Duals, m, w, d, hue, c), m))
  BY <1>0, SeedGives
<1> HIDE DEF stage, seed
<1>4. Keeps(B, stage.arena) /\ Sound(stage.arena) /\ Names(stage.arena, stage.e)
  BY <1>1 DEF Stage, Keeps
<1>5. Answers(stage.arena, seed)
  BY <1>2, <1>4, MaterialiseAnswers
<1>6. /\ Keeps(stage.arena, seed.arena) /\ Keeps(B, seed.arena) /\ Sound(seed.arena)
         /\ seed.id \in Ids(seed.arena)
      /\ NodesOnce(seed.arena) /\ seed.arena.symbols = B.symbols
  BY <1>4, <1>5, KeepsTransitive DEF Answers, Keeps
<1>7. NamesSlopes(Smooth, seed.id, m, g)
  BY <1>2, <1>6, ReverseNamesSlopes
<1>8. Keeps(seed.arena, g.arena)
  BY <1>2, <1>6, ReverseAnswers DEF Partials
<1> SUFFICES ASSUME NEW C, NEW p, NEW i, NEW n, NEW v, NEW t, NEW w, NEW x,
                    Keeps(g.arena, C), Paired(n, C, p, i, v, t, w), n = Len(C.nodes), i \in 1..m,
                    x = Total(Duals, ColorTerms(Duals, m, w, d, hue, c), m), x # Duals.none
             PROVE  v[g.partial[i]] = x[2]
  BY DEF RowNames
<1>9. Keeps(seed.arena, C) /\ Keeps(stage.arena, C) /\ Keeps(B, C) /\ Sound(C)
  BY <1>4, <1>6, <1>8, KeepsTransitive DEF Keeps
<1>10. /\ Reads(Smooth, n, C, p, v, i, t) /\ Numbers(Duals, C, Moving(p, i), w)
       /\ Numbers(Smooth, C, p, v) /\ n \in Nat
  BY <1>9 DEF Paired, Reads, Sound, Arenas
<1>11. ValueOf(Duals, w, stage.e) = x
  BY <1>3, <1>9, <1>10 DEF Gives
<1>12. w[seed.id] = x
  <2> DEFINE A == stage.arena
             e == stage.e
             q == Moving(p, i)
  <2>1. Keeps(Materialise(A, e).arena, C) /\ Sound(A) /\ Names(A, e) /\ Numbers(Duals, C, q, w)
    BY <1>2, <1>4, <1>9, <1>10
  <2> HIDE DEF A, e, q
  <2>2. w[Materialise(A, e).id] = ValueOf(Duals, w, e)
    BY <2>1, MaterialiseValue
  <2>. QED BY <1>2, <1>11, <2>2 DEF A, e
<1>13. seed.id \in 1..n /\ seed.id \in Ids(C)
  BY <1>6, <1>9, IdsGrow DEF Ids
<1>14. x = Pair(v[seed.id], t[seed.id])
  BY <1>12, <1>13, DualsPair
<1>15. v[seed.id] \in Scalar /\ t[seed.id] \in Scalar /\ NaN \in Scalar
  <2>1. /\ v \in Seq(Smooth.all) /\ Len(v) = n /\ t \in Seq(Smooth.all) /\ Len(t) = n
    BY <1>10 DEF Numbers, Interprets, Reads, Differentiates
  <2>. QED BY <1>13, <2>1, SmoothReads, SmoothClosed
<1>16. x[2] = t[seed.id] /\ t[seed.id] # NaN
  BY <1>14, <1>15, PairReads
<1> DEFINE u == TangentsAt(Smooth, C, v, i, seed.id)
<1>17. Reads(Smooth, seed.id, C, p, v, i, u)
  <2>1. seed.id \in 0..Len(C.nodes) /\ NumbersTo(Smooth, seed.id, v)
    BY <1>10, <1>13 DEF Numbers, Interprets, NumbersTo
  <2>. QED BY <1>9, <1>10, <2>1, TangentsAnswer DEF Reads
<1> HIDE DEF u
<1>18. u[seed.id] = t[seed.id]
  <2>1. Keeps(C, C) /\ seed.id \in 0..Len(C.nodes) /\ seed.id <= n /\ seed.id \in 1..seed.id
    BY <1>9, <1>10, <1>13, ExtendsRefl
  <2>2. AgreeOn(1..seed.id, u, t)
    BY <1>9, <1>10, <1>17, <2>1, ReadsKept
  <2>. QED BY <2>1, <2>2 DEF AgreeOn
<1>19. v[g.partial[i]] = u[seed.id]
  <2>1. u[seed.id] # Smooth.none
    BY <1>16, <1>18, SmoothReads
  <2>. QED BY <1>7, <1>17, <2>1 DEF NamesSlopes
<1>. QED BY <1>16, <1>18, <1>19

-----------------------------------------------------------------------------
(* The tangent in direction j of a node that moves in direction i. *)
SecondTangent(C, p, i, j, r) == TangentsAt(Duals, C, ValuesAt(Duals, C, Moving(p, i)), j, r)[r]

LEMMA SecondReads ==
  ASSUME CalculusLaws(Smooth), CalculusLaws(Duals), NEW C, Sound(C), NEW r \in Ids(C),
         NEW p, p \in PointFor(Smooth, C), NEW i, NEW j,
         NEW w, w = ValuesAt(Duals, C, Moving(p, i)), NEW n \in r..Len(C.nodes)
  PROVE  /\ Reads(Duals, n, C, Moving(p, i), w, j, TangentsAt(Duals, C, w, j, n))
         /\ TangentsAt(Duals, C, w, j, n)[r] = SecondTangent(C, p, i, j, r)
         /\ SecondTangent(C, p, i, j, r) \in Duals.all
         /\ SecondDerivative(C, p, i, j, r) = SecondTangent(C, p, i, j, r)[2]
<1>0. Len(C.nodes) \in Nat /\ r \in 1..Len(C.nodes) /\ r \in Nat /\ n \in 0..Len(C.nodes)
        /\ r <= n
  BY DEF Ids, Sound, Arenas
<1>1. Moving(p, i) \in PointFor(Duals, C)
  <2>1. p \in [1..Len(C.symbols) -> Scalar]
    BY SmoothReads DEF PointFor
  <2>2. \A c, d \in Scalar : Pair(c, d) \in Duals.all
    BY SmoothClosed, PairReads, DualReads
  <2>. QED BY <2>1, <2>2, ScalarAssumption DEF Moving, PointFor
<1> DEFINE t(k) == TangentsAt(Duals, C, w, j, k)
<1>2. Reads(Duals, n, C, Moving(p, i), w, j, t(n)) /\ Reads(Duals, r, C, Moving(p, i), w, j, t(r))
  <2>1. r \in 0..Len(C.nodes)
    BY <1>0
  <2>. QED BY <1>0, <1>1, <2>1, OwnReads
<1> HIDE DEF t
<1>3. AgreeOn(1..r, t(r), t(n))
  <2>1. Keeps(C, C) /\ r \in 0..Len(C.nodes)
    BY <1>0, ExtendsRefl
  <2>. QED BY <1>0, <1>2, <2>1, ReadsKept
<1>4. t(n)[r] = t(r)[r]
  BY <1>0, <1>3 DEF AgreeOn
<1>5. t(r)[r] = SecondTangent(C, p, i, j, r)
  BY DEF t, SecondTangent
<1>6. t(r)[r] \in Duals.all
  BY <1>0, <1>2 DEF Reads, Differentiates
<1>7. SecondDerivative(C, p, i, j, r) = SecondTangent(C, p, i, j, r)[2]
  BY DEF SecondDerivative, SecondTangent
<1>. QED BY <1>2, <1>4, <1>5, <1>6, <1>7 DEF t

LEMMA UncoupledSecond ==
  ASSUME CalculusLaws(Smooth), CalculusLaws(Duals), NEW B, Sound(B), NEW r \in Ids(B),
         NEW C, Keeps(B, C), NEW p, p \in PointFor(Smooth, C), NEW i, NEW j,
         j \notin CouplingPattern(B, r)[i]
  PROVE  /\ SecondTangent(C, p, i, j, r) \in Flat
         /\ SecondDerivative(C, p, i, j, r) \in {Zero, NaN}
<1> DEFINE n == Len(B.nodes)
           w == ValuesAt(Duals, C, Moving(p, i))
           t == TangentsAt(Duals, C, w, j, n)
<1>1. /\ n \in r..Len(C.nodes) /\ r \in Ids(C) /\ Sound(C)
  BY DEF Keeps, Extends, Ids, Sound, Arenas
<1>2. Reads(Duals, n, C, Moving(p, i), w, j, t) /\ t[r] = SecondTangent(C, p, i, j, r)
  BY <1>1, SecondReads
<1>3. PICK ok, support : IsCovered(B, r, ok, support, CouplingPattern(B, r))
  BY PatternCovers
<1> HIDE DEF w, t
<1>4. Uncoupled(B, r, ok, support, CouplingPattern(B, r), i, j, C, p, w, t)
  BY <1>2, <1>3 DEF Uncoupled
<1>5. t[r] \in Flat
  BY <1>4, PatternFlat
<1>6. SecondDerivative(C, p, i, j, r) = t[r][2]
  BY <1>1, <1>2, SecondReads DEF w, t
<1>. QED BY <1>2, <1>5, <1>6, DualReads DEF Flat

-----------------------------------------------------------------------------
(* What the nodes of a Hessian stand for, in the arena A that has them and   *)
(* in whatever it becomes: z for zero, the partials d for the derivatives of *)
(* r, and each row of a colour for the derivatives of that colour's sum of   *)
(* partials.  The pattern R is that of an arena that A still has.            *)
ZeroNamed(A, z) == \A C, p, v : Keeps(A, C) /\ Numbers(Smooth, C, p, v) => v[z] = Zero
PatternKept(A, r, R) ==
  \E B : Sound(B) /\ Keeps(B, A) /\ r \in Ids(B) /\ R = CouplingPattern(B, r)
Grounded(A, r, d, R, z) ==
  /\ Sound(A) /\ NodesOnce(A) /\ r \in Ids(A)
  /\ d \in [1..Len(A.symbols) -> Ids(A)]
  /\ Pattern(Len(A.symbols), R) /\ PatternKept(A, r, R)
  /\ ZeroNamed(A, z)
  /\ NamesSlopes(Duals, r, Len(A.symbols), [arena |-> A, partial |-> d])
Swept(A, d, hue, q) ==
  \A c \in 1..Len(q) : RowNames(Len(A.symbols), A, d, hue, c, q[c])
Painted(m, R, hue) == hue \in [1..m -> 1..m] /\ Apart(m, R, hue) /\ NoGap(m, hue)

LEMMA GroundedKept ==
  ASSUME NEW A, NEW r, NEW d, NEW R, NEW z, Grounded(A, r, d, R, z), NEW C, Keeps(A, C)
  PROVE  Grounded(C, r, d, R, z)
<1> DEFINE m == Len(A.symbols)
           g == [arena |-> A, partial |-> d]
           h == [arena |-> C, partial |-> d]
<1>0. /\ Sound(A) /\ NodesOnce(A) /\ r \in Ids(A) /\ d \in [1..m -> Ids(A)] /\ Pattern(m, R)
      /\ PatternKept(A, r, R) /\ ZeroNamed(A, z) /\ NamesSlopes(Duals, r, m, g)
  BY DEF Grounded
<1>1. /\ Sound(C) /\ NodesOnce(C) /\ Len(C.symbols) = m /\ Ids(A) \subseteq Ids(C)
      /\ r \in Ids(C)
  BY <1>0, IdsGrow DEF Keeps
<1>2. \A D : Keeps(C, D) => Keeps(A, D)
  BY <1>0, KeepsTransitive
<1>3. d \in [1..m -> Ids(C)]
  BY <1>0, <1>1
<1>4. PatternKept(C, r, R)
  <2>1. PICK B : Sound(B) /\ Keeps(B, A) /\ r \in Ids(B) /\ R = CouplingPattern(B, r)
    BY <1>0 DEF PatternKept
  <2>2. Keeps(B, C)
    BY <2>1, KeepsTransitive
  <2>. QED BY <2>1, <2>2 DEF PatternKept
<1>5. ZeroNamed(C, z)
  BY <1>0, <1>2 DEF ZeroNamed
<1>6. g.arena = A /\ h.arena = C /\ g.partial = d /\ h.partial = d
  OBVIOUS
<1>7. NamesSlopes(Duals, r, m, h)
  <2> HIDE DEF g, h, m
  <2>. QED BY <1>0, <1>2, <1>6 DEF NamesSlopes
<1>. QED BY <1>0, <1>1, <1>3, <1>4, <1>5, <1>7 DEF Grounded

(* ... from the first step of the call on. *)
LEMMA GradientGrounds ==
  ASSUME CalculusLaws(Smooth), CalculusLaws(Duals),
         NEW B, Sound(B), NodesOnce(B), NEW r \in Ids(B),
         NEW g, g = ReverseGradient(B, r), NEW z, z = Constant(g.arena, Zero)
  PROVE  /\ Grounded(z.arena, r, g.partial, CouplingPattern(g.arena, r), z.id)
         /\ Keeps(B, g.arena) /\ Keeps(B, z.arena) /\ z.id \in Ids(z.arena)
         /\ g \in [arena : Arenas, partial : [1..Len(B.symbols) -> Ids(g.arena)]]
<1> DEFINE m == Len(B.symbols)
           d == g.partial
           A == g.arena
           C == z.arena
           h == [arena |-> C, partial |-> d]
<1>1. Partials(B, g) /\ NamesSlopes(Duals, r, m, g)
  BY ReverseAnswers, ReverseNamesSlopes
<1>2. /\ Keeps(B, A) /\ Sound(A) /\ NodesOnce(A) /\ A.symbols = B.symbols
      /\ r \in Ids(A) /\ d \in [1..m -> Ids(A)]
      /\ g \in [arena : Arenas, partial : [1..m -> Ids(A)]]
  BY <1>1, IdsGrow DEF Partials, Keeps
<1>3. Answers(A, z)
  BY <1>2, ConstantAnswers, ScalarAssumption
<1>4. \A D, p, v : Keeps(C, D) /\ Numbers(Smooth, D, p, v) => v[z.id] = Smooth.of[Zero]
  BY <1>2, ConstantReads, ScalarAssumption
<1>5. /\ Keeps(A, C) /\ Sound(C) /\ NodesOnce(C) /\ C.symbols = B.symbols /\ z.id \in Ids(C)
      /\ Ids(A) \subseteq Ids(C) /\ Keeps(B, C)
  BY <1>2, <1>3, IdsGrow, KeepsTransitive DEF Answers, Keeps
<1>6. ZeroNamed(C, z.id)
  BY <1>4, SmoothReads, ScalarAssumption DEF ZeroNamed
<1>7. Pattern(m, CouplingPattern(A, r)) /\ PatternKept(C, r, CouplingPattern(A, r))
  BY <1>2, <1>5, PatternAnswers DEF PatternKept
<1>8. NamesSlopes(Duals, r, m, h)
  <2>1. h.arena = C /\ h.partial = d /\ \A D : Keeps(C, D) => Keeps(g.arena, D)
    BY <1>2, <1>5, KeepsTransitive
  <2> HIDE DEF h
  <2>. QED BY <1>1, <2>1 DEF NamesSlopes
<1>9. r \in Ids(C) /\ d \in [1..m -> Ids(C)] /\ Len(C.symbols) = m
  BY <1>2, <1>5
<1>10. Grounded(C, r, d, CouplingPattern(A, r), z.id)
  BY <1>5, <1>6, <1>7, <1>8, <1>9 DEF Grounded
<1>. QED BY <1>2, <1>5, <1>10

LEMMA ColorRowSwept ==
  ASSUME CalculusLaws(Smooth), CalculusLaws(Duals),
         NEW A, NEW r, NEW d, NEW R, NEW z, Grounded(A, r, d, R, z),
         NEW hue, hue \in [1..Len(A.symbols) -> Nat], NEW T, NEW q \in Seq(T), Swept(A, d, hue, q),
         NEW row, row = ColorRow(A, d, hue, Len(q) + 1)
  PROVE  Keeps(A, row.arena) /\ Swept(row.arena, d, hue, Append(q, row.partial))
<1> DEFINE m == Len(A.symbols)
           c == Len(q) + 1
           C == row.arena
           t == Append(q, row.partial)
<1>0. Sound(A) /\ NodesOnce(A) /\ d \in [1..m -> Ids(A)] /\ c \in Nat
  BY DEF Grounded
<1>1. Partials(A, row) /\ RowNames(m, C, d, hue, c, row.partial)
  BY <1>0, ColorRowAnswers, ColorRowNames
<1>2. Keeps(A, C) /\ Len(C.symbols) = m
  BY <1>1 DEF Partials, Keeps
<1>3. \A D : Keeps(C, D) => Keeps(A, D)
  BY <1>0, <1>2, KeepsTransitive
<1>4. Len(t) = c /\ t[c] = row.partial /\ \A k \in 1..Len(q) : t[k] = q[k]
  <2> DEFINE x == row.partial
  <2>1. t = Append(q, x)
    OBVIOUS
  <2> HIDE DEF x
  <2>2. Len(t) = c /\ t[c] = x /\ \A k \in 1..Len(q) : t[k] = q[k]
    BY <2>1
  <2>. QED BY <2>2 DEF x
<1> HIDE DEF t, C
<1>5. ASSUME NEW k \in 1..c PROVE RowNames(m, C, d, hue, k, t[k])
  <2>1. CASE k = c
    BY <1>1, <1>4, <2>1
  <2>2. CASE k # c
    <3>1. k \in 1..Len(q)
      BY <2>2
    <3>2. RowNames(m, A, d, hue, k, q[k])
      BY <3>1 DEF Swept
    <3> HIDE DEF m
    <3>3. RowNames(m, C, d, hue, k, q[k])
      BY ONLY <1>3, <3>2 DEF RowNames
    <3>. QED BY <1>4, <3>1, <3>3
  <2>. QED BY <2>1, <2>2
<1>6. Swept(C, d, hue, t)
  BY <1>2, <1>4, <1>5 DEF Swept
<1>. QED BY <1>2, <1>6 DEF C, t

(* The column of a row's colour: the only one that the row couples. *)
LEMMA TargetReads ==
  ASSUME NEW m, NEW R, Pattern(m, R), NEW hue, Apart(m, R, hue), \A k \in 1..m : hue[k] # 0,
         NEW i \in 1..m, NEW j \in 1..m
  PROVE  /\ Target(R, hue, hue[j], i) = j =>
              /\ j \in R[i]
              /\ \A k \in 1..m : k # j /\ hue[k] = hue[j] => k \notin R[i]
         /\ Target(R, hue, hue[j], i) # j => j \notin R[i]
<1> DEFINE owners == {k \in DOMAIN R : hue[k] = hue[j] /\ i \in R[k]}
<1>0. /\ DOMAIN R = 1..m /\ \A k \in 1..m : i \in R[k] <=> k \in R[i]
      /\ NoColumn \notin 1..m
  BY DEF Pattern, NoColumn
<1>1. \A k, l \in owners : k = l
  <2> SUFFICES ASSUME NEW k \in owners, NEW l \in owners, k # l PROVE FALSE
    OBVIOUS
  <2>1. k \in 1..m /\ l \in 1..m /\ hue[k] = hue[l] /\ i \in R[k] /\ i \in R[l]
    BY <1>0
  <2>2. ~Conflict(R, k, l)
    BY <2>1 DEF Apart
  <2>. QED BY <2>1, <2>2 DEF Conflict
<1>2. Target(R, hue, hue[j], i) = IF owners = {} THEN NoColumn ELSE LastOf(owners)
  BY DEF Target
<1>3. \A k \in 1..m : k \in owners <=> hue[k] = hue[j] /\ k \in R[i]
  BY <1>0
<1> HIDE DEF owners
<1>4. CASE owners = {}
  BY <1>0, <1>2, <1>3, <1>4
<1>5. ASSUME NEW l \in owners PROVE LastOf(owners) = l
  <2>1. owners = {l}
    BY <1>1
  <2>2. l \in 1..m
    BY <1>0 DEF owners
  <2>3. l <= l
    BY <2>2
  <2>. QED BY <2>1, <2>3 DEF LastOf
<1>6. CASE owners # {}
  <2>1. PICK l \in owners : TRUE
    BY <1>6
  <2>2. Target(R, hue, hue[j], i) = l
    BY <1>2, <1>5, <1>6
  <2>. QED BY <1>1, <1>3, <2>1, <2>2
<1>. QED BY <1>4, <1>6

(* The whole of a call's answer, and the same in whatever the arena becomes. *)
Complete(A, r, d, h) ==
  /\ Grounded(A, r, d, h.rows, h.zero)
  /\ Painted(Len(A.symbols), h.rows, h.color)
  /\ Len(h.compressed) = ColorCount(h.color) /\ Swept(A, d, h.color, h.compressed)

LEMMA CompleteKept ==
  ASSUME NEW A, NEW r, NEW d, NEW h, Complete(A, r, d, h), NEW C, Keeps(A, C)
  PROVE  Complete(C, r, d, h)
<1>1. /\ Sound(A) /\ Len(C.symbols) = Len(A.symbols)
      /\ \A D : Keeps(C, D) => Keeps(A, D)
  BY KeepsTransitive DEF Complete, Grounded, Keeps
<1>2. Grounded(C, r, d, h.rows, h.zero)
  BY GroundedKept DEF Complete
<1>3. Swept(C, d, h.color, h.compressed)
  <2>1. \A c \in 1..Len(h.compressed) :
          RowNames(Len(A.symbols), A, d, h.color, c, h.compressed[c])
    BY DEF Complete, Swept
  <2>2. ASSUME NEW c \in 1..Len(h.compressed)
        PROVE RowNames(Len(C.symbols), C, d, h.color, c, h.compressed[c])
    <3> DEFINE m == Len(A.symbols)
               q == h.compressed[c]
               hue == h.color
    <3>1. RowNames(m, A, d, hue, c, q) /\ Len(C.symbols) = m
      BY <1>1, <2>1
    <3> HIDE DEF m, q, hue
    <3>2. RowNames(m, C, d, hue, c, q)
      BY ONLY <1>1, <3>1 DEF RowNames
    <3>. QED BY <3>1, <3>2 DEF q, hue
  <2>. QED BY <2>2 DEF Swept
<1>. QED BY <1>1, <1>2, <1>3 DEF Complete

(* What a sweep's row has for the one column that the row couples. *)
LEMMA EntryReads ==
  ASSUME CalculusLaws(Smooth), CalculusLaws(Duals),
         NEW A, NEW r, NEW d, NEW h, Complete(A, r, d, h), NEW p \in PointFor(Smooth, A),
         NEW i \in 1..Len(A.symbols), NEW j \in 1..Len(A.symbols),
         \A k \in 1..Len(A.symbols) : k # j /\ h.color[k] = h.color[j] => k \notin h.rows[i],
         SecondDerivative(A, p, i, j, r) # NaN
  PROVE  ValuesAt(Smooth, A, p)[h.compressed[h.color[j]][i]] = SecondDerivative(A, p, i, j, r)
<1> DEFINE m == Len(A.symbols)
           n == Len(A.nodes)
           R == h.rows
           hue == h.color
           q == h.compressed
           v == ValuesAt(Smooth, A, p)
           t == TangentsAt(Smooth, A, v, i, n)
           w == ValuesAt(Duals, A, Moving(p, i))
           D(k) == SecondTangent(A, p, i, k, r)
           term == ColorTerms(Duals, m, w, d, hue, hue[j])
<1>0. /\ Sound(A) /\ m \in Nat /\ n \in Nat /\ r \in Ids(A) /\ r \in 1..n
      /\ Pattern(m, R) /\ d \in [1..m -> Ids(A)]
      /\ hue \in [1..m -> 1..m] /\ NoGap(m, hue) /\ Len(q) = ColorCount(hue)
      /\ NamesSlopes(Duals, r, m, [arena |-> A, partial |-> d]) /\ PatternKept(A, r, R)
      /\ Swept(A, d, hue, q)
  BY DEF Complete, Grounded, Painted, Sound, Arenas, Ids
<1>1. Keeps(A, A)
  BY <1>0, ExtendsRefl
<1>2. ASSUME NEW k
      PROVE  /\ Reads(Duals, r, A, Moving(p, i), w, k, TangentsAt(Duals, A, w, k, r))
             /\ TangentsAt(Duals, A, w, k, r)[r] = D(k)
             /\ D(k) \in Duals.all /\ SecondDerivative(A, p, i, k, r) = D(k)[2]
  <2>1. /\ r \in r..Len(A.nodes) /\ w = ValuesAt(Duals, A, Moving(p, i))
        /\ Sound(A) /\ r \in Ids(A)
    BY <1>0
  <2> HIDE DEF w, v, t, n, term
  <2>2. /\ Reads(Duals, r, A, Moving(p, i), w, k, TangentsAt(Duals, A, w, k, r))
        /\ TangentsAt(Duals, A, w, k, r)[r] = SecondTangent(A, p, i, k, r)
        /\ SecondTangent(A, p, i, k, r) \in Duals.all
        /\ SecondDerivative(A, p, i, k, r) = SecondTangent(A, p, i, k, r)[2]
    BY ONLY <2>1, p \in PointFor(Smooth, A),
            CalculusLaws(Smooth), CalculusLaws(Duals), SecondReads
  <2>. QED BY <2>2
<1>3. Paired(n, A, p, i, v, t, w)
  <2>1. n \in 0..Len(A.nodes)
    BY <1>0
  <2>2. Reads(Smooth, n, A, p, v, i, t)
    BY <1>0, <2>1, OwnReads
  <2>. QED BY <1>2, <2>2 DEF Paired, Reads
<1> HIDE DEF w, D
<1>4. D(j) # Duals.none
  BY <1>2, SmoothClosed, DualReads, DualParts
<1>5. ASSUME NEW k \in 1..m PROVE D(k) # Duals.none /\ w[d[k]] = D(k)
  <2> DEFINE x == TangentsAt(Duals, A, w, j, r)
             y == TangentsAt(Duals, A, w, k, r)
             g == [arena |-> A, partial |-> d]
  <2>1. /\ Reads(Duals, r, A, Moving(p, i), w, j, x) /\ x[r] = D(j)
        /\ Reads(Duals, r, A, Moving(p, i), w, k, y) /\ y[r] = D(k)
        /\ NamesSlopes(Duals, r, m, g) /\ g.arena = A /\ g.partial = d
    BY <1>0, <1>2
  <2> HIDE DEF x, y, g, m
  <2>2. y[r] # Duals.none
    <3>1. Directions(Duals, r, A, Moving(p, i), w, j, x, k, y) /\ r \in 1..r
      BY <1>0, <2>1 DEF Directions
    <3>. QED BY <1>4, <2>1, <3>1, TangentsDefined
  <2>3. w[d[k]] = y[r]
    BY ONLY <1>1, <2>1, <2>2, k \in 1..m DEF NamesSlopes
  <2>. QED BY <2>1, <2>2, <2>3
<1>6. ASSUME NEW k \in 1..m, k # j, hue[k] = hue[j] PROVE D(k)[2] = Zero
  <2>1. PICK B : Sound(B) /\ Keeps(B, A) /\ r \in Ids(B) /\ R = CouplingPattern(B, r)
    BY <1>0 DEF PatternKept
  <2>2. D(k) \in Flat
    BY <1>6, <2>1, UncoupledSecond DEF D
  <2>. QED BY <1>5, <2>2 DEF Flat
<1>7. /\ Duals.of[Zero] \in Duals.all /\ Duals.of[Zero] # Duals.none /\ Duals.of[Zero][2] = Zero
  <2>1. NaN \in Scalar /\ NaN # Zero /\ Zero \in Scalar
    BY SmoothClosed, ScalarAssumption
  <2>. QED BY <2>1, DualReads, PairReads
<1>8. \A k \in 1..m : term[k] = IF hue[k] = hue[j] THEN D(k) ELSE Duals.of[Zero]
  BY <1>5 DEF ColorTerms
<1> DEFINE x == Total(Duals, term, m)
<1>9. x # Duals.none /\ x[2] = D(j)[2]
  <2>1. \A k \in 1..m : term[k] \in Duals.all \ {Duals.none}
    BY <1>2, <1>5, <1>7, <1>8
  <2>2. \A k \in 1..m : k # j => term[k][2] = Zero
    BY <1>6, <1>7, <1>8
  <2>3. term[j] = D(j)
    BY <1>8
  <2>4. m \in Nat /\ j \in 1..m
    BY <1>0
  <2> HIDE DEF term, m
  <2>5. Total(Duals, term, m) # Duals.none /\ Total(Duals, term, m)[2] = term[j][2]
    BY ONLY <2>1, <2>2, <2>4, CalculusLaws(Smooth), CalculusLaws(Duals), SecondOfTotal
  <2>. QED BY <2>3, <2>5
<1>10. RowNames(m, A, d, hue, hue[j], q[hue[j]])
  <2>1. hue[j] \in 1..ColorCount(hue)
    BY <1>0, ColorsCounted
  <2>. QED BY <1>0, <2>1 DEF Swept
<1>11. v[q[hue[j]][i]] = x[2]
  <2>1. x = Total(Duals, ColorTerms(Duals, m, w, d, hue, hue[j]), m) /\ n = Len(A.nodes)
          /\ i \in 1..m
    OBVIOUS
  <2> HIDE DEF x, v, t, n, m, q, hue
  <2>. QED BY <1>1, <1>3, <1>9, <1>10, <2>1 DEF RowNames
<1>. QED BY <1>2, <1>9, <1>11

(* Every entry that is read is the second derivative it stands for, wherever *)
(* that has a value: the one term of its colour's sum that the row couples,  *)
(* or the zero node where the row couples none.                              *)
LEMMA EntryMeans ==
  ASSUME CalculusLaws(Smooth), CalculusLaws(Duals),
         NEW A, NEW r, NEW d, NEW h, Complete(A, r, d, h), NEW p \in PointFor(Smooth, A),
         NEW i \in 1..Len(A.symbols), NEW j \in 1..Len(A.symbols),
         SecondDerivative(A, p, i, j, r) # NaN
  PROVE  ValuesAt(Smooth, A, p)[Entry(h, i, j)] = SecondDerivative(A, p, i, j, r)
<1> DEFINE m == Len(A.symbols)
<1>1. /\ Sound(A) /\ Pattern(m, h.rows) /\ Apart(m, h.rows, h.color)
      /\ \A k \in 1..m : h.color[k] # 0
      /\ ZeroNamed(A, h.zero) /\ PatternKept(A, r, h.rows)
  <2> DEFINE hue == h.color
  <2>1. /\ Sound(A) /\ Pattern(m, h.rows) /\ ZeroNamed(A, h.zero) /\ PatternKept(A, r, h.rows)
        /\ hue \in [1..m -> 1..m] /\ Apart(m, h.rows, hue)
    BY DEF Complete, Grounded, Painted
  <2> HIDE DEF hue, m
  <2>2. \A k \in 1..m : hue[k] # 0
    BY <2>1
  <2>. QED BY <2>1, <2>2 DEF hue
<1>2. CASE Target(h.rows, h.color, h.color[j], i) = j
  <2>1. Entry(h, i, j) = h.compressed[h.color[j]][i]
    BY <1>2 DEF Entry
  <2>2. \A k \in 1..m : k # j /\ h.color[k] = h.color[j] => k \notin h.rows[i]
    BY <1>1, <1>2, TargetReads
  <2>. QED BY <2>1, <2>2, EntryReads
<1>3. CASE Target(h.rows, h.color, h.color[j], i) # j
  <2>1. Entry(h, i, j) = h.zero
    BY <1>3 DEF Entry
  <2>2. j \notin h.rows[i]
    BY <1>1, <1>3, TargetReads
  <2>3. PICK B : Sound(B) /\ Keeps(B, A) /\ r \in Ids(B) /\ h.rows = CouplingPattern(B, r)
    BY <1>1 DEF PatternKept
  <2>4. SecondDerivative(A, p, i, j, r) = Zero
    BY <2>2, <2>3, UncoupledSecond
  <2>5. ValuesAt(Smooth, A, p)[h.zero] = Zero
    <3>1. Conversion(Smooth) /\ Keeps(A, A)
      BY <1>1, ExtendsRefl DEF CalculusLaws, NumberLaws
    <3>2. Numbers(Smooth, A, p, ValuesAt(Smooth, A, p))
      BY <1>1, <3>1, ValuesAnswers DEF Numbers
    <3>. QED BY <1>1, <3>1, <3>2 DEF ZeroNamed
  <2>. QED BY <2>1, <2>4, <2>5
<1>. QED BY <1>2, <1>3

(* A block of the call, with k of its colours swept. *)
Filled(h0, r, d, k, s) ==
  /\ s.rows = h0.rows /\ s.color = h0.color /\ s.zero = h0.zero /\ Len(s.compressed) = k
  /\ Grounded(s.arena, r, d, h0.rows, h0.zero) /\ Swept(s.arena, d, h0.color, s.compressed)

LEMMA NextColorFilled ==
  ASSUME CalculusLaws(Smooth), CalculusLaws(Duals),
         NEW B, NEW s, Block(B, s), NEW h0, NEW r, NEW d, NEW k \in Nat \ {0},
         Filled(h0, r, d, k - 1, s), NEW t, t = NextColor(s, d, k)
  PROVE  Filled(h0, r, d, k, t)
<1> DEFINE m == Len(B.symbols)
           A == s.arena
           hue == h0.color
           q == s.compressed
           row == ColorRow(A, d, hue, Len(q) + 1)
           T == [1..m -> Nat]
<1>1. /\ Len(A.symbols) = m /\ q \in Seq(T) /\ hue \in [1..m -> 1..m]
  BY DEF Block, Blocks, Keeps, Filled
<1>2. /\ Grounded(A, r, d, h0.rows, h0.zero) /\ Swept(A, d, hue, q) /\ Len(q) + 1 = k
      /\ s.rows = h0.rows /\ s.color = hue /\ s.zero = h0.zero
  BY DEF Filled
<1> HIDE DEF T, A, q, hue
<1>3. hue \in [1..Len(A.symbols) -> Nat]
  BY <1>1
<1>4. Keeps(A, row.arena) /\ Swept(row.arena, d, hue, Append(q, row.partial))
  BY <1>1, <1>2, <1>3, ColorRowSwept
<1>5. Grounded(row.arena, r, d, h0.rows, h0.zero)
  BY <1>2, <1>4, GroundedKept
<1>6. t = [arena |-> row.arena, rows |-> s.rows, color |-> s.color,
           compressed |-> Append(q, row.partial), zero |-> s.zero]
  BY <1>2 DEF NextColor, WithColorRow, A, q
<1> HIDE DEF row
<1>7. Len(Append(q, row.partial)) = k
  <2> DEFINE x == row.partial
  <2> HIDE DEF x
  <2>1. Len(Append(q, x)) = k
    BY <1>1, <1>2
  <2>. QED BY <2>1 DEF x
<1>. QED BY <1>2, <1>4, <1>5, <1>6, <1>7 DEF Filled, hue

LEMMA CompressedFilled ==
  ASSUME CalculusLaws(Smooth), CalculusLaws(Duals),
         NEW B, Sound(B), NEW m, m = Len(B.symbols), NEW d, d \in [1..m -> Ids(B)],
         NEW h0, Block(B, h0), NEW r, Filled(h0, r, d, 0, h0)
  PROVE  Filled(h0, r, d, ColorCount(h0.color), Compressed(h0, d))
<1>1. PICK n, f : CompressedRun(n, B, d, h0, f) /\ Compressed(h0, d) = f[n]
  BY CompressedRuns
<1>2. /\ n = ColorCount(h0.color) /\ n \in Nat /\ f[0] = h0
      /\ \A k \in 1..n : f[k] = NextColor(f[k - 1], d, k)
      /\ \A k \in 0..n : Block(B, f[k])
  BY <1>1 DEF CompressedRun
<1> DEFINE States == {f[k] : k \in 0..n}
           G == [k \in 0..n |-> {s \in States : Filled(h0, r, d, k, s)}]
<1>3. f[0] \in G[0]
  BY <1>2
<1>4. ASSUME NEW k \in 1..n, f[k - 1] \in G[k - 1] PROVE f[k] \in G[k]
  <2>1. k \in 0..n /\ k - 1 \in 0..n /\ k \in Nat \ {0}
    BY <1>2
  <2>2. Filled(h0, r, d, k - 1, f[k - 1]) /\ Block(B, f[k - 1]) /\ f[k] = NextColor(f[k - 1], d, k)
    BY <1>2, <1>4, <2>1
  <2>3. Filled(h0, r, d, k, f[k])
    BY <2>1, <2>2, NextColorFilled
  <2>. QED BY <2>1, <2>3
<1>5. f[n] \in G[n]
  <2> HIDE DEF G
  <2>1. \A k \in 0..n : f[k] \in G[k]
    BY <1>2, <1>3, <1>4, LoopInvariant
  <2>. QED BY <1>2, <2>1
<1>. QED BY <1>1, <1>2, <1>5

(* hessian(): all that the call returns means what it stands for. *)
LEMMA HessianMeans ==
  ASSUME CalculusLaws(Smooth), CalculusLaws(Duals),
         NEW B, Sound(B), NodesOnce(B), NEW r \in Ids(B), NEW h, h = HessianOf(B, r)
  PROVE  /\ \E d : Complete(h.arena, r, d, h)
         /\ h.color = GreedyColors(h.rows, [j \in DOMAIN h.rows |-> j])
<1> DEFINE m == Len(B.symbols)
           g == ReverseGradient(B, r)
           z == Constant(g.arena, Zero)
           rows == CouplingPattern(g.arena, r)
           d == g.partial
           h0 == Colored(rows, z)
<1>1. /\ Grounded(z.arena, r, d, rows, z.id) /\ Keeps(B, g.arena) /\ Keeps(B, z.arena)
      /\ z.id \in Ids(z.arena)
  BY GradientGrounds
<1>2. h = Compressed(h0, d)
  BY DEF HessianOf, HessianFrom
<1> HIDE DEF g, z, rows, d
<1>3. /\ Sound(z.arena) /\ Len(z.arena.symbols) = m /\ m \in Nat /\ Pattern(m, rows)
      /\ DOMAIN rows = 1..m /\ d \in [1..m -> Ids(z.arena)]
  BY <1>1 DEF Grounded, Keeps, Sound, Arenas, Pattern
<1> DEFINE order == [j \in 1..m |-> j]
           hue == GreedyColors(rows, order)
<1>4. Painted(m, rows, hue)
  <2>1. IsOrder(m, order)
    BY DEF IsOrder
  <2> HIDE DEF order, m
  <2>. QED BY <1>3, <2>1, GreedyAnswers DEF Painted
<1>5. h0 = [arena |-> z.arena, rows |-> rows, color |-> hue, compressed |-> <<>>, zero |-> z.id]
  BY <1>3 DEF Colored, Uncompressed
<1> HIDE DEF hue, h0
<1>6. Block(z.arena, h0)
  <2>1. hue \in [1..m -> 1..m]
    BY <1>4 DEF Painted
  <2>2. h0 \in Blocks(m)
    BY <1>1, <1>3, <1>5, <2>1 DEF Blocks, Pattern, Sound, Ids
  <2>3. Keeps(z.arena, z.arena)
    BY <1>3, ExtendsRefl
  <2>. QED BY <1>1, <1>3, <1>5, <2>2, <2>3 DEF Block
<1>7. Filled(h0, r, d, 0, h0)
  <2>1. Swept(z.arena, d, hue, <<>>) /\ Len(<<>>) = 0
    BY DEF Swept
  <2>. QED BY <1>1, <1>5, <2>1 DEF Filled
<1>8. Filled(h0, r, d, ColorCount(hue), h)
  <2>1. h0.color = hue
    BY <1>5
  <2>. QED BY <1>2, <1>3, <1>6, <1>7, <2>1, CompressedFilled
<1>9. /\ h.rows = rows /\ h.color = hue /\ h.zero = z.id /\ Len(h.compressed) = ColorCount(hue)
      /\ Grounded(h.arena, r, d, rows, z.id) /\ Swept(h.arena, d, hue, h.compressed)
  BY <1>5, <1>8 DEF Filled
<1>10. Len(h.arena.symbols) = m
  <2>1. DOMAIN d = 1..m /\ DOMAIN d = 1..Len(h.arena.symbols) /\ Len(h.arena.symbols) \in Nat
    BY <1>3, <1>9 DEF Grounded, Sound, Arenas
  <2>. QED BY <1>3, <2>1
<1>11. h.color = GreedyColors(h.rows, [j \in DOMAIN h.rows |-> j])
  <2>1. DOMAIN rows = 1..m
    BY <1>3
  <2>. QED BY <1>9, <2>1 DEF hue, order
<1>. QED BY <1>4, <1>9, <1>10, <1>11 DEF Complete

(* ... as long as the arena, grown since, still has it. *)
LEMMA SecondsNamed ==
  ASSUME CalculusLaws(Smooth), CalculusLaws(Duals),
         NEW B, Sound(B), NodesOnce(B), NEW r \in Ids(B), NEW h, h = HessianOf(B, r),
         NEW C, Keeps(h.arena, C), NEW p \in PointFor(Smooth, C),
         NEW i \in 1..Len(C.symbols), NEW j \in 1..Len(C.symbols),
         SecondDerivative(C, p, i, j, r) # NaN
  PROVE  ValuesAt(Smooth, C, p)[Entry(h, i, j)] = SecondDerivative(C, p, i, j, r)
<1>1. PICK d : Complete(h.arena, r, d, h)
  BY HessianMeans
<1>2. Complete(C, r, d, h)
  BY <1>1, CompleteKept
<1>. QED BY <1>2, EntryMeans

-----------------------------------------------------------------------------
(* A sweep made again, in an arena that has what it formed and may have been *)
(* given more: it answers the same ids, and forms nothing.                   *)

(* The sweep t over a snapshot of m nodes is s, over the first n of them: no *)
(* node past those has an adjoint.                                           *)
Spread(n, s, m, C, t) ==
  /\ m \in Nat /\ n \in 0..m
  /\ t = [arena |-> C, adj |-> [v \in 1..m |-> IF v \in 1..n THEN s.adj[v] ELSE NoNode]]

(* A contribution made again is the same adjoint, and forms nothing. *)
LEMMA AddToAgain ==
  ASSUME NEW n, NEW s, Sweeping(n, s), NEW child \in 1..n, NEW stage, Stage(s.arena, stage),
         NEW C, Recalls(AddTo(s, child, stage).arena, C), NEW m, NEW t, Spread(n, s, m, C, t)
  PROVE  Spread(n, AddTo(s, child, stage), m, C, AddTo(t, child, [arena |-> C, e |-> stage.e]))
<1> DEFINE c == Materialise(stage.arena, stage.e)
           total == Sum(s, child, c)
           redone == Materialise(C, stage.e)
           again == Sum(t, child, redone)
<1>0. /\ Sound(s.arena) /\ Keeps(s.arena, stage.arena) /\ Sound(stage.arena)
      /\ Names(stage.arena, stage.e)
  BY DEF Sweeping, Stage, Keeps
<1>1. Keeps(stage.arena, c.arena) /\ c.id \in Ids(c.arena) /\ Sound(c.arena)
  BY <1>0, MaterialiseAnswers DEF Answers, Keeps
<1>2. Ids(s.arena) \subseteq Ids(c.arena)
  BY <1>0, <1>1, KeepsTransitive, IdsGrow
<1>3. AddTo(s, child, stage) = [arena |-> total.arena, adj |-> [s.adj EXCEPT ![child] = total.id]]
  BY DEF AddTo, AddedTo, Recorded, IdOf
<1>4. AddTo(t, child, [arena |-> C, e |-> stage.e]) =
        [arena |-> again.arena, adj |-> [t.adj EXCEPT ![child] = again.id]]
  BY DEF AddTo, AddedTo, Recorded, IdOf
<1>5. Recalls(total.arena, C)
  BY <1>3
<1>6. /\ n \in Nat /\ m \in Nat /\ n <= m /\ t.arena = C /\ t.adj[child] = s.adj[child]
      /\ t.adj = [v \in 1..m |-> IF v \in 1..n THEN s.adj[v] ELSE NoNode]
      /\ s.adj \in [1..n -> Nat]
  BY DEF Spread, Sweeping
<1> HIDE DEF c
<1>7. again = [arena |-> C, id |-> total.id]
  <2>1. CASE s.adj[child] = NoNode
    <3>1. total = c
      BY <2>1 DEF Sum
    <3>2. redone = [arena |-> C, id |-> c.id]
      BY <1>0, <1>5, <3>1, MaterialiseAgain DEF c
    <3>3. again = redone
      BY <1>6, <2>1 DEF Sum
    <3>. QED BY <3>1, <3>2, <3>3
  <2>2. CASE s.adj[child] # NoNode
    <3>1. total = Make(c.arena, "Add", s.adj[child], c.id)
      BY <2>2 DEF Sum
    <3>2. s.adj[child] \in Ids(c.arena)
      BY <1>2, <2>2 DEF Sweeping
    <3>3. Recalls(c.arena, C)
      BY <1>1, <1>5, <3>1, <3>2, MakeBinaryAnswers, RecallsBefore, RuleAssumption DEF Answers
    <3>4. redone = [arena |-> C, id |-> c.id]
      BY <1>0, <3>3, MaterialiseAgain DEF c
    <3> HIDE DEF redone
    <3>5. again = Make(C, "Add", s.adj[child], c.id)
      BY <1>6, <2>2, <3>4 DEF Sum
    <3>. QED BY <1>1, <1>5, <3>1, <3>2, <3>5, MakeBinaryAgain, RuleAssumption
  <2>. QED BY <2>1, <2>2
<1> HIDE DEF total, again
<1>8. [t.adj EXCEPT ![child] = again.id] =
        [v \in 1..m |-> IF v \in 1..n THEN [s.adj EXCEPT ![child] = total.id][v] ELSE NoNode]
  BY <1>6, <1>7
<1> DEFINE sum == AddTo(s, child, stage)
           resum == AddTo(t, child, [arena |-> C, e |-> stage.e])
<1>9. sum.adj = [s.adj EXCEPT ![child] = total.id]
  BY <1>3
<1>10. resum = [arena |-> C, adj |-> [v \in 1..m |-> IF v \in 1..n THEN sum.adj[v] ELSE NoNode]]
  BY <1>4, <1>7, <1>8, <1>9
<1> HIDE DEF sum, resum
<1>11. Spread(n, sum, m, C, resum)
  BY <1>6, <1>10 DEF Spread
<1>. QED BY <1>11 DEF sum, resum

(* So is all that the loop body adds at a node. *)
LEMMA SweepAtAgain ==
  ASSUME NEW n, NEW s, Sweeping(n, s), NEW v \in 1..n,
         NEW C, Recalls(SweepAt(s, v).arena, C), NEW m, NEW t, Spread(n, s, m, C, t)
  PROVE  Spread(n, SweepAt(s, v), m, C, SweepAt(t, v))
<1> DEFINE B == s.arena
           node == B.nodes[v]
<1>0. /\ Sound(B) /\ Keeps(B, B) /\ n \in Nat /\ v \in Ids(B)
      /\ node.op \in {"Const", "Var"} \cup UnaryOps \cup BinaryOps
      /\ node.op \in UnaryOps \cup BinaryOps => node.a \in 1..n
      /\ node.op \in BinaryOps => node.b \in 1..n
      /\ 1..n \subseteq Ids(B)
  <2>1. Sound(B) /\ n \in Nat /\ 1..n \subseteq Ids(B)
    BY DEF Sweeping, Sound, Arenas, Ids
  <2>2. node \in Node
    BY <2>1, NodeOf
  <2> QED
    BY <2>1, <2>2, ExtendsRefl DEF Node, Sound, WellFormed
<1>1. Recalls(B, C)
  BY <1>0, SweepAtMoves, RecallsBefore DEF Moves
<1>2. t.arena = C /\ t.adj[v] = s.adj[v] /\ C.nodes[v] = node
  BY <1>0, <1>1 DEF Spread, Recalls, Keeps, Extends
<1>3. CASE s.adj[v] = NoNode \/ node.op \in {"Const", "Var"}
  <2>1. SweepAt(s, v) = s /\ SweepAt(t, v) = t
    BY <1>2, <1>3, OpAssumption DEF SweepAt
  <2>. QED BY <2>1
<1>4. CASE s.adj[v] # NoNode /\ node.op \in UnaryOps
  <2> DEFINE Term(A) == After(At(s.adj[v]), "Mul", Partial(A, node.op, At(node.a), At(v)))
  <2>1. Names(B, At(node.a)) /\ Names(B, At(v)) /\ Names(B, At(s.adj[v]))
    BY <1>0, <1>4, NodeNames DEF Sweeping
  <2>2. Again(B, Partial(B, node.op, At(node.a), At(v)), C,
          Partial(C, node.op, At(node.a), At(v)))
    BY <1>0, <1>4, <2>1, PartialAgain
  <2>3. Again(B, Term(B), C, Term(C))
    BY <1>0, <2>1, <2>2, PipelineAgain, RuleAssumption
  <2>4. SweepAt(s, v) = AddTo(s, node.a, Term(B)) /\ SweepAt(t, v) = AddTo(t, node.a, Term(C))
    BY <1>2, <1>4, OpAssumption DEF SweepAt, SweepUnary
  <2> HIDE DEF Term
  <2>5. Stage(B, Term(B)) /\ Sound(Term(B).arena)
    BY <2>3 DEF Again, Stage, Keeps
  <2>6. Recalls(Term(B).arena, C)
    BY <1>0, <1>4, <2>4, <2>5, AddToMoves, RecallsBefore
  <2>7. Term(C) = [arena |-> C, e |-> Term(B).e]
    BY <2>3, <2>6 DEF Again
  <2>8. Recalls(AddTo(s, node.a, Term(B)).arena, C)
    BY <2>4
  <2>9. Spread(n, AddTo(s, node.a, Term(B)), m, C,
               AddTo(t, node.a, [arena |-> C, e |-> Term(B).e]))
    BY <1>0, <1>4, <2>5, <2>8, AddToAgain
  <2>. QED BY <2>4, <2>7, <2>9
<1>5. CASE s.adj[v] # NoNode /\ node.op \in BinaryOps
  <2> DEFINE l == At(node.a)
             r == At(node.b)
             a == At(s.adj[v])
             dl == LeftPartial(B, node.op, l, r, At(v))
             dr == RightPartial(dl.arena, node.op, l, r, At(v))
             first == Form(dr.arena, "Mul", a, dl.e)
             once == AddTo(s, node.a, first)
             second == Form(once.arena, "Mul", a, dr.e)
             twice == AddTo(once, node.b, second)
             tl == LeftPartial(C, node.op, l, r, At(v))
             tr == RightPartial(tl.arena, node.op, l, r, At(v))
             tonce == AddTo(t, node.a, Form(tr.arena, "Mul", a, tl.e))
             ttwice == AddTo(tonce, node.b, Form(tonce.arena, "Mul", a, tr.e))
  <2>0. SweepAt(s, v) = twice /\ SweepAt(t, v) = ttwice
    BY <1>2, <1>5, OpAssumption
    DEF SweepAt, SweepBinary, ContributeAfter, Contribute, ThenProduct, AddProduct
  <2>1. Names(B, l) /\ Names(B, r) /\ Names(B, a) /\ Names(B, At(v))
    BY <1>0, <1>5, NodeNames DEF Sweeping
  <2> HIDE DEF l, r, a
  <2>2. Again(B, dl, C, tl)
    BY <1>0, <1>5, <2>1, PartialsAgain
  <2>3. Keeps(B, dl.arena) /\ Names(dl.arena, dl.e) /\ Sound(dl.arena)
    BY <2>2 DEF Again, Stage, Keeps
  <2> HIDE DEF dl, tl
  <2>4. Names(dl.arena, l) /\ Names(dl.arena, r) /\ Names(dl.arena, a) /\ Names(dl.arena, At(v))
    BY <1>0, <2>1, <2>3, NamesKept
  <2>5. Again(dl.arena, dr, C, RightPartial(C, node.op, l, r, At(v)))
    BY <1>5, <2>3, <2>4, PartialsAgain
  <2>6. Keeps(dl.arena, dr.arena) /\ Names(dr.arena, dr.e) /\ Sound(dr.arena)
    BY <2>5 DEF Again, Stage, Keeps
  <2> HIDE DEF dr
  <2>7. Names(dr.arena, a) /\ Names(dr.arena, dl.e) /\ Keeps(B, dr.arena)
          /\ Keeps(dr.arena, dr.arena)
    BY <1>0, <2>3, <2>4, <2>6, NamesKept, KeepsTransitive, ExtendsRefl
  <2>8. Stage(B, first) /\ Again(dr.arena, first, C, Form(C, "Mul", a, dl.e))
    BY <1>0, <2>6, <2>7, FormStage, FormAgain, RuleAssumption
  <2>9. Keeps(dr.arena, first.arena) /\ Sound(first.arena)
    BY <2>8 DEF Again, Stage, Keeps
  <2> HIDE DEF first
  <2>10. Moves(n, s, once) /\ Keeps(first.arena, once.arena)
    BY <1>0, <1>5, <2>8, AddToMoves
  <2>11. Sweeping(n, once) /\ Sound(once.arena) /\ Keeps(B, once.arena)
           /\ Keeps(dr.arena, once.arena)
    BY <2>6, <2>9, <2>10, KeepsTransitive DEF Moves, Sweeping
  <2> HIDE DEF once
  <2>12. Names(once.arena, a) /\ Names(once.arena, dr.e) /\ Keeps(once.arena, once.arena)
    BY <1>0, <2>1, <2>6, <2>11, NamesKept, ExtendsRefl
  <2>13. Again(once.arena, second, C, Form(C, "Mul", a, dr.e))
    BY <2>11, <2>12, FormAgain, RuleAssumption
  <2> HIDE DEF second
  <2>14. Stage(once.arena, second) /\ Sound(second.arena) /\ Keeps(once.arena, second.arena)
    BY <2>13 DEF Again, Stage, Keeps
  <2>15. Keeps(second.arena, twice.arena)
    BY <1>0, <1>5, <2>11, <2>14, AddToMoves
  <2> HIDE DEF twice
  <2>16. Recalls(second.arena, C) /\ Recalls(once.arena, C)
    <3>1. Recalls(twice.arena, C)
      BY <2>0
    <3>2. Recalls(second.arena, C)
      BY <2>14, <2>15, <3>1, RecallsBefore
    <3>. QED BY <2>11, <2>14, <3>2, RecallsBefore
  <2>17. Recalls(first.arena, C) /\ Recalls(dr.arena, C)
    <3>1. Recalls(first.arena, C)
      BY <2>9, <2>10, <2>16, RecallsBefore
    <3>. QED BY <2>6, <2>9, <3>1, RecallsBefore
  <2>18. Recalls(dl.arena, C)
    BY <2>3, <2>6, <2>17, RecallsBefore
  <2>19. tl = [arena |-> C, e |-> dl.e]
    BY <2>2, <2>18 DEF Again
  <2>20. tr = [arena |-> C, e |-> dr.e]
    BY <2>5, <2>17, <2>19 DEF Again
  <2> HIDE DEF tr
  <2>21. Spread(n, once, m, C, tonce)
    <3>1. Form(tr.arena, "Mul", a, tl.e) = [arena |-> C, e |-> first.e]
      BY <2>8, <2>17, <2>19, <2>20 DEF Again
    <3>2. Recalls(AddTo(s, node.a, first).arena, C)
      BY <2>16 DEF once
    <3>3. Spread(n, AddTo(s, node.a, first), m, C, AddTo(t, node.a, [arena |-> C, e |-> first.e]))
      BY <1>0, <1>5, <2>8, <3>2, AddToAgain
    <3>. QED BY <3>1, <3>3 DEF once
  <2> HIDE DEF tonce
  <2>22. tonce.arena = C
    BY <2>21 DEF Spread
  <2>23. Form(tonce.arena, "Mul", a, tr.e) = [arena |-> C, e |-> second.e]
    BY <2>13, <2>16, <2>20, <2>22 DEF Again
  <2>24. Spread(n, twice, m, C, ttwice)
    <3>1. Recalls(AddTo(once, node.b, second).arena, C)
      BY <2>0 DEF twice
    <3>2. Spread(n, AddTo(once, node.b, second), m, C,
                 AddTo(tonce, node.b, [arena |-> C, e |-> second.e]))
      BY <1>0, <1>5, <2>11, <2>14, <2>21, <3>1, AddToAgain
    <3>. QED BY <2>23, <3>2 DEF twice
  <2>. QED BY <2>0, <2>24
<1>. QED BY <1>0, <1>3, <1>4, <1>5

(* The leaves' adjoints, read again, are the same. *)
LEMMA CollectAgain ==
  ASSUME NEW n, NEW s, Sweeping(n, s), NEW C, Recalls(Collect(s).arena, C),
         NEW m, m = Len(C.nodes), NEW t, Spread(n, s, m, C, t)
  PROVE  Collect(t) = [arena |-> C, partial |-> Collect(s).partial]
<1> DEFINE zero == Constant(s.arena, Zero)
           Leaves(i) == {v \in DOMAIN s.adj : /\ s.arena.nodes[v].op = "Var"
                                              /\ s.arena.nodes[v].slot = i
                                              /\ s.adj[v] # NoNode}
           again == Constant(t.arena, Zero)
           Again2(i) == {v \in DOMAIN t.adj : /\ t.arena.nodes[v].op = "Var"
                                              /\ t.arena.nodes[v].slot = i
                                              /\ t.adj[v] # NoNode}
           Entry1(i) == IF Leaves(i) = {} THEN zero.id ELSE s.adj[CHOOSE v \in Leaves(i) : TRUE]
           Entry2(i) == IF Again2(i) = {} THEN again.id ELSE t.adj[CHOOSE v \in Again2(i) : TRUE]
<1>1. Collect(s) = [arena |-> zero.arena,
        partial |-> [i \in 1..Len(s.arena.symbols) |-> Entry1(i)]]
  BY DEF Collect
<1>2. Collect(t) = [arena |-> again.arena,
        partial |-> [i \in 1..Len(t.arena.symbols) |-> Entry2(i)]]
  BY DEF Collect
<1>3. Sound(s.arena) /\ n \in Nat /\ 1..n \subseteq Ids(s.arena) /\ DOMAIN s.adj = 1..n
  BY DEF Sweeping, Sound, Arenas, Ids
<1>4. Recalls(zero.arena, C) /\ Recalls(s.arena, C)
  BY <1>1, <1>3, ConstantAnswers, RecallsBefore, ScalarAssumption DEF Answers
<1>5. /\ t.arena = C /\ DOMAIN t.adj = 1..m /\ n <= m /\ m \in Nat
      /\ \A v \in 1..m : t.adj[v] = IF v \in 1..n THEN s.adj[v] ELSE NoNode
  BY <1>3 DEF Spread
<1>6. again = [arena |-> C, id |-> zero.id]
  BY <1>3, <1>4, <1>5, ConstantAgain, ScalarAssumption
<1>7. C.symbols = s.arena.symbols /\ \A v \in 1..n : C.nodes[v] = s.arena.nodes[v]
  BY <1>3, <1>4 DEF Recalls, Keeps, Extends
<1> HIDE DEF zero, again
<1>8. \A i : Again2(i) = Leaves(i)
  BY <1>3, <1>5, <1>7
<1>9. ASSUME NEW i PROVE Entry2(i) = Entry1(i)
  <2>1. CASE Leaves(i) = {}
    BY <1>6, <1>8, <2>1
  <2>2. CASE Leaves(i) # {}
    <3>1. (CHOOSE v \in Leaves(i) : TRUE) \in Leaves(i)
      BY <2>2
    <3> DEFINE v == CHOOSE v \in Leaves(i) : TRUE
    <3>2. v \in 1..n /\ v \in 1..m
      BY <1>3, <1>5, <3>1
    <3> HIDE DEF v
    <3>3. t.adj[v] = s.adj[v]
      BY <1>5, <3>2
    <3>4. Entry2(i) = t.adj[v] /\ Entry1(i) = s.adj[v]
      BY <1>8, <2>2 DEF v
    <3>. QED BY <3>3, <3>4
  <2>. QED BY <2>1, <2>2
<1>10. again.arena = C
  BY <1>6
<1> HIDE DEF Entry1, Entry2
<1> DEFINE part == [i \in 1..Len(s.arena.symbols) |-> Entry1(i)]
           repeated == [i \in 1..Len(t.arena.symbols) |-> Entry2(i)]
<1>11. repeated = part
  BY <1>5, <1>7, <1>9
<1> HIDE DEF part, repeated
<1>12. Collect(s).partial = part /\ Collect(t) = [arena |-> C, partial |-> repeated]
  BY <1>1, <1>2, <1>10 DEF part, repeated
<1>. QED BY <1>11, <1>12

(* A gradient formed again in an arena that has its nodes is the same one.   *)
LEMMA ReverseAgain ==
  ASSUME NEW B, Sound(B), NEW r \in Ids(B), NEW C, Recalls(ReverseGradient(B, r).arena, C)
  PROVE  ReverseGradient(C, r) = [arena |-> C, partial |-> ReverseGradient(B, r).partial]
<1> DEFINE n == Len(B.nodes)
           m == Len(C.nodes)
           d == m - n
           one == Constant(B, One)
           fresh == [arena |-> C, adj |-> [v \in 1..m |-> IF v = r THEN one.id ELSE NoNode]]
<1>1. PICK f : SweepRun(n, B, r, f) /\ ReverseGradient(B, r) = Collect(f[n])
  BY ReverseRuns
<1>2. /\ n \in Nat /\ f[0] = BeginSweep(B, r)
      /\ \A k \in 1..n : f[k] = SweepAt(f[k - 1], n + 1 - k)
      /\ \A k \in 0..n : Sweeping(n, f[k]) /\ Keeps(B, f[k].arena)
  BY <1>1 DEF SweepRun
<1>3. Recalls(f[n].arena, C) /\ Recalls(B, C)
  <2>1. Sweeping(n, f[n]) /\ Keeps(B, f[n].arena)
    BY <1>2
  <2>2. Recalls(f[n].arena, C)
    BY <1>1, <2>1, CollectAnswers, RecallsBefore DEF Partials, Sweeping
  <2>. QED BY <2>1, <2>2, RecallsBefore
<1>4. Sound(C) /\ r \in Ids(C) /\ r \in 1..n /\ m \in Nat /\ n <= m
  BY <1>3, IdsGrow DEF Recalls, Keeps, Extends, Sound, Arenas, Ids
<1>5. PICK h : SweepRun(m, C, r, h) /\ ReverseGradient(C, r) = Collect(h[m])
  BY <1>4, ReverseRuns
<1>6. /\ h[0] = BeginSweep(C, r)
      /\ \A k \in 1..m : h[k] = SweepAt(h[k - 1], m + 1 - k)
  BY <1>5 DEF SweepRun
<1>7. f[0] = [arena |-> one.arena, adj |-> [v \in 1..n |-> IF v = r THEN one.id ELSE NoNode]]
  BY <1>2 DEF BeginSweep, Ids
<1> HIDE DEF n, m
<1>8. d \in Nat /\ d <= m /\ m - d = n
  BY <1>2, <1>4
<1> DEFINE P(k) == Recalls(f[k].arena, C) => Spread(n, f[k], m, C, h[d + k])
<1> HIDE DEF one
<1>9. \A k \in 1..n : Recalls(f[k].arena, C) => Recalls(f[k - 1].arena, C)
  <2> SUFFICES ASSUME NEW k \in 1..n, Recalls(f[k].arena, C) PROVE Recalls(f[k - 1].arena, C)
    OBVIOUS
  <2>1. k - 1 \in 0..n /\ n + 1 - k \in 1..n
    BY <1>2
  <2>2. Sweeping(n, f[k - 1]) /\ f[k] = SweepAt(f[k - 1], n + 1 - k)
    BY <1>2, <2>1
  <2>3. Keeps(f[k - 1].arena, f[k].arena)
    BY <2>1, <2>2, SweepAtMoves DEF Moves
  <2>. QED BY <2>2, <2>3, RecallsBefore DEF Sweeping
<1>10. Recalls(one.arena, C)
  <2> DEFINE Back == {j \in 0..n : Recalls(f[n - j].arena, C)}
  <2>1. \A j \in 0..n : j \in Back
    <3> DEFINE S == {j \in Nat : j <= n => j \in Back}
    <3>1. 0 \in S
      BY <1>2, <1>3
    <3>2. ASSUME NEW j \in Nat, j \in S PROVE j + 1 \in S
      <4> SUFFICES ASSUME j + 1 <= n PROVE Recalls(f[n - (j + 1)].arena, C)
        BY <1>2
      <4>1. Recalls(f[n - j].arena, C) /\ n - j \in 1..n /\ (n - j) - 1 = n - (j + 1)
        BY <1>2, <3>2
      <4>. QED BY <1>9, <4>1
    <3>3. \A j \in Nat : j \in S
      <4> HIDE DEF S
      <4>. QED BY <3>1, <3>2, SetInduction
    <3>. QED BY <3>3
  <2>2. Recalls(f[0].arena, C)
    BY <1>2, <2>1
  <2>. QED BY <1>7, <2>2
<1>11. h[0] = fresh
  <2>1. Constant(C, One) = [arena |-> C, id |-> one.id]
    BY <1>10, ConstantAgain, ScalarAssumption DEF one
  <2>. QED BY <1>6, <2>1 DEF BeginSweep, Ids, m
<1>12. \A k \in 0..d : h[k] = fresh
  <2> DEFINE G == [k \in 0..d |-> {fresh}]
  <2>1. h[0] \in G[0]
    BY <1>8, <1>11
  <2>2. ASSUME NEW k \in 1..d, h[k - 1] \in G[k - 1] PROVE h[k] \in G[k]
    <3>1. h[k - 1] = fresh /\ k \in 1..m /\ m + 1 - k \in 1..m /\ m + 1 - k # r
      BY <1>2, <1>4, <1>8, <2>2
    <3>2. fresh.adj[m + 1 - k] = NoNode
      BY <3>1
    <3> HIDE DEF fresh
    <3>3. h[k] = SweepAt(fresh, m + 1 - k)
      BY <1>6, <3>1
    <3>4. SweepAt(fresh, m + 1 - k) = fresh
      BY <3>2 DEF SweepAt
    <3>. QED BY <3>3, <3>4
  <2> HIDE DEF G
  <2>3. \A k \in 0..d : h[k] \in G[k]
    BY <1>8, <2>1, <2>2, LoopInvariant
  <2>. QED BY <2>3 DEF G
<1>13. \A k \in 0..n : P(k)
  <2>1. P(0)
    <3>1. h[d + 0] = fresh
      BY <1>8, <1>12
    <3>2. [v \in 1..m |-> IF v \in 1..n THEN f[0].adj[v] ELSE NoNode] = fresh.adj
      BY <1>2, <1>4, <1>7
    <3> DEFINE first == f[0]
    <3>3. fresh = [arena |-> C,
            adj |-> [v \in 1..m |-> IF v \in 1..n THEN first.adj[v] ELSE NoNode]]
      BY <3>2
    <3> HIDE DEF fresh, first
    <3>4. Spread(n, first, m, C, fresh)
      BY <1>2, <1>4, <3>3 DEF Spread
    <3>. QED BY <3>1, <3>4 DEF first
  <2>2. ASSUME NEW k \in 1..n, P(k - 1) PROVE P(k)
    <3> SUFFICES ASSUME Recalls(f[k].arena, C) PROVE Spread(n, f[k], m, C, h[d + k])
      OBVIOUS
    <3> DEFINE s == f[k - 1]
               t == h[d + (k - 1)]
               v == n + 1 - k
    <3>1. Spread(n, s, m, C, t)
      BY <1>9, <2>2
    <3>2. v \in 1..n /\ d + k \in 1..m /\ m + 1 - (d + k) = v /\ (d + k) - 1 = d + (k - 1)
      BY <1>2, <1>4, <1>8
    <3>3. Sweeping(n, s) /\ f[k] = SweepAt(s, v)
      BY <1>2
    <3>4. h[d + k] = SweepAt(t, v)
      <4>1. h[d + k] = SweepAt(h[(d + k) - 1], m + 1 - (d + k))
        BY <1>6, <3>2
      <4>. QED BY <3>2, <4>1
    <3> HIDE DEF s, t, v
    <3>5. Recalls(SweepAt(s, v).arena, C)
      BY <3>3
    <3>6. Spread(n, SweepAt(s, v), m, C, SweepAt(t, v))
      BY <3>1, <3>2, <3>3, <3>5, SweepAtAgain
    <3>. QED BY <3>3, <3>4, <3>6
  <2> HIDE DEF P
  <2> DEFINE S == {k \in Nat : k <= n => P(k)}
  <2>4. 0 \in S
    BY <2>1
  <2>5. ASSUME NEW k \in Nat, k \in S PROVE k + 1 \in S
    <3> SUFFICES ASSUME k + 1 <= n PROVE P(k + 1)
      OBVIOUS
    <3>1. k + 1 \in 1..n /\ (k + 1) - 1 = k /\ P(k)
      BY <1>2, <2>5
    <3>. QED BY <2>2, <3>1
  <2>6. \A k \in Nat : k \in S
    <3> HIDE DEF S
    <3>. QED BY <2>4, <2>5, SetInduction
  <2>. QED BY <2>6
<1>14. Spread(n, f[n], m, C, h[m])
  <2>1. n \in 0..n /\ d + n = m
    BY <1>2, <1>4
  <2>2. P(n)
    BY <1>13, <2>1
  <2> HIDE DEF d
  <2>. QED BY <1>3, <2>1, <2>2
<1>15. Collect(h[m]) = [arena |-> C, partial |-> Collect(f[n]).partial]
  <2> DEFINE s == f[n]
             t == h[m]
  <2>1. Sweeping(n, s) /\ Recalls(Collect(s).arena, C) /\ Spread(n, s, m, C, t)
          /\ m = Len(C.nodes)
    BY <1>1, <1>2, <1>14 DEF m, n
  <2> HIDE DEF s, t
  <2>2. Collect(t) = [arena |-> C, partial |-> Collect(s).partial]
    BY <2>1, CollectAgain
  <2>. QED BY <2>2 DEF s, t
<1>. QED BY <1>1, <1>5, <1>15 DEF n, m
=============================================================================
