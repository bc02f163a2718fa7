------------------------------ MODULE Equation ------------------------------
(***************************************************************************)
(* Equation<RTExpression> (rt/equation.hpp): functions of one arena, their *)
(* Jacobian formed on construction, and two lazy caches that const calls   *)
(* fill: the Hessian blocks for per-point calls and the frozen graph for   *)
(* batches.  Every one of them keeps node ids of an arena that later       *)
(* calls, and the caller when the arena is only borrowed, append to.       *)
(***************************************************************************)
EXTENDS Graph, SecondOrder

CONSTANTS
  Givens,      \* what create() may be handed: an arena and a handle per function
  Positional,  \* points given as sequences, of any length
  Named,       \* points given as sequences of [name, value]
  Tables,      \* batch inputs: how many columns, and their rows
  MaxGrowth,   \* bound: expressions and graphs formed in a borrowed arena afterwards
  Expansion(_, _),                     \* the TaylorDual of two coefficients
  OnSeries1(_, _), OnSeries2(_, _, _), \* apply() over TaylorDual
  Highest(_)                           \* Order! times its last coefficient

ASSUME GivensAssumption ==
  \A given \in Givens :
    /\ given.arena \in Arenas /\ WellFormed(given.arena) /\ NodesOnce(given.arena)
    /\ given.args \in Seq([e : Expr, poisoned : BOOLEAN]) /\ given.args # <<>>
    /\ \A k \in DOMAIN given.args : given.args[k].e.id \in Ids(given.arena) \cup {NoNode}
ASSUME PointsAssumption ==
  /\ Positional \subseteq Seq(Scalar)
  /\ Named \subseteq Seq([name : Name, value : Scalar])
  /\ \A table \in Tables :
       \A k \in DOMAIN table.rows : table.rows[k] \in [1..table.width -> Scalar]
ASSUME BoundAssumption == MaxGrowth \in Nat /\ Undefined \notin Scalar

VARIABLES
  arena,
  args,        \* the handles given to create()
  roots,       \* roots_, empty until create() succeeds
  derivative,  \* derivative_.partial, row-major by function
  hessians,    \* hessians_: empty, or a block per function
  compiled,    \* compiled_
  freezes,     \* graphs frozen so far
  answer,      \* what the last call returned
  called,      \* kinds of cached call made so far
  growth

caches == <<arena, hessians, compiled, freezes>>
fixed == <<args, roots, derivative, growth>>
vars == <<arena, args, roots, derivative, hessians, compiled, freezes, answer, called, growth>>

NotCompiled ==
  [frozen |-> FALSE, hasHessian |-> FALSE, kernel |-> FALSE,
    graph |-> Build(GraphBuilder(EmptyArena))]

NoRow == [f |-> <<>>, g |-> <<>>, h |-> <<>>]
Refuse(kind, why) == [kind |-> kind, status |-> why, at |-> <<>>, rows |-> <<>>, sized |-> FALSE]
Reply(kind, at, rows) == [kind |-> kind, status |-> "ok", at |-> at, rows |-> rows,
  sized |-> TRUE]

arity == Len(arena.symbols)

Init ==
  /\ \E given \in Givens : arena = given.arena /\ args = given.args
  /\ roots = <<>> /\ derivative = <<>> /\ hessians = <<>>
  /\ compiled = NotCompiled
  /\ freezes = 0 /\ growth = 0 /\ called = {}
  /\ answer = Refuse("none", "none")

-----------------------------------------------------------------------------
(* create() *)

WhyNot ==
  IF \E k \in DOMAIN args : args[k].poisoned THEN "no_arena"
  ELSE IF Pending(args[1].e) THEN "no_graph"
  ELSE "ok"

(* The id() of every handle: a literal becomes a node here. *)
WithRoot(pass, reply) == [arena |-> reply.arena, ids |-> Append(pass.ids, reply.id)]
NextRoot(pass, e) == WithRoot(pass, Materialise(pass.arena, e))
RootIds ==
  LET after[k \in 0..Len(args)] ==
        IF k = 0 THEN [arena |-> arena, ids |-> <<>>] ELSE NextRoot(after[k - 1], args[k].e)
  IN  after[Len(args)]

CreateFails ==
  /\ roots = <<>> /\ WhyNot # "ok"
  /\ answer' = Refuse("create", WhyNot)
  /\ UNCHANGED <<caches, fixed, called>>

Create ==
  /\ roots = <<>> /\ WhyNot = "ok"
  /\ \E pass \in {RootIds} : \E j \in {Jacobian(pass.arena, pass.ids)} :
       arena' = j.arena /\ roots' = pass.ids /\ derivative' = j.partial
  /\ answer' = Reply("create", <<>>, <<>>)
  /\ UNCHANGED <<args, hessians, compiled, freezes, called, growth>>

-----------------------------------------------------------------------------
(* point(): what a caller spelt, as a value per symbol *)

PointOf(spelt) ==
  IF Len(spelt) = arity THEN [status |-> "ok", at |-> spelt]
  ELSE [status |-> "wrong_arity", at |-> <<>>]

(* A name the point does not give keeps T{}; one given twice takes the last. *)
GivenLast(pairs, name) ==
  LET given == {k \in DOMAIN pairs : pairs[k].name = name}
  IN  IF given = {} THEN Zero ELSE pairs[LastOf(given)].value
NamedPointOf(pairs) ==
  IF \E k \in DOMAIN pairs : \A s \in Slots(arena) : arena.symbols[s] # pairs[k].name
  THEN [status |-> "unknown_symbol", at |-> <<>>]
  ELSE [status |-> "ok",
        at |-> [s \in Slots(arena) |-> GivenLast(pairs, arena.symbols[s])]]

Answered(kind, point, row) ==
  IF point.status = "ok" THEN Reply(kind, <<point.at>>, <<row>>)
  ELSE Refuse(kind, point.status)

Called(kind) == called' = called \cup {kind}

Evaluate(point) ==
  /\ LET row == [NoRow EXCEPT !.f = ReadAll(ValuesAt(Scalars, arena, point.at), roots)]
     IN  answer' = Answered("evaluate", point, row)
  /\ UNCHANGED <<caches, fixed, called>>

(* gradient() and jacobian() *)
HarvestJacobian(point) ==
  /\ LET row == [NoRow EXCEPT !.g = ReadAll(ValuesAt(Scalars, arena, point.at), derivative)]
     IN  answer' = Answered("jacobian", point, row)
  /\ UNCHANGED <<caches, fixed, called>>

(* univariate_derivative(): the interpreter over Taylor numbers.  (The first *)
(* of these is a mutant, where a constant is seeded like the symbol.)        *)
SeriesOfNode_ConstantsMove(n, series, seed) ==
  CASE n.op = "Const" -> Expansion(n.value, One)
    [] n.op = "Var" -> seed
    [] n.op \in UnaryOps -> OnSeries1(n.op, series[n.a])
    [] n.op \in BinaryOps -> OnSeries2(n.op, series[n.a], series[n.b])
SeriesOfNode(n, series, seed) ==
  CASE n.op = "Const" -> Expansion(n.value, Zero)
    [] n.op = "Var" -> seed
    [] n.op \in UnaryOps -> OnSeries1(n.op, series[n.a])
    [] n.op \in BinaryOps -> OnSeries2(n.op, series[n.a], series[n.b])
WithSeries(series, n, seed) == Append(series, SeriesOfNode(n, series, seed))
SeriesAt(B, seed) ==
  LET after[k \in 0..Len(B.nodes)] ==
        IF k = 0 THEN <<>> ELSE WithSeries(after[k - 1], B.nodes[k], seed)
  IN  after[Len(B.nodes)]
UnivariateRow(x0) ==
  [NoRow EXCEPT !.f = <<Highest(Read(SeriesAt(arena, Expansion(x0, One)), roots[1]))>>]

UnivariateDerivative(x0) ==
  /\ Len(roots) = 1
  /\ answer' = IF arity = 1 THEN Reply("univariate", <<<<x0>>>>, <<UnivariateRow(x0)>>)
               ELSE Refuse("univariate", "not_univariate")
  /\ UNCHANGED <<caches, fixed, called>>

(* cached_hessians(): a block per function the first time it is asked. *)
WithBlock(pass, h) ==
  [arena |-> h.arena, blocks |-> Append(pass.blocks, [h EXCEPT !.arena = EmptyArena])]
NextBlock(pass, of, k) == WithBlock(pass, HessianOf(pass.arena, of[k]))
FormedHessians == Iterated(NextBlock, roots, [arena |-> arena, blocks |-> <<>>], Len(roots))
CachedHessians ==
  IF hessians # <<>> THEN [arena |-> arena, blocks |-> hessians] ELSE FormedHessians

(* Mutant: the values are read before the blocks are formed. *)
HessianRow_ValuesFirst(cached, at) ==
  LET vals == ValuesAt(Scalars, arena, at)
      n == Len(at)
  IN  [NoRow EXCEPT !.h = [k \in DOMAIN cached.blocks |->
         [i \in 1..n |-> [j \in 1..n |-> Read(vals, Entry(cached.blocks[k], i, j))]]]]

(* Every entry of every block, at values of the arena the blocks are in. *)
HessianRow(cached, at) ==
  LET vals == ValuesAt(Scalars, cached.arena, at)
      n == Len(at)
  IN  [NoRow EXCEPT !.h = [k \in DOMAIN cached.blocks |->
         [i \in 1..n |-> [j \in 1..n |-> Read(vals, Entry(cached.blocks[k], i, j))]]]]

HessianAtPoint(cached, point) ==
  /\ IF point.status = "ok"
     THEN /\ arena' = cached.arena /\ hessians' = cached.blocks
          /\ answer' = Reply("hessian", <<point.at>>, <<HessianRow(cached, point.at)>>)
          /\ Called("hessian")
     ELSE /\ answer' = Refuse("hessian", point.status)
          /\ UNCHANGED <<arena, hessians, called>>
  /\ UNCHANGED <<compiled, freezes, fixed>>

HessianColors(cached) ==
  /\ Len(roots) = 1
  /\ arena' = cached.arena /\ hessians' = cached.blocks
  /\ answer' = Reply("hessian", <<>>, <<>>)
  /\ Called("hessian")
  /\ UNCHANGED <<compiled, freezes, fixed>>

-----------------------------------------------------------------------------
(* Batches *)

(* freeze(): a GraphBuilder's values, Jacobian and, if wanted, Hessian; and  *)
(* a kernel, unless this host has no JIT or the JIT does not take the graph. *)
FrozenFrom(gb, want) ==
  {[arena |-> gb.arena,
    compiled |-> [frozen |-> TRUE, hasHessian |-> want, kernel |-> kernel, graph |-> Build(gb)]] :
   kernel \in BOOLEAN}
FirstOrder == JacobianFrom(ValuesFrom(GraphBuilder(arena), roots), derivative)
Freeze(want) == FrozenFrom(IF want THEN GraphHessian(FirstOrder) ELSE FirstOrder, want)

(* Mutants: "a zero-arity equation compresses to no Hessian columns at all,  *)
(* and would re-freeze on every call"; and a graph frozen for either kind.   *)
MustFreeze_ByLayout(want) == ~compiled.frozen \/ (want /\ compiled.graph.hessian = 0)
MustFreeze_OnChange(want) == ~compiled.frozen \/ want # compiled.hasHessian

MustFreeze(want) == ~compiled.frozen \/ (want /\ ~compiled.hasHessian)

(* compiled(): what may come of it. *)
Compiled(want) ==
  IF MustFreeze(want) THEN Freeze(want) ELSE {[arena |-> arena, compiled |-> compiled]}

Keep(c, want) ==
  /\ arena' = c.arena /\ compiled' = c.compiled
  /\ freezes' = IF MustFreeze(want) THEN freezes + 1 ELSE freezes

(* Mutant: the partials' columns are not counted. *)
Fits_NotPartials(graph, nx, nf, ng, nh) ==
  nx = arity /\ nf = graph.values /\ nh = graph.hessian

(* dispatch()'s check *)
Fits(graph, nx, nf, ng, nh) ==
  nx = arity /\ nf = graph.values /\ ng = graph.jacobian /\ nh = graph.hessian

(* run(), for one row: the interpreter is what there is without a kernel. *)
RunRow(c, at) ==
  IF c.compiled.kernel THEN KernelRow(c.compiled.graph, at)
  ELSE InterpretRow(c.arena, c.compiled.graph, at)

(* What a caller may size a block at: as the queries say, or a column more.  *)
Sizes(n) == {n, n + 1}

(* dispatch() on what compiled() hands it, for one call's sizes. *)
Dispatched(kind, c, table, nf, ng, nh, right) ==
  LET rows == [k \in DOMAIN table.rows |-> RunRow(c, table.rows[k])]
      reply == IF Fits(c.compiled.graph, table.width, nf, ng, nh)
        THEN Reply(kind, table.rows, rows)
               ELSE Refuse(kind, "wrong_column_count")
  IN  [reply EXCEPT !.sized = /\ table.width = arity /\ nf = Len(roots)
                              /\ ng = Len(derivative) /\ nh = right]

(* The batch gradient() and jacobian(), whose h is empty; the batch          *)
(* hessian(); and value_columns(), jacobian_columns() and hessian_columns(). *)
BatchJacobian(c) ==
  \E table \in Tables, nf \in Sizes(Len(roots)), ng \in Sizes(Len(derivative)) :
    answer' = Dispatched("batch jacobian", c, table, nf, ng, 0, 0)
BatchHessian(c) ==
  \E table \in Tables, nf \in Sizes(1), ng \in Sizes(Len(derivative)),
     nh \in Sizes(c.compiled.graph.hessian) :
    answer' = Dispatched("batch hessian", c, table, nf, ng, nh, c.compiled.graph.hessian)
KindOf(want) == IF want THEN "batch hessian" ELSE "batch jacobian"
AskColumns(want) == answer' = Reply(KindOf(want), <<>>, <<>>)

(* Each of them gets the graph it wants first.  Those with a Hessian are     *)
(* members of an equation of one function only.                              *)
OnGraph(want) ==
  /\ want => Len(roots) = 1
  /\ \E c \in Compiled(want) :
       /\ Keep(c, want)
       /\ \/ ~want /\ BatchJacobian(c)
          \/ want /\ BatchHessian(c)
          \/ AskColumns(want)
  /\ Called(KindOf(want))
  /\ UNCHANGED <<hessians, fixed>>

-----------------------------------------------------------------------------
(* A caller that kept the builder forms another expression in it, of its     *)
(* functions and of the first symbol.                                        *)
Handles == {1} \cup {roots[k] : k \in DOMAIN roots}
Grow(op, a, b) ==
  /\ growth < MaxGrowth
  /\ arena' = Make(arena, op, a, b).arena
  /\ growth' = growth + 1
  /\ answer' = Reply("grow", <<>>, <<>>)
  /\ UNCHANGED <<args, roots, derivative, hessians, compiled, freezes, called>>

(* ... or graphs and kernels of its own, with the first node as a column.    *)
OwnValues == ValuesFrom(GraphBuilder(arena), roots)
OwnKernel(gb) ==
  /\ growth < MaxGrowth
  /\ arena' = gb.arena
  /\ \E at \in {p \in Positional : Len(p) = arity} :
       answer' = Reply("kernel", <<at>>, <<KernelRow(Build(gb), at)>>)
  /\ growth' = growth + 1
  /\ UNCHANGED <<args, roots, derivative, hessians, compiled, freezes, called>>

GivenPoints == {PointOf(p) : p \in Positional} \cup {NamedPointOf(p) : p \in Named}

Use ==
  \/ \E point \in GivenPoints : Evaluate(point) \/ HarvestJacobian(point)
  \/ \E cached \in {CachedHessians} :
       HessianColors(cached) \/ \E point \in GivenPoints : HessianAtPoint(cached, point)
  \/ \E want \in BOOLEAN : OnGraph(want)
  \/ \E x0 \in {p[1] : p \in Positional \ {<<>>}} : UnivariateDerivative(x0)
  \/ \E gb \in {GraphJacobian(GraphOutput(OwnValues, At(1))),
       GraphHessian(GraphJacobian(OwnValues))} :
       OwnKernel(gb)
  \/ \E op \in UnaryOps : Grow(op, roots[1], NoNode)
  \/ \E op \in BinaryOps, a \in Handles : Grow(op, roots[1], a)

Next == CreateFails \/ Create \/ (Len(roots) > 0 /\ Use)

Spec == Init /\ [][Next]_vars

-----------------------------------------------------------------------------
(* Every id the equation keeps is a node of the arena, and the graph's       *)
(* layout accounts for every one of its outputs.                             *)
Kept == Range(roots) \cup Range(derivative) \cup Range(compiled.graph.outputs)
        \cup UNION {Range(Flattened(h)) \cup {h.zero} : h \in Range(hessians)}
TypeOK ==
  /\ arena \in Arenas /\ WellFormed(arena)
  /\ Kept \subseteq Ids(arena)
  /\ LET graph == compiled.graph
     IN  Len(graph.outputs) = graph.values + graph.jacobian + graph.hessian
  /\ hessians = <<>> \/ Len(hessians) = Len(roots)

(* A batch writes to exactly the columns the equation has. *)
NoOverrun == answer.status = "ok" => answer.sized

(* At most one graph without a Hessian and one with is ever frozen. *)
FrozenAtMostTwice == freezes <= 2

(* The per-point blocks and the graph's, formed by separate calls that may   *)
(* have an arena's growth between them, are the same nodes.  (Not so with a  *)
(* NaN among the constants: no call finds it again.)                         *)
OneHessian ==
  compiled.hasHessian /\ hessians # <<>> =>
    BlocksOf(compiled.graph).h = Flattened(hessians[1])

(* "The same calls run the graph through an interpreter, under the same      *)
(* signatures and to the same answers": the graph's live nodes and the       *)
(* arena's, which has grown since, give every column the same value, at any  *)
(* point, also where that value is NaN.                                      *)
KernelIsInterpreter ==
  compiled.frozen =>
    \A at \in [1..compiled.graph.symbols -> Scalar] :
      KernelRow(compiled.graph, at) = InterpretRow(arena, compiled.graph, at)

(* What a row of numbers should be, by the definition of a derivative, where *)
(* the function has one: the values of the functions create() was given and  *)
(* of the first node, their partials, and the second derivatives, per point  *)
(* or as compressed columns that the colouring scatters.                     *)
Agrees(got, want) == want = NaN \/ got = want
Meant(e, vals) == IF Pending(e) THEN e.lit ELSE vals[e.id]
AreValues(B, given, f, at) ==
  LET vals == ValuesAt(Smooth, B, at)
  IN  \A k \in DOMAIN f : f[k] = IF k \in DOMAIN given THEN Meant(given[k].e, vals) ELSE vals[1]
ArePartials(B, rs, g, at) ==
  LET vals == ValuesAt(Smooth, B, at)
  IN  /\ Len(g) = Len(rs) * Len(at)
      /\ \A k \in DOMAIN rs, j \in DOMAIN at :
           Agrees(g[(k - 1) * Len(at) + j], TangentsAt(Smooth, B, vals, j, rs[k])[rs[k]])
AreSeconds(B, rs, h, at) ==
  \A k \in DOMAIN rs, i, j \in DOMAIN at :
    Agrees(h[k][i][j], SecondDerivative(B, at, i, j, rs[k]))
AreColumns(B, r, h, at) ==
  LET rows == CouplingPattern(B, r)
      color == GreedyColors(rows, [j \in DOMAIN rows |-> j])
      scattered(i, j) == IF Target(rows, color, color[j], i) = j
                         THEN h[(color[j] - 1) * Len(at) + i] ELSE Zero
  IN  /\ Len(h) = ColorCount(color) * Len(at)
      /\ \A i, j \in DOMAIN at : Agrees(scattered(i, j), SecondDerivative(B, at, i, j, r))

(* Every row of every answer is about the functions create() was given, has  *)
(* all that its kind of call is asked for, and is right, whatever was frozen, *)
(* compiled, cached or grown in between; and a batch, or a kernel of the     *)
(* caller's own, agrees with a point call.                                   *)
RowCorrect(B, given, rs, kind, row, at) ==
  /\ AreValues(B, given, row.f, at)
  /\ kind \notin {"jacobian", "hessian"} => Len(given) <= Len(row.f)
  /\ kind \notin {"evaluate", "hessian"} => ArePartials(B, rs, row.g, at)
  /\ kind = "hessian" => AreSeconds(B, rs, row.h, at)
  /\ kind = "batch hessian" \/ (kind # "hessian" /\ row.h # <<>>) =>
       AreColumns(B, rs[1], row.h, at)
AnswersCorrect ==
  answer.kind # "univariate" =>
    \A k \in DOMAIN answer.rows :
      RowCorrect(arena, args, roots, answer.kind, answer.rows[k], answer.at[k])

(* "Make the first call of each kind before handing it to several threads":  *)
(* from then on a call of that kind writes to nothing the equation has.      *)
RepeatIsReadOnly == [][answer'.kind \in called => UNCHANGED caches]_vars

(* Columns sized as the column queries say are never a wrong count. *)
SizedBatchRuns == answer.kind \in {"batch jacobian", "batch hessian"} /\ answer.sized =>
                    answer.status = "ok"
=============================================================================
