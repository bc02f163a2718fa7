# ExpressionDifferentiator (ddx) in TLA+

Models, model-checking runs and proofs for the three ways the library has to a
derivative: its runtime half in `src/include/rt` (the arena that interns expression
nodes, the sweeps that differentiate inside it, the compressed Hessian, the frozen
graph, and the `Equation` that caches all of that behind `const` members); its
compile-time half in `src/include/expr` and `src/include/drivers` (expressions that
are types, their folding, and the drivers over them); and the numeric drivers that
differentiate a callable by seeding dual numbers.

- [The system](#the-system)
- [Modules](#modules)
- [How the modules correspond to the code](#how-the-modules-correspond-to-the-code)
- [Runs, bounds and what they show](#runs-bounds-and-what-they-show)
- [Where the code and its documentation part](#where-the-code-and-its-documentation-part)
- [What is proved](#what-is-proved)
- [Only model-checked](#only-model-checked)
- [Not modelled](#not-modelled)
- [Plan](#plan)

## The system

The library differentiates expressions in two ways. The *compile-time* half
(`expr/`, `drivers/symbolic.hpp`, `drivers/coupling.hpp`, `dual/`) holds an
expression as a C++ type and has almost no state: what can go wrong in it is a
rule, a rewrite or an index. The *runtime* half (`rt/`, `jit/`) holds it as nodes
of an arena that everybody appends to and nobody ever removes from; it has the
state, the caches and the protocols. Beside the two, the numeric drivers
differentiate a callable without holding it as an expression at all.

| component | state it keeps | operations | what makes it correct |
|---|---|---|---|
| `rt::Builder` (`rt/builder.hpp`) | `nodes_`, `table_` (open addressing), `symbols_` | `constant`, `variable`, `make` (fold, order operands, intern), `rehash` | an id *is* a subexpression: one node per id, one id per node, for good; operands before the nodes that use them; a folding rewrite never changes a function |
| `rt::RTExpression` (`rt/expr.hpp`) | a builder and an id, or a pending literal, or poison | operators, `id()` | literals fold outside the arena and materialise in the arena they first meet; poison never reaches one |
| current arena (`rt/expr.hpp`, `util/scope_guard.hpp`) | a thread-local pointer | `scoped_arena`, `var(name)` | what a scope found is put back, also when a callback throws |
| opcode tables (`rt/opcode.hpp`, `rt/apply.hpp`) | none | `arity_of`, `is_commutative`, derivative rules, `apply` | the rules are the derivatives |
| interpreter (`rt/interpret.hpp`) | none | `evaluate_all`, `evaluate` | one pass in id order is enough |
| accumulation (`rt/derivative.hpp`) | adjoints, an ordinal per node of a snapshot | `reverse_gradient`, `symbolic_gradient`, `jacobian` | adjoints are complete when read; the arena being swept is appended to by the sweep |
| coupling and colouring (`rt/coupling.hpp`) | rows of a pattern, a colour per column | `coupling_pattern`, `color_columns`, `Coloring::target` | the pattern leaves out no pair that can be non-zero; two columns of one colour never meet in a row |
| Hessian (`rt/derivative.hpp`) | a compressed row per colour | `hessian`, `Hessian::at` | a scattered entry is the second derivative it stands for |
| `rt::Graph`, `GraphBuilder` (`rt/graph.hpp`) | CSR edges, outputs, their layout, liveness | `freeze`, `values`, `jacobian`, `hessian`, `output`, `operands` | layout and outputs agree; operand order survives the CSR form |
| `Equation<RTExpression>` (`rt/equation.hpp`) | an arena owned or borrowed, roots, partials; `hessians_` and `compiled_` filled lazily from `const` members | `create`, per-point calls, batches, column queries | answers do not depend on which calls came before; a batch writes the columns it was sized for; a warmed equation is read-only |
| JIT (`jit/codegen.cpp`, `jit/compiler.cpp`, `jit/kernel.hpp`) | an LLJIT session shared by kernels | `compile`, `Kernel::operator()` | a kernel stores what the interpreter would; every failure ends in the interpreter |
| numeric drivers (`drivers/numeric.hpp`, `drivers/seeded_energy.hpp`) | a workspace of duals | `gradient_into`, `hessian_into` | a seed is always taken back, and where two meet in one number neither clobbers the other |
| Hessian entry points (`drivers/hessian.hpp`) | none | `hessian` and its active-set forms | the driver picked fits the point and the active set |
| compile-time expressions (`expr/expressions.hpp`, `values.hpp`, `operations.hpp`, `simplify.hpp`, `traits.hpp`) | none; a storing literal has its number | operators and functions with their folds, `canonicalise`, freezing of symbols, derivative and adjoint rules | a rewrite never changes a function; one pass folds all there is to fold |
| compile-time drivers (`drivers/symbolic.hpp`) | a cache of node values during a sweep | reverse sweep, coloured Hessian, nested-dual tensors, Taylor sweep | a slot of the cache is the node's; what is harvested is filed where it belongs |
| compile-time coupling (`drivers/coupling.hpp`) | none | pattern, colouring, compressed columns | as the runtime ones; every entry of the pattern has one slot of the sparse layout |
| compile-time `Equation`, points (`expr/equation.hpp`, `expr/bound.hpp`) | expressions, their partials, symbols | evaluation, gradient in both modes, Jacobian, Hessian, subscripts, named and positional points | all ways to a derivative agree; a value reaches the symbol it was given for |
| duals (`dual/dual.hpp`, `dual/taylor_dual.hpp`) | none | truncated series arithmetic | the recurrences are the series' |
| storage (`md/*.hpp`) | none | index maps, packed simplex layout | the map is a bijection onto the packed range |

How they interact: operators on `RTExpression` call `Builder::make`; a sweep
reads a builder's nodes while its own operators append to the same builder;
`hessian()` runs the sweep, the pattern and the colouring, and then a sweep per
colour from expressions it forms; `Equation::create` forms the Jacobian,
`cached_hessians()` and `compiled()` form the rest on first use, and `compiled()`
freezes a graph that either the JIT or the interpreter walks. Everything is tied
together by node ids, which are plain integers: an id is meaningful only with
the arena, at a size that includes it.

What is hard here, then, is not concurrency (one equation belongs to one thread
until it is warmed) but **state that is shared by being appended to**: half-built
tables during growth, a loop over a vector its body grows, values read before
the ids they are indexed by were formed, caches that two kinds of call share,
layouts that several functions split by the same offsets; and **numeric
identities** that must hold for every scalar the template admits.

## Modules

The runtime half:

```
Interner            the promise of Builder::intern: a key has one id, for good
  ^ implemented by
InternTable         the open-addressing table, an iteration of a loop a step
InternTableProofs

Builder             nodes, symbols, folding, make() as operators on an arena value
  BuilderCalls        a machine that makes any calls     BuilderLemmas, BuilderProofs
  Interpreter         values of every node at a point, in any kind of numbers
  Expression          handles: nodes and pending literals
    Derivative          rules, one iteration of the reverse sweep, forward pass, Jacobian
      Calculus            what a derivative is: tangents of nodes, as numbers; the laws of numbers
        Sweep               a machine: sweeps over one builder, one after another   SweepProofs
        SecondOrder         numbers that carry a derivative; what a second derivative is
      Coupling            pattern, colouring, scatter target
        Hessian             a colour's seed and row, Hessian::at, hessian() as one call
                                                                                      DerivativeLemmas
          HessianSweep        a machine: one hessian() call, for every colour order (with SecondOrder)
                                                                                      HessianProofs
          Graph               GraphBuilder, the frozen graph, what a kernel computes
            Equation            a machine: create() and every call in any order (with SecondOrder)
                                                                                      EquationProofs
```

The compile-time half:

```
UnaryMath           the table of unary derivatives, over trees or numbers
Tree                expressions as values: overloads that fold, canonicalise, freezing
  TreeDerivative      the derivative rules, which build trees
    TreeCoupling        pattern, colouring, scatter table, compressed columns
      TreeDrivers         Equation's members: every sweep, seed and harvest
      Points              the spellings of a point
        Formula             a machine: writing an expression an operation at a time
TreeEval            seeded evaluation and the reverse sweep, over numbers of one kind
```

Numbers and the numeric drivers:

```
NumericDriver       gradient_into and hessian_into, a guard a step      NumericDriverProofs
Dual                Dual<T> and its functions, over any T
  MCCallables         callables to differentiate, over Dual
Taylor              TaylorDual<S, N>: a recurrence a function, over any S
Field11             the integers modulo 11 as scalars, and closed-form derivatives
```

`TreeDrivers` instantiates `TreeEval` five times, over scalars, over duals nested to
depth one, two and three (`Dual` over `Dual`, as the template is) and over `Taylor`.
`Builder` takes the place of `InternTable` in everything above it: its `Intern`
is what `InternTable` is shown to implement (find the id of the same node, or
append), under the condition both name, that equal nodes have one home in a table.

Each `MC*` module chooses finite inputs and an algebra, assumes what the theorems ask
of it, and states what needs that one algebra (reference derivatives).
`DerivativeLemmas` holds what the proofs about sweeps, Hessians and equations share: all
that can be said of the operators without a machine's state.

## How the modules correspond to the code

**Ids** are counted from 1, so an arena is a TLA+ sequence of nodes, and
`NoNode = 0` is `no_node`. **Slots** of symbols are counted from 1 as well.
**Scalars** are a constant set with opaque `Apply1` and `Apply2`; the rules of
the opcode tables are kept for representative rows (`Neg`, `Abs`, `Sign`, `Exp`;
`Add`, `Mul`, `Div`, `Pow`, `Max`), the others differ from them only in the scalar
function applied. `Eq` is the code's `==`, which is not equality on NaN.

- `InternTable`: `BeginProbe`/`BeginGrow` are the call and its load test,
  `RehashSkip`/`RehashPlace`/`RehashDone` the loops of `rehash`,
  `ProbeSkip`/`ProbeHit`/`ProbeFree` the loop of `intern`. `Hash` and `Same` are
  any functions, and `Capacities` the sizes a table takes: powers of two, closed under
  the doublings that `MaxNodes` nodes need. That keys which are the same have one home at
  each of these sizes (`HomesAgree`) is a hypothesis of theorems. `double` provides it:
  `==` takes 0.0 and -0.0 for one another and `payload_of` hashes their bits, but `hash_of`
  mixes the payload last, so that the two hashes differ in bits 30 and 63 only and no mask
  of a table of up to 2^30 slots parts them. `MCInternTable` has such a pair.
- `Builder`: `FoldUnary` and `FoldBinary` keep the order of the tests of `fold`;
  `Make` is fold, then operand ordering, then `Intern`. The arena is a record
  `[nodes, symbols]`, passed and returned, as the code passes `Builder &`.
- `Expression`: `Then` and `After` are an operator applied to a running
  expression, each forming its node at once, so that the nodes come in the order
  the statements of the code form them. C++ leaves the order of the two
  arguments of one call open; another order renumbers ids and changes nothing
  the properties look at.
- `Interpreter`: `evaluate_all` takes its arithmetic from the point it is given, so
  its operators take a *kind of numbers* K: a record of the numbers, the one that
  stands for no value, the conversion from the arena's scalars (`static_cast<U>`) and
  the operations (`apply`). `Scalars` is the arena's own kind.
- `Calculus` models no code. It has the tangents of an arena's nodes as numbers,
  from values and slopes, by the one rule every derivative obeys: a node's tangent
  is the sum over its operands of slope times tangent. The slopes of the operations
  are constants of the module (`Smooth` is `Scalars` with them), and no rule of the
  code's tables is in it; the properties of `Sweep` compare what the code forms with it.
- `SecondOrder` models no code either. `Duals` is the kind of numbers that carry,
  beside a value, its derivative in one direction; their slopes carry the derivatives
  of the slopes, which are further constants. A second derivative by symbols i and j
  is then what the tangent in direction j carries, computed over numbers that move in
  direction i: the interpreter and `Calculus` over another kind, and nothing new.
- `Derivative`/`Sweep`: `SweepAt` is one iteration of the loop of
  `reverse_gradient`, `Collect` its end; the machine runs it an iteration a step
  and then runs it again from its partials, as `hessian` does, over the arena the
  first sweep grew. `ReverseGradient` is the whole call, for the machines above.
- `Coupling`: the colouring is greedy over an *arbitrary* order of the columns,
  which covers the order Boost's `smallest_last_vertex_ordering` picks; what is
  checked holds for all of them. In `Equation` the order is fixed to slot order.
- `HessianSweep`: gradient and pattern, colouring, one colour a step, done.
- `NumericDriver`: `Hold` and `Release` are the constructor and destructor of
  `scoped_value`, which saves and restores one scalar of one number; `held` is
  the guards alive on the stack, and `Unwind` destroys them one by one after a
  `Throw`. `ws` keeps what the block and the heap vector of each workspace hold
  past the end of the current point. A call is a record: `reuse` is the writing
  form over the caller's workspace, which no entry point checks; the others own
  their storage. `Energy` is any function of the numbers.
- `Dual`: the operations of `Dual<T>` over the operations of `T`, passed as
  constants. `MCNumeric` instantiates it over a field for `dual` and over that
  instance for `dual2nd`, as the template is. A sub-expression used twice in the
  code (`inv`, `q`, `h`, `fv`) is a parameter of an operator, so it is
  evaluated once here as well.
- `Graph`: `FreezeGraph` turns nodes into properties and a row of edges per node;
  a row is a *set* of edges, each with its operand's slot, because that is all the
  CSR form keeps of operand order. `LiveNodes` is `mark_live`, `BlocksOf` is
  `output_blocks`, and a member of `GraphBuilder` is an operator on a record of the
  arena, roots, outputs and layout it has so far. `InterpretRow` and `KernelRow`
  are what the interpreter and a kernel store for a row: the first walks the whole
  arena, which may have grown since, the second only the live nodes of the frozen
  graph, finding operands through the edges. `KernelRow` stands for the walk of
  `codegen.cpp`; what LLVM then makes of it is taken to be right.
- `Equation`: one action per member. The batch members and the column queries
  get the graph from `Compiled` first (`OnGraph`), which is a set of outcomes: the
  JIT may give a kernel or decline, at each freeze, and `RunRow` falls back to the
  interpreter. `univariate_derivative` runs the interpreter over Taylor numbers,
  which are constants of the module (`Expansion`, `OnSeries1`, `OnSeries2`,
  `Highest`); `MCEquation` makes them instances of `Taylor` of order two. What an answer
  should be is stated over the values, tangents and second derivatives of `Calculus` and
  `SecondOrder`, of the arena as the call leaves it.
  `OwnKernel` is a caller that assembles and compiles a graph of its own in the
  equation's arena. `CachedHessians` and `Compiled` are the lazy
  fills, inside the calls that trigger them and after those calls' own early
  returns, as in the code. `answer` is what the member returned and `called`
  which kinds of fill have run. `Grow` is a caller that kept the builder of a
  borrowed arena and forms another expression in it. `Read` answers
  `Undefined` for an id outside the values it is read from.
- `Tree`: a C++ expression type is a value `[op, kids, value, label, frozen]`, so
  type identity is equality of trees, and an overload set is an operator whose
  cases are in the order overload resolution prefers them (`Built` is the operator or
  function a user calls, `Node` the node it forms if nothing folds). A `Lit` has its
  number in the type; a `Constant` is a storing `Lit`, whose number is not part of
  the type, so that the tests for "the same operand" compare trees with their stored
  numbers taken out. `Canonicalise` is `simplify.hpp`'s single bottom-up pass.
- `UnaryMath`, `TreeDerivative`: the derivative rules of the operations, which build
  trees through those same overloads; the table of unary derivatives is one
  definition, used over trees by the symbolic partials and over numbers by the
  reverse sweep.
- `TreeEval`: the cached evaluation and the reverse sweep, over numbers of any one
  kind. A node's cell of the cache is its pre-order position, and is written only if
  its parent's adjoints read it (`ReadsPrimals`); a frozen symbol's adjoint is
  dropped.
- `TreeCoupling`: pattern, colouring and scatter table as compile-time constants, and
  the compressed columns of the sparse Hessian with their slot tables and the sink
  that takes entries nobody reads.
- `TreeDrivers`: the members of the compile-time `Equation`. `ColorSweeps` toggles
  the seeds of one colour on, sweeps and toggles them off, so that a seed left on would
  reach the next colour; the three harvests of those sweeps are `ReverseModeHessian`
  (packed), `HessianExprReverse` (dense, mirrored pairs averaged) and
  `HessianValuesSparse`. `Cell` is the colex rank of `md/layouts.hpp`,
  `SimplexIndexTable` its enumeration, `MakeMixedSeed` and `ExtractNth` the nesting
  of duals to `MaxOrder`, `UnivariateDerivative` the Taylor sweep.
- `Points`: the spellings of a point, each a permutation or a selection.
- `Formula`: a program that writes an expression one operation a step. `expr` is the
  tree the library holds, folded on the way; `written` is what was put down, with no
  fold applied. Everything is stated between the two. `Subscript` and `Freeze` are
  the members that answer trees again.

## Runs, bounds and what they show

| run | instance | shows |
|---|---|---|
| `intern_table` | 7 keys that collide and wrap in different ways at capacities 2 to 16, 5 nodes: two growths with nodes to move; among the keys NaN, never the same as itself, and the two zeros, the same with different hashes | the table stays sound through growth, implements `Interner`, whoever asks for a node the same as one already given gets its id, and `intern` always returns |
| `builder` | every arena of at most 4 nodes over two symbols and GF(3) with NaN; 4 nodes are two leaves and two operations, or three leaves and one, and every rewrite is tried on top of each, so the terms it matches are up to three operations deep, which is as deep as any pattern of `fold` | topological ids, no twins, append-only, every rewrite keeps the value, nodes rebuild to themselves, operand order is no part of identity |
| `matrix_builder` | upper triangular 2x2 matrices over GF(2), a scalar whose product does not commute | the rewrites that assume commutativity are off |
| `sweep` | every expression of two calls over x, y and 2, each node as the root, then again from each partial; GF(5), two points | adjoints add up at every iteration; the gradient is right; the forward pass agrees; a sweep made again, over a builder that a sweep from any other node has grown since, answers the same ids and forms nothing |
| `hessian` | every expression of two calls over x, y, z and those with a third on top, all 6 orders of three columns | columns of a colour never meet, missing pairs are zero, scattered entries are nodes and the second derivatives |
| `equation` | equations of one and two functions in 0, 1 and 2 symbols, positional and named points of right and wrong arity, tables of three widths, buffers sized right and one column over, a JIT that takes each graph or does not, and one growth in between: an expression, or a graph of the caller's own | answers are complete and right whatever was frozen, compiled, cached or grown before, the univariate ones against numbers that carry two derivatives forward; a kernel stores what the interpreter does, NaN included; no batch writes columns it was not sized for; at most two graphs; the two caches hold one Hessian; a repeated kind of call writes nothing |
| `equation_batch` | the same | **violated**: see below |
| `numeric` | two calls in a row, every probe of which may throw: 21 functions of one variable at all 11 points, to both orders; graphs of two variables at six points with ties and zeros among them; a graph at points too short, right and too long with repeated, reversed, missing and stray indices; a callable of three numbers that does not fit the inline block, with spans shorter and longer than the indices | each probe sees the point with its own seeds and no others; nothing is left seeded; every cell is written, with the first or second derivative |
| `formula` | every formula of two steps from x: first any unary function, or any operator with y, a stored 2, the literals 1 and 0 on either side; then a few functions, or an operator with x, z, 2; squares, partials and frozen symbols at either step; three environments with a zero and a tie among them | folding keeps values and is complete in one pass; five ways to a gradient, six to a Hessian and two to a univariate derivative of order up to three agree with analysis; every spelling of a point is the point |
| `stored_constants` | quotients by y or a stored 2, then products with y or a stored 3 | **violated**: see below |
| `folded_symbols` | powers of x with literal exponents 0 and 1, then combined with y | **violated**: see below |

The bounds are `MaxNodes` (intern table and builder), `MaxSweeps = 2` (the second
sweep starts from results of the first, and a third from the second's differs in
nothing the invariant sees: the theorem covers any number), `MaxGrowth = 1`, the
length of `Palette` (two: every rewrite and rule of the compile-time half looks at
a node and its operands, and at most at an operand's operand, which a second step
on top of a first gives it), `MaxOrder = 3` (the first order at which a seed of a
nested dual is neither the outermost nor the innermost),
`MaxCalls = 2` (what one call of the numeric drivers leaves to another is the
storage, which `LeftClean` says is clean; the theorems cover any number) and the
model sets (`Models`, `Givens`, `Positional`, `Named`, `Tables`). Buffer sizes
are right or one over (`Sizes`), which is enough for a test by equality. A grown
expression combines the arena's first node and a function (`Handles`).

*Algebra.* Values are in a small prime field with an absorbing NaN for 1/0. A
field identity over the rationals holds in GF(p), and a wrong rule fails at some
point with the chosen points and expressions (each mutant of a rule does). `Exp`
in GF(5) is an arbitrary non-constant function whose derivative is declared to be
itself, in the code's rule and in the reference alike; the checks are then about
the chain rule around it. Points where the *reference* is NaN are skipped: the
code drops 0*x and x/x to constants on purpose, so it may be defined where the
textbook expression is not; it must never be undefined or different where the
reference has a value.

`numeric` and the runs of `Formula` are over GF(11), where a square has a square root that is again a square
and every element a cube root, so that `sqrt`, `cbrt` and `hypot` obey the
identities their derivatives rest on; the other functions of `<cmath>` are
arbitrary quadratics, no two the same, since their rules use nothing of them but
which function is whose derivative. An order of the residues from -5 to 5 decides
`abs`, `max` and `min`.

What a field of eleven elements adds of its own is kept out of `formula` by its
reference, the second-order jets of `MCFormula`: they are NaN, and the point is
skipped, where residues are so far apart that their order wraps round (`Ordered`),
and at a constant at which the function is not smooth, where a dual number has 0/0
though its tangent is zero. `max` and `min` are compared with the branch taken, and
with the mean of the two at a tie, as the code has them; the other branch must be
differentiable too. `TaylorAgrees` leaves out a varying exponent, whose series goes
by `exp` and `log`, which in GF(11) are no inverses.

Two of its invariants are guarded because of what the violated runs show:
`GradientsAgree` asks nothing of the reverse gradient of an equation that lost a
symbol (`Kept`), and nothing at all of a formula with a quotient by a stored
constant (`DividesByStored`). `FoldingSound` needs no guard in `formula`, whose
palette has one stored constant only: x / 2 * 2 does fold to x.

*References.* In `numeric`, closed forms written out in `MCNumeric`, function by
function, which are `Value`, `FirstAt` and `SecondAt` of the driver there; they share no rule
with `Dual`. In `formula`,
jets: a value, a gradient and a symmetric matrix, by the chain rule from partials
written out per function. In `sweep` the tangents of `Calculus`, with the slopes of the operations written out
in `MCSweep` by the textbook rules, and in `hessian` the second derivatives of
`SecondOrder`, with the derivatives of those slopes in `MCHessian`. In `equation` it is
both, with slopes and their derivatives in `MCEquation`, and for the univariate calls
(`UnivariateCorrect`) numbers v + p e1 + q e2 + s e1 e2. All of them walk the original
nodes and none uses the code's derivative tables. `MCSweep`, `MCHessian` and
`MCEquation` also assume `CalculusLaws`, of the
scalars and of the duals over them, the hypotheses under which the same properties are
proved, so that TLC evaluates them on GF(5): they are hypotheses that numbers satisfy.

*Fairness.* Only `InternTable` has it: `WF(Step)` on the code's own loop
iterations. `intern` is straight-line code that runs once called; a call itself
is not fair, nobody has to make one.

*Stopping.* The runs set `CHECK_DEADLOCK FALSE` because bounded machines stop: a
builder at `MaxNodes`, a sweep after `MaxSweeps`, a finished `hessian()`, a
failed `create()`, the drivers after `MaxCalls`, a formula at the end of its
palette.

## Where the code and its documentation part

1. **A gradient batch after a Hessian batch** (`equation_batch`,
   `rt/equation.hpp:405`). One cached graph serves both kinds of call, "a superset
   of the without". `dispatch` compares each block's width with the graph's, and
   a gradient or Jacobian batch has no Hessian columns: once a Hessian batch, or
   just `hessian_columns()`, has frozen the larger graph, every gradient batch of
   an equation with at least one symbol is answered `wrong_column_count`,
   with columns exactly as the queries size them.
2. **Stored constants in a quotient** (`stored_constants`, `expr/simplify.hpp:35`).
   `(a / b) * b` folds to `a` where the two `b` have one type; a storing `Lit<T>`
   has its number outside its type, so `x / 2.0 * 3.0` folds to `x` too. The
   comments above the rule say that type identity is structural identity and that a
   runtime constant never folds.
3. **A symbol that folds away** (`folded_symbols`, `drivers/symbolic.hpp:201`). An
   `Equation` keeps the symbols of what the user wrote, so that folding cannot shrink
   the point, but its reverse gradient reads the point by the symbols of the folded
   tree: of `pow(x, 0_lit) * y` it takes y from x's place and files dy as dx. The
   symbolic mode of the same member has it right.

Seen while reading, and modelled as the code does it where it is modelled:

- `0.0` and `-0.0` are always one node, whichever came first: a constant -0.0 asked for
  after 0.0 answers the id of 0.0, and 1/x at it has the other sign. It is `==` that
  merges them, at `rt/builder.hpp:131`; that hashing does not part them is the order in
  which `hash_of` mixes, and would not hold of every scalar of eight bytes
  (`HomesAgree` is the condition: two floats in a word, compared by value, do not meet it).
- A named point of a runtime equation that leaves a symbol out evaluates at zero
  there, and one that names a symbol twice takes the last (`NamedPointOf`), where the
  README promises that a wrong point does not pass silently. Runtime symbols are
  in the order they were first named, where the README has "the same canonical symbol
  order" as the compile-time half.
- A Hessian over no active index answers the value 0 without calling the function
  (`drivers/numeric.hpp:72`), where the comment at line 59 promises f(x). A gradient
  whose span is shorter than its indices drops the last of them without a word
  (`Width`).
- `README.md:190` has `pow(x, 0)` and `pow(x, 1)` folded "by the operators
  themselves"; `pow` builds its node and only `canonicalise` folds it. A bare number
  promotes to a stored constant, so `x + 0` folds nowhere.
- `eq[idx<1>()]` (`README.md:407`) answers the partial with the other symbols frozen
  (`Partial`), so a second subscript by another symbol is zero.
- `output()` after `gradient()` counts a value behind the partials
  (`rt/graph.hpp:240`), and `output_blocks()` then cuts in the wrong place. No
  caller does it.
- "Compiling happens once per equation" (`README.md:748`): up to twice, as
  `FrozenAtMostTwice` has it. The comment on `compiler()` says that a kernel does not
  own its code; it shares it (`jit/kernel.hpp`).
- Duals: a third derivative of `pow(x, 2)` with a stored exponent, and a second of
  `pow(x, 1)`, are NaN at 0 by nested duals, where the Taylor sweep is finite
  (`TaylorIsNested` compares where nested duals have a value).
- An equation whose canonical tree has lost a symbol does not compile `hessian()`;
  nor does the symbolic derivative of `log` and its like over dual values. Neither
  is in a model: both are errors of compilation.

## What is proved

All proofs hold for every value of the constants under the assumptions named in
the modules.

**The hash table** (`InternTableProofs`). `TableSound` is not inductive: it says
nothing of where a loop is. `IInv` adds, for the loop of `rehash`, that only the
ids before the cursor are in the table and that every slot passed since the
home of the node at the cursor is taken; for the loop of `intern`, that the node
of every slot passed is another one; and that the table has more slots than ids
(`Room`), so that a free slot remains to end at. A search's path is the set
`Passed(c, h, s)` of slots from h to s, around the end if need be; `PassedAfter`
is the one lemma about the wrap-around, and no step reasons about `%` beyond
that a home is a slot. From it: `TableIsSound`; `TableImplementsInterner`, the
refinement (growth and probing are stutters, `ProbeHit` is `Hit`, `ProbeFree`
is `Miss`), under `HomesAgree`; and `IdsAreIdentities` (`IdentityStable`), under
`HomesAgree` and `SameIsEquivalence`: that `same` is symmetric and transitive. It need not
be reflexive, which it is not at a NaN, nor identity, which it is not at the zeros. The
argument is an invariant of `Interner` (`KeptOnce`: no two nodes are the same, and the id
given for a key is of a node that is the same), so that an answer has one node it can be.
`MCInternTable` assumes both hypotheses, and TLC evaluates them on a NaN and two zeros.

**The arena** (`BuilderLemmas`, `BuilderProofs`). `BInv` is well-formedness (operands
before users, arity respected, a variable's slot is a symbol) together with no
twin nodes, no duplicate symbols and every symbol's variable being a node. Each
of `Intern`, `Constant`, `Variable`, `Fold` and `Make` has a lemma that it
preserves these and extends the arena; the theorems on `BuilderCalls` follow
action by action. The rewrites appear in the lemmas only by where they may
answer: an existing id or a new constant.

`FormedOnce` (`Rebuilds`: making a node again from its own operands answers its id)
needs that no rewrite applies to a node of the arena. That is not a matter of one
`make`: `fold` looks at an operand's operands too, and at constants. `Settled` says it
of a node, `AllSettled` of an arena, and it is inductive because nodes do not
change (`FoldsUnary`, `FoldsBinary` state when `fold` answers something, apart from
what). `OrderOfOperands` (`OperandOrderIrrelevant`) goes through the same two
predicates, under the hypothesis `Commutes` that the functions the tables call
commutative commute on the scalar.

`RewritesAreSound` (`RewritesSound`: whatever `make` answers, an existing id, a
new constant or operands in the other order, has at every point the value that the
operation has) is the one theorem with laws of the scalar for hypothesis: `NumberLaws`
lists, one for each rewrite of `fold`, what numbers have to obey for
it, with NaN excepted where the code gives a NaN up on purpose, and that converting
the arena's scalars keeps what `fold` computed of them. Both algebras of
the runs do (`LawsAssumption` of `MCBuilder`, which TLC evaluates for each). The
proof rests on `ValuesAnswers`: the array the interpreter fills front to back is
the one function that answers every node from its operands' answers (`Interprets`).

**Loops.** The code's loops over nodes, columns and colours are recursive functions
over the index here, so that an induction over them is first-order: a set of
the indices reached, `SetInduction` (of `BuilderLemmas`), and `LoopRuns`, which says
that a loop whose every step has a successor has a run. A loop that forms nodes is
`Iterated` with its step as an operator argument: TLC expands the step once where
it counts coverage, and a proof cites the step's own lemma. Each loop proof names what
holds after k turns (`Reached(k)`) and shows that a turn takes it from k to k + 1.

**The sweep** (`SweepProofs`). The invariant adds to `TypeOK` that the arena is
well-formed and still begins with the snapshot the adjoints are indexed by. Every
rule of the derivative tables is shown to answer a node of an arena that extends
the one it was given, so `AdjointsAreNodes` holds for every model, every rule and
any number of sweeps.

`SweepsRepeat` (`SweepRepeats`) says that a gradient is one thing: asked for again, over
the snapshot that its own nodes and those of a sweep from any other node have made
longer, it is the same partials and forms no node. `CallInv` ties the machine to the
operator: between steps a sweep is at turn n - cursor of the call `ReverseGradient` on the
arena it began with, and when it is over its answer is that call's. `ReverseAgain` does the rest
(see `OneHessianAlways`, where it comes from), with the same exception of constants that are NaN.

**What a sweep adds up to** (`SweepProofs`). `AdjointsAccount` (`AdjointsAddUp`) is the
loop invariant of reverse accumulation as a statement about numbers: at every
iteration, over the nodes that have an adjoint and are a leaf or not visited yet, the
sum of adjoint times tangent is the root's tangent. `SweepIsGradient`
(`GradientCorrect`) is what is left of it when the loop ends: only the variables
remain, the tangent of a variable is one in its own direction and zero in any
other, so that the node filed for a symbol has the root's derivative by it for
value. `ForwardAgrees` (`SymbolicCorrect`) is the same of `symbolic_gradient()`, the
forward accumulation the code keeps to check the reverse one against.

The hypothesis of all three is `CalculusLaws` of the kind of numbers values are read
in: what `RewritesAreSound` asks of it; that it has a ring's sums and products, whose commutativity is not asked for, with an
absorbing NaN; and
that the derivative of an operation, wherever it has one, is the value of the formula
that the operation's row of the table spells out (`RowOf`, `LeftOf`, `RightOf`). The last
is a statement about `exp`, `cos` and the others, and not about the code: that
the code's rules *form nodes* with that value, from whatever `make` folds them to, is
proved (`PartialGives` and the lemmas like it). Nothing is claimed at a point where the root's tangent has no value, and by absorption no operand's value or slope
is without one where it has.

Three things make the argument go through. Values are read in an arena C that keeps
what the present one has (`Gives`), so that a node formed at one iteration is
still known after those of the next. A step of the sum is not a step of the code's: a
visit takes one term out and adds to one or two others, perhaps the same one twice
(x * x), perhaps one that had none (`Reads`, `Visits`; the lemmas on `Total` say what a
sum does when one of its terms changes). And a node's operands are before it, so that
none of the terms it adds to has been visited. `IInv` is for that strengthened: no
node twice, and the root in the snapshot.

**The Hessian's columns** (`DerivativeLemmas`, `HessianProofs`). `HessianInv` says by
stages what a call has: rows that are symmetric sets of slots (`PatternInv`: each
coupling rule adds a pair both ways), a colour for each column that no conflicting
column has (`ColorInv`; `Apart` is carried through the greedy loop for *any* order
of visits, and a first free colour exists as a column has finitely many
neighbours), and compressed rows of nodes of the arena for the colours swept
(`RowsInv`). `ColumnsAreSeparate` (`ColumnsSeparate`) needs all of the symmetry: a row
that couples two columns is a conflict of theirs only because it is coupled with
them in turn. `EntriesAreNodesAlways` (`EntriesAreNodes`) is that every entry a caller
can read is behind a colour in range, and a node.

**What the Hessian is worth** (`DerivativeLemmas`, `HessianProofs`). The lemmas about
rules, visits and whole sweeps are stated for any kind of numbers K under
`CalculusLaws(K)`: `ReverseNamesSlopes` is that what `reverse_gradient()` names has, in
K, the root's tangents for values. Over the scalars that is the gradient. Over
duals it says that the *nodes* of the gradient, read over numbers that move in
direction i, carry second derivatives, and both theorems come out of that one lemma
read twice. They ask `CalculusLaws` of the scalars and of the duals over them.

`PatternIsConservative` (`PatternConservative`: a pair that the pattern leaves out has
no second derivative but zero) is an induction over the nodes the root depends on
(`Covered`, `Quiet`): a node that does not depend on symbol i carries no derivative by it
(`Flat`), one that does not depend on j has a tangent by j that is nothing (`Nought`),
and one whose symbols the pattern does not couple has a tangent by j that is flat in
i. Each of `NodeCouples`' cases is where the last is decided (`NodeCouplesCovers`): a sum
couples nothing, a product each symbol of one side with each of the other, a quotient
the divisor's among themselves besides, any other operation all with all.

`CompressedIsHessian` (`HessianCorrect`) follows the value of an entry through a
sweep of a colour. The seed is the sum of that colour's partials and has, over duals
that move in direction i, the sum of their second derivatives for what it carries
(`ColorTerms`, `RowNames`). The sweep from the seed names its derivative by i, which is
a tangent over scalars where the other is what a dual number carries: `DualsPair` says
that the two computations are one.
Of the sum all terms but one are zero, by the pattern's theorem and because a colour
meets a row once, so the entry is that one's; where the row has none of the colour's
columns, or another, `at()` answers the zero node, and the pattern's theorem says
that zero is right. Where the second derivative asked for has no value nothing is
claimed, and where it has one so have the others of its row (`TangentsDefined`: whether a
tangent has a value does not depend on its direction). The invariant `MeaningInv` adds
to `HessianInv` what the nodes so far are worth in any arena that keeps this one
(`ZeroNamed`, `PartialsNamed`, `RowsNamed`) and that the rows are the pattern of an arena
this one has grown from (`PatternKept`).

**What an equation keeps** (`EquationProofs`). `EquationInv` holds of every id that
outlives the call that formed it: functions, partials, the blocks of the Hessians and
the outputs of the frozen graph are nodes of the arena, which only ever grows
(`Keeps`), and the frozen graph is that of an arena which the present one extends.
`KeptAreNodes` (`TypeOK`) is read off it. `RepeatInv` adds what a kind of call leaves
filled once it was answered: `CachedHessians` fills `hessians` with a block for
*each* root, so that it is empty only before. `RepeatsAreReadOnly`
(`RepeatIsReadOnly`), the action property, is then that no such call forms, fills or
freezes again: the half of the warming contract that the library owes.

`KernelsInterpret` (`KernelIsInterpreter`) compares a walk of the frozen live nodes,
whose operands are found through a *set* of edges, with the interpreter's walk of
the whole arena as it is by then. It holds because the live nodes are closed under
operands (`MarkedIsClosed`, `LiveIsClosed`), every edge set gives its node back with
operands in their slots, both the same or not (`EmittedIsFrozen`), and either walk
has answered a node's operands when it meets the node, so that on the live nodes
both are the solution of the same equations (`Solves`, `KernelAnswers`,
`RowsAgree`). Nothing is asked of the scalar: not even that a NaN is equal to itself.

`OneHessianAlways` (`OneHessian`) is about two calls with anything in between: the
blocks formed for a point and those formed again for the frozen graph are the same
ids. It takes that *every* operator of the pipeline, made again in an arena C that
has what it formed before (`Recalls`), answers the same ids and forms nothing.
`InternAgain` is where that is decided: the interner of C finds the node, no other
is the same (`NodesOnce`), so it finds that one. The rest carries it outwards: the
rewrites and `make` (`MakeBinaryAgain`), the stages of a formula and the derivative
rules (`Again`, `PartialsAgain`), a sweep, which in C runs over a longer snapshot
and skips the nodes it has not reached (`Spread`, `ReverseAgain`, in `DerivativeLemmas`), the coupling
pattern, where what is above the root is not below it (`PatternAgain`), seeds and
colours, and the whole call (`HessianAgain`). `TwiceInv` is then that both of the
equation's copies are of its function and of arenas that have grown into this one.
The theorem asks that no constant of the arena is a NaN (`Regular`), and that is no
convenience: the interner compares constants by `==`, never finds a NaN again, and
forms it anew each time. Of x * NaN * NaN the two Hessians are at different ids,
as TLC finds when `MCGivens` is given that function; their values are the same.

**The equation's batches** (`EquationProofs`). `BatchInv` ties the cached graph to
the equation: its value block is one column per function and its Jacobian block the
partials', and the number of freezes is 0, 1 without a Hessian, or at most 2 with
one. That `BlocksOf` cuts the outputs of a graph where the builder laid them is
`BuiltLayout` and `FirstOrderLayout`; every call goes through an arena with at least
one root, which is what `values()` tells an unset layout from (`Len(roots) > 0`).
From it `BatchesNeverOverrun` (a batch that is run was sized to the equation's
columns) and `CompiledAtMostTwice`.

**What an equation answers** (`EquationProofs`). `EveryAnswerIsCorrect`
(`AnswersCorrect`) is where the theorems on single sweeps and single Hessians become one on
the program that keeps their results: every row of every answer of `evaluate`, `jacobian`,
`hessian`, a batch or a kernel of the caller's own has all that its kind of call is
asked for, and it is the values of the functions `create()` was given, their partials and
their second derivatives, per point or as compressed columns that the colouring scatters.
The hypotheses are `CalculusLaws` of the scalars and of the duals over them. It is a theorem about
any order of calls, so what it takes is an invariant of what the kept ids *stand for*,
and that is not what they are worth at some point now: a call may append to the arena, and so may
whoever lent it. `MeaningInv` therefore says of each id what it is worth in every
arena that this one grows into and at every point of it (`MeansValue`, `MeansSlope`,
`MeansBend`), which growth cannot disturb (`MeaningGrows`). It holds of roots and
partials (`FunctionsMean`), of each function's cached block (`BlocksMean`), and, block by
block, of the frozen graph's columns (`GraphMeans`).

What establishes it is per call: `RootsMean` and `JacobianMeans` for `create()`, whose rows
each sweep an arena that has the nodes of the rows before it; `HessianSays`, out of
`CompressedIsHessian`'s lemmas, for a block; `FormedMeans` for the loop over functions.
For a graph it is `Composed`: a builder's outputs are three sections, each of which
means what was asked for, and each member of `GraphBuilder` adds one behind those there are and
leaves their meaning as it was. `SectionsRead` says that `output_blocks` then cuts where they
meet. What uses it is reading: a row read by such ids, of the values at any point
that spells a scalar for each symbol (`GivenPoint`), is right (`ValuesRead`, `PartialsRead`,
`SecondsRead`, `ColumnsRead`), an interpreted one because the values are those of the
arena as it is by then, and a kernel's because `KernelsInterpret` makes it the interpreted one.
Nothing is claimed of a partial or a second derivative where the function has none.

**The seeds** (`NumericDriverProofs`). `DriverInv` is inductive: the guards alive
are exactly those of the loops at this point of the control (`GuardsInv`, which
names their slot, their part and that what they saved is zero), the buffer of
the current call is the point with their seeds and clean past its end
(`BufferInv`), and all other storage is clean (`StorageInv`). A step that holds or
releases is an instance of one lemma, `SeedMoves`: a step that changes the seeds
of one number and nothing else takes `BufferInv` to itself under the new seeds.
That the inner and the outer guard may be over one number is where it could
fail, and `SeedInner` and `SeedOuter` are why it does not: each part can be set
whatever the other holds. `ActiveInPoint` says that a call which is not refused
has its indices in the point, by the checks or by what an unchecked caller owes
(`ValidCall`). From it `SeedsAreExact` and `WorkspacesLeftClean`, for every
callable and any number of calls and exceptions. `CellsAreWritten` (`EveryCellWritten`:
a call that returns has stored every cell of its gradient or Hessian) is about the
cells instead: `WrittenInv` names those the loops have passed, a mirrored pair with
each probe. It asks of the callable that what it answers is never the mark of an
unwritten cell (`EnergyWrites`).

`WrittenDerivatives` (`WrittenIsRight`) says what the cells are worth, also those
written before a later probe threw: the partial derivative of their own columns. Its
hypothesis, `Differentiates`, is about one run of the callable and not about the
drivers: seeded at two symbols, whatever numbers the buffer holds past the point, its
duals carry the derivatives there, and the second ones commute. `ProbeIsSeeded` puts
each probe under that hypothesis by the seeds' exactness, `RightInv` follows the cells
and the value from probe to probe (that the value of a call which returns was written
needs `Valued`, the points of the control where a probe is over), and `CheckedColumns`
says that a call that was checked fills no column of a symbol its callable does not
have. TLC evaluates the hypothesis in `MCNumeric` on every callable, point and pair of
symbols of the run, with and without a number left behind the point
(`DualsAssumption`): there it is the check of `Dual` against the closed forms.

## Only model-checked

- Univariate derivatives of a runtime equation (`UnivariateCorrect`). They are read off
  the interpreter over Taylor numbers, whose recurrences are loops over coefficients; all
  other answers are proved.
- That the functions of `Dual` obey their rules. The theorem on the numeric drivers
  takes it as a hypothesis, and `MCNumeric` evaluates it on its callables.
- Everything about the compile-time half. Expressions of that half are trees, the
  operators on them are recursive, and the prover has no use for a module that
  declares a recursive operator.
- `Returns`, liveness under fairness.

## Not modelled

- **Of the JIT**: LLVM's passes, the bindings of `libm` symbols, the vector calls and
  their tail; a kernel is modelled as the walk `codegen.cpp` makes. The lifetime of
  a kernel's code is that of a `shared_ptr` and has no protocol to check.
- **Of the duals**: `max`, `min`, `hypot` and `atan2` of a dual and a scalar, and the
  three-argument `hypot`. What the reals do and a finite field cannot (rounding,
  overflow, the scaling by `hypot` to avoid it) is out of the model. So are
  `eval_seeded`, by which a runtime graph becomes a callable, and the reverse driver
  that `drivers/hessian.hpp` picks for a graph of duals (see the plan).
- **Threads**: an equation's caches are filled without a lock, and the README
  leaves it to the caller to warm them; `RepeatIsReadOnly` is the half of that
  contract the library owes. Interleavings of cold calls are undefined behaviour
  that the documentation excludes.
- **References into the arena**: `reverse_gradient` copies a node before its body forms
  others (`rt/derivative.hpp:108`), as growth moves the vector. Nodes are values here, so a
  reference that outlives a reallocation is nothing the models could show.
- **Ownership of arenas** (`rt/equation.hpp:240-253`), more than one arena, the
  thread-local current arena, and growth of a borrowed arena *by a symbol*, after
  which an equation's arity is not that of its partials (`rt/equation.hpp:94`): in
  the plan.
- **`output()` behind another block**: `GraphOutput` is the operator, and the runs use
  it only where nothing follows the values, for the reason given above.
- **Of the compile-time half**: `Map`, the heterogeneous named map, which no driver uses;
  the Eigen view, which is the compressed columns over again; the dense `mdspan`
  plumbing, which is the standard's; scalars whose product does not commute; and
  expressions over dual values, whose tree is taken to be that over numbers. A
  program that does not compile is no behaviour.
- **The graph bridge** (`rt/bridge.hpp`) forms in an arena, by `Builder::make`, the
  expression a type spells; it is a caller of what is modelled.
- **Formatting, errors, configuration, DOT output, the demonstration**: wording
  and I/O.

## Plan

Done, in this order: the arena (`Interner`, `InternTable`, `Builder`); the sweeps, the
coupling and the runtime `Equation`; the numeric drivers and `Dual`; `GraphBuilder`, the
frozen graph and the kernel; the compile-time half and `Taylor`; and the proofs that go
with the first four.

Left, most important first:

1. `EquationOwnership`: more than one arena, the arena an equation is given against
   the one its expressions were formed in, growth by a symbol, and what the README
   promises of named points.
2. `CurrentArena`: nested and throwing model callbacks on several threads,
   poison, expressions that outlive their arena or mix two.
3. The reverse driver of `drivers/hessian.hpp` for a graph of duals, with `eval_seeded`.
