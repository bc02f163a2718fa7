---------------------------- MODULE HessianProofs ---------------------------
(***************************************************************************)
(* The compressed Hessian, for every arena, every op table, every order of *)
(* the greedy colouring and any number of symbols: no two columns that a   *)
(* row couples share a colour, every entry of the matrix is a node, and    *)
(* that node is worth the second derivative it stands for.                 *)
(***************************************************************************)
EXTENDS HessianSweep, DerivativeLemmas

-----------------------------------------------------------------------------
(* What holds from the first step on: the arena is sound, and all that the   *)
(* call has formed so far are nodes of it.                                   *)
Width == Len(arena.symbols)
SweepInv ==
  /\ Sound(arena)
  /\ root \in Ids(arena)
  /\ pc \in {"start", "color", "sweep", "done"}
  /\ compressed \in Seq([1..Width -> Ids(arena)])
PatternInv ==
  pc # "start" =>
    /\ partial \in [1..Width -> Ids(arena)]
    /\ zero \in Ids(arena)
    /\ Pattern(Width, rows)
ColorInv ==
  pc \in {"sweep", "done"} =>
    color \in [1..Width -> 1..Width] /\ Apart(Width, rows, color) /\ NoGap(Width, color)
RowsInv ==
  /\ pc = "sweep" => Len(compressed) <= ColorCount(color)
  /\ pc = "done" => Len(compressed) = ColorCount(color)
  /\ pc \in {"start", "color"} => compressed = <<>>
HessianInv == SweepInv /\ PatternInv /\ ColorInv /\ RowsInv

LEMMA InitHessianInv == Init => HessianInv
<1> SUFFICES ASSUME Init PROVE HessianInv
  OBVIOUS
<1>1. Sound(arena) /\ arena.nodes # <<>>
  BY ModelsAssumption DEF Init, Sound
<1>2. root \in Ids(arena)
  <2>1. arena.nodes \in Seq(Node)
    BY <1>1 DEF Sound, Arenas
  <2>2. Len(arena.nodes) \in Nat /\ Len(arena.nodes) # 0
    BY <1>1, <2>1
  <2>. QED BY <2>2 DEF Init, Ids
<1>. QED BY <1>1, <1>2 DEF Init, HessianInv, SweepInv, PatternInv, ColorInv, RowsInv

(* The gradient and the pattern: the nodes they are about are still there.   *)
LEMMA DifferentiateKeeps ==
  ASSUME HessianInv, Differentiate
  PROVE  HessianInv'
<1> DEFINE g == ReverseGradient(arena, root)
           z == Constant(g.arena, Zero)
<1>0. Sound(arena) /\ root \in Ids(arena) /\ pc = "start" /\ compressed = <<>>
  BY DEF HessianInv, SweepInv, RowsInv, Differentiate
<1>1. /\ partial' = g.partial /\ rows' = CouplingPattern(g.arena, root)
      /\ arena' = z.arena /\ zero' = z.id /\ pc' = "color"
      /\ root' = root /\ compressed' = compressed
  BY DEF Differentiate
<1>2. Partials(arena, g)
  BY <1>0, ReverseAnswers
<1> HIDE DEF g
<1>3. /\ Keeps(arena, g.arena) /\ Sound(g.arena) /\ g.arena.symbols = arena.symbols
      /\ g.partial \in [1..Width -> Ids(g.arena)] /\ root \in Ids(g.arena)
  BY <1>0, <1>2, IdsGrow DEF Partials, Keeps, Width
<1>4. Answers(g.arena, z)
  BY <1>3, ConstantAnswers, ScalarAssumption
<1> HIDE DEF z
<1>5. /\ Sound(arena') /\ arena'.symbols = arena.symbols /\ zero' \in Ids(arena')
      /\ Ids(g.arena) \subseteq Ids(arena')
  BY <1>1, <1>3, <1>4, IdsGrow DEF Answers, Keeps
<1>6. Pattern(Width, rows')
  BY <1>1, <1>3, PatternAnswers DEF Width
<1>7. Width' = Width
  BY <1>5 DEF Width
<1>8. partial' \in [1..Width -> Ids(arena')]
  BY <1>1, <1>3, <1>5
<1>9. SweepInv'
  BY <1>0, <1>1, <1>3, <1>5 DEF SweepInv
<1>10. PatternInv' /\ ColorInv' /\ RowsInv'
  BY <1>0, <1>1, <1>5, <1>6, <1>7, <1>8 DEF PatternInv, ColorInv, RowsInv
<1>. QED BY <1>9, <1>10 DEF HessianInv

(* An order that repeats no column leaves none out. *)
LEMMA OrderNamesAll ==
  ASSUME NEW m, m \in Nat, NEW order, order \in Orders(m)
  PROVE  IsOrder(m, order)
<1> DEFINE S == 1..m
<1>1. order \in [S -> S] /\ \A j, k \in S : order[j] = order[k] => j = k
  BY DEF Orders
<1>2. IsFiniteSet(S)
  BY FS_Interval
<1> HIDE DEF S
<1>3. order \in Injection(S, S)
  BY <1>1 DEF Injection, IsInjective
<1>4. order \in Surjection(S, S)
  BY <1>2, <1>3, FS_Injection
<1>5. \A j \in S : \E k \in S : order[k] = j
  BY <1>4 DEF Surjection
<1>. QED BY <1>1, <1>5 DEF IsOrder, S

LEMMA ColorColumnsKeeps ==
  ASSUME HessianInv, NEW order \in Orders(Len(arena.symbols)), ColorColumns(order)
  PROVE  HessianInv'
<1>0. /\ Width \in Nat /\ Pattern(Width, rows) /\ IsOrder(Width, order) /\ pc = "color"
      /\ compressed = <<>>
  <2>1. Width \in Nat
    BY DEF HessianInv, SweepInv, Sound, Arenas, Width
  <2>. QED BY <2>1, OrderNamesAll DEF HessianInv, PatternInv, RowsInv, ColorColumns, Width
<1>1. /\ color' = GreedyColors(rows, order) /\ pc' = "sweep"
      /\ UNCHANGED <<arena, root, partial, rows, compressed, zero>>
  BY DEF ColorColumns
<1>2. color' \in [1..Width -> 1..Width] /\ Apart(Width, rows, color') /\ NoGap(Width, color')
  BY <1>0, <1>1, GreedyAnswers
<1>3. Width' = Width
  BY <1>1 DEF Width
<1>4. ColorCount(color') \in Nat
  BY <1>0, <1>2, CountOfColors
<1>5. SweepInv' /\ PatternInv' /\ ColorInv'
  BY <1>0, <1>1, <1>2, <1>3 DEF HessianInv, SweepInv, PatternInv, ColorInv
<1>6. RowsInv'
  BY <1>0, <1>1, <1>4 DEF RowsInv
<1>. QED BY <1>5, <1>6 DEF HessianInv

LEMMA SweepColorKeeps ==
  ASSUME HessianInv, SweepColor
  PROVE  HessianInv'
<1> DEFINE row == ColorRow(arena, partial, color, Len(compressed) + 1)
<1>0. /\ Sound(arena) /\ root \in Ids(arena) /\ Width \in Nat /\ pc = "sweep"
      /\ compressed \in Seq([1..Width -> Ids(arena)])
      /\ partial \in [1..Width -> Ids(arena)] /\ zero \in Ids(arena)
      /\ Pattern(Width, rows) /\ color \in [1..Width -> 1..Width]
      /\ Apart(Width, rows, color) /\ NoGap(Width, color)
      /\ Len(compressed) < ColorCount(color)
  BY DEF HessianInv, SweepInv, PatternInv, ColorInv, SweepColor, Sound, Arenas, Width
<1>1. /\ arena' = row.arena /\ compressed' = Append(compressed, row.partial)
      /\ UNCHANGED <<pc, root, partial, rows, color, zero>>
  BY DEF SweepColor
<1>2. Partials(arena, row)
  <2>1. color \in [1..Width -> Nat]
    BY <1>0
  <2>. QED BY <1>0, <2>1, ColorRowAnswers DEF Width
<1> HIDE DEF row
<1>3. /\ Sound(arena') /\ Width' = Width /\ row.partial \in [1..Width -> Ids(arena')]
      /\ Ids(arena) \subseteq Ids(arena')
  BY <1>0, <1>1, <1>2, IdsGrow DEF Partials, Keeps, Width
<1>4. partial' \in [1..Width -> Ids(arena')] /\ zero' \in Ids(arena') /\ root' \in Ids(arena')
  BY <1>0, <1>1, <1>3
<1> DEFINE T == [1..Width -> Ids(arena')]
<1>5. compressed \in Seq(T)
  <2>1. [1..Width -> Ids(arena)] \subseteq T
    BY <1>3
  <2> HIDE DEF T
  <2>. QED BY <1>0, <2>1
<1>6. row.partial \in T
  BY <1>3
<1>7. compressed' \in Seq([1..Width' -> Ids(arena')]) /\ Len(compressed') = Len(compressed) + 1
  <2> HIDE DEF T
  <2>1. compressed' \in Seq(T) /\ Len(compressed') = Len(compressed) + 1
    BY <1>1, <1>5, <1>6
  <2>. QED BY <1>3, <2>1 DEF T
<1>8. SweepInv'
  BY <1>0, <1>1, <1>3, <1>4, <1>7 DEF SweepInv
<1>9. PatternInv' /\ ColorInv'
  BY <1>0, <1>1, <1>3, <1>4 DEF PatternInv, ColorInv
<1>10. RowsInv'
  <2>1. ColorCount(color) \in Nat
    BY <1>0, CountOfColors
  <2>2. Len(compressed) \in Nat
    BY <1>0
  <2>. QED BY <1>0, <1>1, <1>7, <2>1, <2>2 DEF RowsInv
<1>. QED BY <1>8, <1>9, <1>10 DEF HessianInv

LEMMA StepHessianInv ==
  ASSUME HessianInv, [Next]_vars
  PROVE  HessianInv'
<1>1. CASE Differentiate
  BY <1>1, DifferentiateKeeps
<1>2. ASSUME NEW order \in Orders(Len(arena.symbols)), ColorColumns(order) PROVE HessianInv'
  BY <1>2, ColorColumnsKeeps
<1>3. CASE SweepColor
  BY <1>3, SweepColorKeeps
<1>4. CASE Done
  BY <1>4 DEF Done, HessianInv, SweepInv, PatternInv, ColorInv, RowsInv, Width
<1>5. CASE UNCHANGED vars
  BY <1>5 DEF vars, HessianInv, SweepInv, PatternInv, ColorInv, RowsInv, Width
<1>. QED BY <1>1, <1>2, <1>3, <1>4, <1>5 DEF Next

THEOREM HessianInvariant == Spec => []HessianInv
<1>1. HessianInv /\ [Next]_vars => HessianInv'
  BY StepHessianInv
<1>. QED BY <1>1, InitHessianInv, PTL DEF Spec

-----------------------------------------------------------------------------
(* Two columns share a colour only when no row couples them: the pattern is  *)
(* symmetric, so a row that couples both is one that they conflict in, and   *)
(* the colouring gave conflicting columns different colours.                 *)
THEOREM ColumnsAreSeparate == Spec => []ColumnsSeparate
<1>1. HessianInv => ColumnsSeparate
  <2> SUFFICES ASSUME HessianInv, pc \in {"sweep", "done"},
                      NEW i \in DOMAIN rows, NEW j \in rows[i], NEW k \in rows[i],
                      color[j] = color[k], j # k
               PROVE  FALSE
    BY DEF ColumnsSeparate
  <2>1. Pattern(Width, rows) /\ color \in [1..Width -> 1..Width] /\ Apart(Width, rows, color)
    BY DEF HessianInv, PatternInv, ColorInv
  <2>2. i \in 1..Width /\ j \in 1..Width /\ k \in 1..Width
    BY <2>1 DEF Pattern
  <2>3. i \in rows[j] /\ i \in rows[k]
    BY <2>1, <2>2 DEF Pattern
  <2>4. ~Conflict(rows, j, k)
    BY <2>1, <2>2 DEF Apart
  <2>. QED BY <2>3, <2>4 DEF Conflict
<1>. QED BY <1>1, HessianInvariant, PTL

(* Every entry a caller can read is a node of the arena. *)
THEOREM EntriesAreNodesAlways == Spec => []EntriesAreNodes
<1>1. HessianInv => EntriesAreNodes
  <2> SUFFICES ASSUME HessianInv, pc = "done", NEW i \in DOMAIN rows, NEW j \in DOMAIN rows
               PROVE  color[j] \in DOMAIN compressed /\ HessianAt(i, j) \in Ids(arena)
    BY DEF EntriesAreNodes
  <2>1. /\ Width \in Nat /\ Pattern(Width, rows) /\ zero \in Ids(arena)
        /\ color \in [1..Width -> 1..Width] /\ NoGap(Width, color)
        /\ compressed \in Seq([1..Width -> Ids(arena)]) /\ Len(compressed) = ColorCount(color)
    BY DEF HessianInv, SweepInv, PatternInv, ColorInv, RowsInv, Sound, Arenas, Width
  <2>2. i \in 1..Width /\ j \in 1..Width
    BY <2>1 DEF Pattern
  <2>3. color[j] \in 1..ColorCount(color)
    BY <2>1, <2>2, ColorsCounted
  <2>4. color[j] \in DOMAIN compressed
    BY <2>1, <2>3
  <2>5. compressed[color[j]] \in [1..Width -> Ids(arena)]
    BY <2>1, <2>4
  <2>. QED BY <2>1, <2>2, <2>4, <2>5 DEF HessianAt, Entry
<1>. QED BY <1>1, HessianInvariant, PTL

-----------------------------------------------------------------------------
(* The nodes named so far mean what the call takes them for.                 *)
Table == [rows |-> rows, color |-> color, compressed |-> compressed, zero |-> zero]
NamesInv ==
  /\ NodesOnce(arena)
  /\ pc # "start" => Grounded(arena, root, partial, rows, zero)
  /\ pc \in {"sweep", "done"} => Swept(arena, partial, color, compressed)
MeaningInv == HessianInv /\ NamesInv

LEMMA InitNamesInv == Init => NamesInv
<1> SUFFICES ASSUME Init PROVE NamesInv
  OBVIOUS
<1>. QED BY ModelsAssumption DEF Init, NamesInv

LEMMA StepMeaningInv ==
  ASSUME CalculusLaws(Smooth), CalculusLaws(Duals), MeaningInv, [Next]_vars
  PROVE  MeaningInv'
<1>0. /\ HessianInv /\ HessianInv' /\ NamesInv
      /\ Sound(arena) /\ root \in Ids(arena) /\ NodesOnce(arena)
  BY StepHessianInv DEF MeaningInv, NamesInv, HessianInv, SweepInv
<1>1. CASE Differentiate
  <2> DEFINE g == ReverseGradient(arena, root)
             z == Constant(g.arena, Zero)
  <2>1. /\ partial' = g.partial /\ rows' = CouplingPattern(g.arena, root)
        /\ arena' = z.arena /\ zero' = z.id /\ pc' = "color" /\ root' = root
    BY <1>1 DEF Differentiate
  <2>2. Grounded(z.arena, root, g.partial, CouplingPattern(g.arena, root), z.id)
    BY <1>0, GradientGrounds
  <2> HIDE DEF g, z
  <2>3. Grounded(arena', root', partial', rows', zero')
    BY <2>1, <2>2
  <2>4. NodesOnce(arena') /\ pc' \notin {"sweep", "done"}
    BY <2>1, <2>3 DEF Grounded
  <2>. QED BY <1>0, <2>3, <2>4 DEF MeaningInv, NamesInv
<1>2. ASSUME NEW order \in Orders(Len(arena.symbols)), ColorColumns(order) PROVE MeaningInv'
  <2>1. pc = "color" /\ compressed = <<>>
        /\ UNCHANGED <<arena, root, partial, rows, compressed, zero>>
    BY <1>0, <1>2 DEF ColorColumns, HessianInv, RowsInv
  <2>2. Swept(arena', partial', color', compressed')
    BY <2>1 DEF Swept
  <2>. QED BY <1>0, <2>1, <2>2 DEF MeaningInv, NamesInv
<1>3. CASE SweepColor
  <2> DEFINE row == ColorRow(arena, partial, color, Len(compressed) + 1)
             T == [1..Width -> Ids(arena)]
  <2>1. /\ Grounded(arena, root, partial, rows, zero) /\ Swept(arena, partial, color, compressed)
        /\ color \in [1..Len(arena.symbols) -> Nat] /\ compressed \in Seq(T)
    BY <1>0, <1>3 DEF SweepColor, NamesInv, HessianInv, SweepInv, ColorInv, Width
  <2>2. /\ arena' = row.arena /\ compressed' = Append(compressed, row.partial)
        /\ UNCHANGED <<pc, root, partial, rows, color, zero>>
    BY <1>3 DEF SweepColor
  <2> HIDE DEF T
  <2>3. Keeps(arena, row.arena)
          /\ Swept(row.arena, partial, color, Append(compressed, row.partial))
    BY <2>1, ColorRowSwept
  <2> HIDE DEF row
  <2>4. Grounded(row.arena, root, partial, rows, zero)
    BY <2>1, <2>3, GroundedKept
  <2>5. Grounded(arena', root', partial', rows', zero')
          /\ Swept(arena', partial', color', compressed')
    BY <2>2, <2>3, <2>4
  <2>. QED BY <1>0, <2>5 DEF MeaningInv, NamesInv, Grounded
<1>4. CASE Done \/ UNCHANGED vars
  <2>1. /\ UNCHANGED <<arena, root, partial, rows, color, compressed, zero>>
        /\ pc' = pc \/ (pc = "sweep" /\ pc' = "done")
    BY <1>4 DEF Done, vars
  <2>. QED BY <1>0, <2>1 DEF MeaningInv, NamesInv
<1>. QED BY <1>1, <1>2, <1>3, <1>4 DEF Next

LEMMA MeaningInvariant ==
  ASSUME CalculusLaws(Smooth), CalculusLaws(Duals)
  PROVE  Spec => []MeaningInv
<1>1. Init => MeaningInv
  BY InitHessianInv, InitNamesInv DEF MeaningInv
<1>2. MeaningInv /\ [Next]_vars => MeaningInv'
  BY StepMeaningInv
<1>. QED BY <1>1, <1>2, PTL DEF Spec

(* A pair of symbols that the coupling pattern leaves out has no second      *)
(* derivative but zero: where neither an operation nor a product couples     *)
(* them, the tangent by the one does not move with the other.                *)
THEOREM PatternIsConservative ==
  ASSUME CalculusLaws(Smooth), CalculusLaws(Duals)
  PROVE  Spec => []PatternConservative
<1>1. MeaningInv => PatternConservative
  <2> SUFFICES ASSUME MeaningInv, pc = "color", NEW p \in PointsHere,
                      NEW i \in DOMAIN rows, NEW j \in DOMAIN rows \ rows[i]
               PROVE  SecondDerivative(arena, p, i, j, root) \in {Zero, NaN}
    BY DEF PatternConservative
  <2>1. PICK B : Sound(B) /\ Keeps(B, arena) /\ root \in Ids(B) /\ rows = CouplingPattern(B, root)
    BY DEF MeaningInv, NamesInv, Grounded, PatternKept
  <2>2. p \in PointFor(Smooth, arena) /\ j \notin CouplingPattern(B, root)[i]
    BY <2>1 DEF PointsHere
  <2>. QED BY <2>1, <2>2, UncoupledSecond
<1>. QED BY <1>1, MeaningInvariant, PTL

(* Every entry a caller reads is the second derivative it stands for,        *)
(* wherever that has a value: the one term of its colour's sum that the row  *)
(* couples, or the zero node where the row couples none.                     *)
THEOREM CompressedIsHessian ==
  ASSUME CalculusLaws(Smooth), CalculusLaws(Duals)
  PROVE  Spec => []HessianCorrect
<1>1. MeaningInv => HessianCorrect
  <2> SUFFICES ASSUME MeaningInv, pc = "done", NEW p \in PointsHere, NEW i \in DOMAIN rows,
                      NEW j \in DOMAIN rows,
                      SecondDerivative(arena, p, i, j, root) # NaN
               PROVE  ValuesAt(Smooth, arena, p)[HessianAt(i, j)] =
                        SecondDerivative(arena, p, i, j, root)
    BY DEF HessianCorrect
  <2>1. Complete(arena, root, partial, Table)
    BY DEF MeaningInv, NamesInv, HessianInv, ColorInv, RowsInv, Complete, Painted, Table, Width
  <2>2. i \in 1..Len(arena.symbols) /\ j \in 1..Len(arena.symbols) /\ p \in PointFor(Smooth, arena)
    BY DEF MeaningInv, HessianInv, PatternInv, Pattern, PointsHere, Width
  <2>3. HessianAt(i, j) = Entry(Table, i, j)
    BY DEF HessianAt, Table
  <2>. QED BY <2>1, <2>2, <2>3, EntryMeans
<1>. QED BY <1>1, MeaningInvariant, PTL
=============================================================================
