--------------------------- MODULE EquationProofs ---------------------------
(***************************************************************************)
(* A runtime equation, for every arena, every function, every point and    *)
(* every order of calls and of growth of a borrowed arena: a batch never   *)
(* writes to columns it was not given, an equation is compiled at most     *)
(* twice, every id it keeps is a node, a kind of call made once is         *)
(* read-only from then on, its two Hessians are one, a kernel is its       *)
(* interpreter, and every answer is right.                                 *)
(***************************************************************************)
EXTENDS Equation, DerivativeLemmas

-----------------------------------------------------------------------------
(* The same calls again, in an arena that has what they formed and may have  *)
(* been given more: they answer the same ids, and form nothing.              *)

(* What is below a node of an arena is below it when nodes are added above. *)
LEMMA ReachableAgain ==
  ASSUME NEW B, Sound(B), NEW r \in Ids(B), NEW C, Keeps(B, C)
  PROVE  Reachable(C, {r}) = Reachable(B, {r}) /\ Reachable(B, {r}) \subseteq Ids(B)
<1> DEFINE n == Len(B.nodes)
           m == Len(C.nodes)
           d == m - n
           below == [v \in Ids(B) |-> Operands(B.nodes[v])]
           above == [v \in Ids(C) |-> Operands(C.nodes[v])]
<1>1. /\ n \in Nat /\ m \in Nat /\ n <= m /\ Sound(C) /\ Ids(B) = 1..n /\ Ids(C) = 1..m
      /\ \A v \in Ids(B) : C.nodes[v] = B.nodes[v]
  BY DEF Keeps, Extends, Sound, Arenas, Ids
<1>2. Descends(n, below) /\ Descends(m, above)
  BY <1>1, OperandsDescend
<1>3. \A v \in 1..n : above[v] = below[v]
  BY <1>1
<1>4. Reachable(B, {r}) = Marked(below, {r}) /\ Reachable(C, {r}) = Marked(above, {r})
  BY DEF Reachable
<1> HIDE DEF n, m, below, above
<1>5. {r} \in SUBSET (1..n) /\ {r} \in SUBSET (1..m) /\ r <= n
  BY <1>1
<1>6. PICK f : MarkRun(n, below, {r}, f) /\ Marked(below, {r}) = f[n]
  BY <1>2, <1>5, MarkedRuns
<1>7. PICK h : MarkRun(m, above, {r}, h) /\ Marked(above, {r}) = h[m]
  BY <1>2, <1>5, MarkedRuns
<1>8. d \in Nat /\ d + n = m
  BY <1>1
<1>9. h[d] = {r}
  <2> DEFINE G == [k \in 0..d |-> {{r}}]
  <2>1. h[0] \in G[0]
    BY <1>7, <1>8 DEF MarkRun
  <2>2. ASSUME NEW k \in 1..d, h[k - 1] \in G[k - 1] PROVE h[k] \in G[k]
    <3>1. k \in 1..m /\ h[k - 1] = {r} /\ m + 1 - k # r
      BY <1>1, <1>5, <1>8, <2>2
    <3>2. h[k] = MarkBelow(above, h[k - 1], m + 1 - k)
      BY <1>7, <3>1 DEF MarkRun
    <3>. QED BY <3>1, <3>2 DEF MarkBelow
  <2> HIDE DEF G
  <2>3. \A k \in 0..d : h[k] \in G[k]
    BY <1>8, <2>1, <2>2, LoopInvariant
  <2>. QED BY <1>8, <2>3 DEF G
<1>10. h[d + n] = f[n]
  <2> DEFINE S == {k \in Nat : k <= n => h[d + k] = f[k]}
  <2>1. 0 \in S
    <3>1. d + 0 = d /\ f[0] = {r}
      BY <1>6, <1>8 DEF MarkRun
    <3>. QED BY <1>9, <3>1
  <2>2. ASSUME NEW k \in Nat, k \in S PROVE k + 1 \in S
    <3> SUFFICES ASSUME k + 1 <= n PROVE h[d + (k + 1)] = f[k + 1]
      OBVIOUS
    <3> DEFINE v == n + 1 - (k + 1)
    <3>1. /\ k + 1 \in 1..n /\ d + (k + 1) \in 1..m /\ m + 1 - (d + (k + 1)) = v
          /\ (d + (k + 1)) - 1 = d + k /\ (k + 1) - 1 = k /\ v \in 1..n
      <4>1. n \in Nat /\ m \in Nat /\ d \in Nat /\ d + n = m
        BY <1>1, <1>8
      <4>2. v = n - k
        BY ONLY <4>1, k \in Nat DEF v
      <4> HIDE DEF d, v
      <4>. QED BY ONLY <4>1, <4>2, k \in Nat, k + 1 <= n
    <3>2. h[d + (k + 1)] = MarkBelow(above, h[d + k], v)
      <4>1. h[d + (k + 1)] = MarkBelow(above, h[(d + (k + 1)) - 1], m + 1 - (d + (k + 1)))
        BY <1>7, <3>1 DEF MarkRun
      <4>. QED BY <3>1, <4>1
    <3>3. f[k + 1] = MarkBelow(below, f[k], v)
      <4>1. f[k + 1] = MarkBelow(below, f[(k + 1) - 1], n + 1 - (k + 1))
        BY <1>6, <3>1 DEF MarkRun
      <4>. QED BY <3>1, <4>1
    <3>4. h[d + k] = f[k]
      <4>1. k <= n
        BY <1>1
      <4>. QED BY <2>2, <4>1
    <3> HIDE DEF v
    <3>. QED BY <1>3, <3>1, <3>2, <3>3, <3>4 DEF MarkBelow
  <2>3. \A k \in Nat : k \in S
    <3> HIDE DEF S
    <3>. QED BY <2>1, <2>2, SetInduction
  <2>. QED BY <1>1, <2>3
<1>11. f[n] \in SUBSET (1..n)
  BY <1>1, <1>6 DEF MarkRun
<1>. QED BY <1>1, <1>4, <1>6, <1>7, <1>8, <1>10, <1>11

(* What couples below a node is what does when there are other nodes above.  *)
LEMMA PatternAgain ==
  ASSUME NEW B, Sound(B), NEW r \in Ids(B), NEW C, Keeps(B, C)
  PROVE  CouplingPattern(C, r) = CouplingPattern(B, r)
<1> DEFINE n == Len(B.nodes)
           m == Len(C.nodes)
           live == Reachable(B, {r})
<1>1. PICK f : PatternRun(n, B, r, f) /\ CouplingPattern(B, r) = f[n].rows
  BY PatternRuns
<1>2. Sound(C) /\ C.symbols = B.symbols /\ n <= m
  BY DEF Keeps, Extends
<1>3. PICK h : PatternRun(m, C, r, h) /\ CouplingPattern(C, r) = h[m].rows
  BY <1>2, PatternRuns
<1>4. Reachable(C, {r}) = live /\ live \subseteq 1..n /\ \A v \in 1..n : C.nodes[v] = B.nodes[v]
  BY ReachableAgain DEF Ids, Keeps, Extends
<1>5. /\ n \in Nat
      /\ f[0] = [support |-> <<>>, rows |-> [i \in Slots(B) |-> {}]]
      /\ \A v \in 1..n : f[v] = CoupleAt(f[v - 1], B.nodes[v], v \in live)
  BY <1>1 DEF PatternRun
<1>6. /\ m \in Nat
      /\ h[0] = f[0]
      /\ \A v \in 1..m : h[v] = CoupleAt(h[v - 1], C.nodes[v], v \in live)
  BY <1>2, <1>3, <1>4, <1>5 DEF PatternRun, Slots
<1> HIDE DEF n, m, live
<1>7. h[n] = f[n]
  <2> DEFINE G == [v \in 0..n |-> {f[v]}]
  <2>1. h[0] \in G[0]
    BY <1>5, <1>6
  <2>2. ASSUME NEW v \in 1..n, h[v - 1] \in G[v - 1] PROVE h[v] \in G[v]
    <3>1. v \in 1..m /\ v \in 0..n /\ h[v - 1] = f[v - 1] /\ C.nodes[v] = B.nodes[v]
      BY <1>2, <1>4, <1>5, <1>6, <2>2
    <3>2. h[v] = CoupleAt(h[v - 1], C.nodes[v], v \in live)
      BY <1>6, <3>1
    <3>3. f[v] = CoupleAt(f[v - 1], B.nodes[v], v \in live)
      BY <1>5
    <3>. QED BY <3>1, <3>2, <3>3
  <2> HIDE DEF G
  <2>3. \A v \in 0..n : h[v] \in G[v]
    BY <1>5, <2>1, <2>2, LoopInvariant
  <2>. QED BY <1>5, <2>3 DEF G
<1>8. h[m].rows = h[n].rows
  <2> DEFINE S == {k \in Nat : n + k <= m => h[n + k].rows = h[n].rows}
  <2>1. 0 \in S
    BY <1>5
  <2>2. ASSUME NEW k \in Nat, k \in S PROVE k + 1 \in S
    <3> SUFFICES ASSUME n + (k + 1) <= m PROVE h[n + (k + 1)].rows = h[n].rows
      OBVIOUS
    <3>1. /\ n + (k + 1) \in 1..m /\ (n + (k + 1)) - 1 = n + k /\ n + k <= m
          /\ n + (k + 1) \notin live
      BY <1>4, <1>5, <1>6
    <3> DEFINE v == n + (k + 1)
    <3>2. h[v] = CoupleAt(h[v - 1], C.nodes[v], v \in live) /\ v - 1 = n + k /\ v \notin live
      BY <1>6, <3>1
    <3> HIDE DEF v
    <3>3. h[v].rows = h[n + k].rows
      BY <3>2 DEF CoupleAt
    <3>. QED BY <2>2, <3>1, <3>3 DEF v
  <2>3. \A k \in Nat : k \in S
    <3> HIDE DEF S
    <3>. QED BY <2>1, <2>2, SetInduction
  <2>4. m - n \in Nat /\ n + (m - n) = m
    BY <1>2, <1>5, <1>6 DEF n, m
  <2>. QED BY <1>6, <2>3, <2>4
<1>. QED BY <1>1, <1>3, <1>7, <1>8

(* Summed again it is the same expression. *)
LEMMA SeedAgain ==
  ASSUME NEW B, Sound(B), NEW m, m \in Nat, NEW partial, partial \in [1..m -> Ids(B)],
         NEW color, color \in [1..m -> Nat], NEW c, NEW C, Keeps(B, C)
  PROVE  Again(B, SeedOf(B, partial, color, c), C, SeedOf(C, partial, color, c))
<1>1. Sound(C) /\ Seeds(m, B, partial, color) /\ Seeds(m, C, partial, color)
  BY IdsGrow DEF Keeps, Seeds
<1>2. PICK f : SeedRun(m, B, partial, color, c, f) /\ SeedOf(B, partial, color, c) = f[m]
  BY <1>1, SeedRuns
<1>3. PICK h : SeedRun(m, C, partial, color, c, h) /\ SeedOf(C, partial, color, c) = h[m]
  BY <1>1, SeedRuns
<1> DEFINE S == {k \in Nat : k <= m => Again(B, f[k], C, h[k])}
<1>4. 0 \in S
  <2>1. Again(B, Start(B, Lit(Zero)), C, Start(C, Lit(Zero)))
    BY LiteralNames, StartAgain, ScalarAssumption
  <2>. QED BY <1>2, <1>3, <2>1 DEF SeedRun
<1>5. ASSUME NEW k \in Nat, k \in S PROVE k + 1 \in S
  <2> SUFFICES ASSUME k + 1 <= m PROVE Again(B, f[k + 1], C, h[k + 1])
    OBVIOUS
  <2> DEFINE v == k + 1
             s == f[k]
             t == h[k]
             chosen == color[v] = c
  <2>1. v \in 1..m /\ v - 1 = k /\ k <= m
    OBVIOUS
  <2>2. f[v] = WithColumn(s, partial[v], chosen) /\ h[v] = WithColumn(t, partial[v], chosen)
    BY <1>2, <1>3, <2>1 DEF SeedRun
  <2>3. Again(B, s, C, t)
    BY <1>5, <2>1
  <2>4. Names(B, At(partial[v]))
    BY <2>1, NodeNames
  <2> HIDE DEF v, s, t, chosen
  <2>5. Again(B, Then(s, "Add", At(partial[v])), C, Then(t, "Add", At(partial[v])))
    BY <2>3, <2>4, PipelineAgain, RuleAssumption
  <2>6. Again(B, f[v], C, h[v])
    BY <2>2, <2>3, <2>5 DEF WithColumn
  <2>. QED BY <2>6 DEF v
<1>6. \A k \in Nat : k \in S
  <2> HIDE DEF S
  <2>. QED BY <1>4, <1>5, SetInduction
<1>7. Again(B, f[m], C, h[m])
  BY <1>6
<1>. QED BY <1>2, <1>3, <1>7

(* A colour's row formed again is the same nodes. *)
LEMMA ColorRowAgain ==
  ASSUME NEW B, Sound(B), NEW m, m = Len(B.symbols), NEW partial, partial \in [1..m -> Ids(B)],
         NEW color, color \in [1..m -> Nat], NEW c,
         NEW C, Recalls(ColorRow(B, partial, color, c).arena, C)
  PROVE  ColorRow(C, partial, color, c) =
           [arena |-> C, partial |-> ColorRow(B, partial, color, c).partial]
<1> DEFINE stage == SeedOf(B, partial, color, c)
           seed == IdOf(stage)
           row == RowFrom(seed)
           again == SeedOf(C, partial, color, c)
           reseed == IdOf(again)
<1>0. m \in Nat /\ row = ColorRow(B, partial, color, c)
  BY DEF Sound, Arenas, ColorRow
<1>1. Stage(B, stage)
  BY <1>0, SeedStage
<1>2. Recalls(B, C)
  BY ColorRowAnswers, RecallsBefore DEF Partials
<1>3. Again(B, stage, C, again)
  BY <1>0, <1>2, SeedAgain DEF Recalls
<1> HIDE DEF stage, again
<1>4. Keeps(B, stage.arena) /\ Sound(stage.arena) /\ Names(stage.arena, stage.e)
  BY <1>1 DEF Stage, Keeps
<1>5. Answers(stage.arena, seed) /\ seed = Materialise(stage.arena, stage.e)
  BY <1>4, MaterialiseAnswers DEF IdOf
<1> HIDE DEF seed
<1>6. Sound(seed.arena) /\ seed.id \in Ids(seed.arena) /\ Keeps(stage.arena, seed.arena)
  BY <1>5 DEF Answers, Keeps
<1>7. Partials(seed.arena, row) /\ row = ReverseGradient(seed.arena, seed.id)
  BY <1>6, ReverseAnswers DEF RowFrom
<1> HIDE DEF row
<1>8. Recalls(row.arena, C)
  BY <1>0
<1>9. Recalls(seed.arena, C)
  BY <1>6, <1>7, <1>8, RecallsBefore DEF Partials
<1>10. Recalls(stage.arena, C)
  BY <1>4, <1>6, <1>9, RecallsBefore
<1>11. again = [arena |-> C, e |-> stage.e]
  BY <1>3, <1>10 DEF Again
<1>12. reseed = [arena |-> C, id |-> seed.id]
  BY <1>4, <1>5, <1>9, <1>11, MaterialiseAgain DEF IdOf
<1> HIDE DEF reseed
<1>13. ReverseGradient(C, seed.id) = [arena |-> C, partial |-> row.partial]
  BY <1>6, <1>7, <1>8, ReverseAgain
<1>14. RowFrom(reseed) = [arena |-> C, partial |-> row.partial]
  BY <1>12, <1>13 DEF RowFrom
<1>. QED BY <1>0, <1>14 DEF ColorRow, reseed, again

(* The block of h, of the arena C. *)
InArena(h, C) == [arena |-> C, rows |-> h.rows, color |-> h.color, compressed |-> h.compressed,
             zero |-> h.zero]

(* One more colour's row, and then all of them, formed again. *)
LEMMA NextColorAgain ==
  ASSUME NEW B, Sound(B), NEW m, m = Len(B.symbols), NEW partial, partial \in [1..m -> Ids(B)],
         NEW h, Block(B, h), NEW c, NEW C, Recalls(NextColor(h, partial, c).arena, C)
  PROVE  NextColor(InArena(h, C), partial, c) = InArena(NextColor(h, partial, c), C)
           /\ Recalls(h.arena, C)
<1> DEFINE A == h.arena
           color == h.color
           row == ColorRow(A, partial, color, c)
<1>1. Keeps(B, A) /\ Sound(A) /\ Len(A.symbols) = m
  BY DEF Block, Keeps
<1>2. partial \in [1..m -> Ids(A)]
  BY <1>1, IdsGrow
<1>3. color \in [1..m -> Nat]
  <2>1. h \in Blocks(m)
    BY DEF Block
  <2>. QED BY <2>1 DEF Blocks
<1> HIDE DEF A, color
<1>4. Partials(A, row)
  BY <1>1, <1>2, <1>3, ColorRowAnswers
<1>5. NextColor(h, partial, c) = WithColorRow(h, row)
  BY DEF NextColor, A, color
<1>6. Recalls(row.arena, C)
  BY <1>5 DEF WithColorRow
<1>7. Recalls(A, C)
  BY <1>1, <1>4, <1>6, RecallsBefore DEF Partials
<1>8. ColorRow(C, partial, color, c) = [arena |-> C, partial |-> row.partial]
  BY <1>1, <1>2, <1>3, <1>6, ColorRowAgain
<1> HIDE DEF row
<1> DEFINE redone == ColorRow(C, partial, color, c)
<1>9. NextColor(InArena(h, C), partial, c) = WithColorRow(InArena(h, C), redone)
  BY DEF NextColor, InArena, color
<1>10. redone.arena = C /\ redone.partial = row.partial
  BY <1>8
<1> HIDE DEF redone
<1>11. WithColorRow(InArena(h, C), redone) = InArena(WithColorRow(h, row), C)
  BY <1>10 DEF WithColorRow, InArena
<1>. QED BY <1>5, <1>7, <1>9, <1>11 DEF A

LEMMA CompressedAgain ==
  ASSUME NEW B, Sound(B), NEW m, m = Len(B.symbols), NEW partial, partial \in [1..m -> Ids(B)],
         NEW h0, Block(B, h0), NEW C, Recalls(Compressed(h0, partial).arena, C)
  PROVE  Compressed(InArena(h0, C), partial) = InArena(Compressed(h0, partial), C)
<1>1. PICK n, f : CompressedRun(n, B, partial, h0, f) /\ Compressed(h0, partial) = f[n]
  BY CompressedRuns
<1>2. /\ n = ColorCount(h0.color) /\ n \in Nat /\ f[0] = h0
      /\ \A k \in 1..n : f[k] = NextColor(f[k - 1], partial, k)
      /\ \A k \in 0..n : Block(B, f[k])
  BY <1>1 DEF CompressedRun
<1>3. ASSUME NEW k \in 1..n, Recalls(f[k].arena, C)
      PROVE  f[k] = NextColor(f[k - 1], partial, k) /\ Recalls(f[k - 1].arena, C)
             /\ NextColor(InArena(f[k - 1], C), partial, k) = InArena(f[k], C)
  <2> DEFINE h == f[k - 1]
  <2>1. Block(B, h) /\ f[k] = NextColor(h, partial, k)
    BY <1>2
  <2> HIDE DEF h
  <2>2. Recalls(NextColor(h, partial, k).arena, C)
    BY <1>3, <2>1
  <2>3. NextColor(InArena(h, C), partial, k) = InArena(NextColor(h, partial, k), C)
          /\ Recalls(h.arena, C)
    BY <2>1, <2>2, NextColorAgain
  <2>. QED BY <2>1, <2>3 DEF h
<1>4. \A j \in 0..n : Recalls(f[n - j].arena, C)
  <2> DEFINE S == {j \in Nat : j <= n => Recalls(f[n - j].arena, C)}
  <2>1. 0 \in S
    BY <1>1, <1>2
  <2>2. ASSUME NEW j \in Nat, j \in S PROVE j + 1 \in S
    <3> SUFFICES ASSUME j + 1 <= n PROVE Recalls(f[n - (j + 1)].arena, C)
      OBVIOUS
    <3>1. j <= n /\ n - j \in 1..n /\ (n - j) - 1 = n - (j + 1)
      BY <1>2
    <3>2. Recalls(f[n - j].arena, C)
      BY <2>2, <3>1
    <3>. QED BY <1>3, <3>1, <3>2
  <2>3. \A j \in Nat : j \in S
    <3> HIDE DEF S
    <3>. QED BY <2>1, <2>2, SetInduction
  <2>. QED BY <2>3
<1>5. \A k \in 0..n : Recalls(f[k].arena, C)
  <2> SUFFICES ASSUME NEW k \in 0..n PROVE Recalls(f[k].arena, C)
    OBVIOUS
  <2>1. n - k \in 0..n /\ n - (n - k) = k
    BY <1>2
  <2>. QED BY <1>4, <2>1
<1> DEFINE t0 == InArena(h0, C)
<1>6. Block(C, t0) /\ Sound(C) /\ m = Len(C.symbols) /\ partial \in [1..m -> Ids(C)]
      /\ ColorCount(t0.color) = n
  <2>1. Recalls(h0.arena, C) /\ Block(B, h0)
    BY <1>2, <1>5
  <2>2. /\ Keeps(B, C) /\ Sound(C) /\ C.symbols = B.symbols /\ Keeps(C, C) /\ C \in Arenas
        /\ Sound(h0.arena)
    BY <2>1, RecallsBefore, ExtendsRefl DEF Block, Recalls, Keeps, Sound
  <2>3. Ids(h0.arena) \subseteq Ids(C) /\ Ids(B) \subseteq Ids(C)
    BY <2>1, <2>2, IdsGrow DEF Recalls
  <2>4. /\ h0 \in Blocks(m) /\ h0.zero \in Ids(C)
        /\ h0.compressed \in Seq([1..m -> Ids(h0.arena)])
    BY <2>1, <2>3 DEF Block
  <2>5. [1..m -> Ids(h0.arena)] \subseteq [1..m -> Ids(C)]
    BY <2>3
  <2>6. h0.compressed \in Seq([1..m -> Ids(C)])
    BY <2>4, <2>5
  <2>7. t0 \in Blocks(m) /\ t0.arena = C /\ t0.compressed = h0.compressed /\ t0.zero = h0.zero
        /\ t0.color = h0.color
    BY <2>2, <2>4 DEF InArena, Blocks
  <2> HIDE DEF t0
  <2>8. Block(C, t0)
    BY <2>2, <2>4, <2>6, <2>7 DEF Block
  <2>. QED BY <1>2, <2>2, <2>3, <2>7, <2>8
<1> HIDE DEF t0
<1>7. PICK l, h : CompressedRun(l, C, partial, t0, h) /\ Compressed(t0, partial) = h[l]
  BY <1>6, CompressedRuns
<1>8. /\ l = n /\ h[0] = t0
      /\ \A k \in 1..n : h[k] = NextColor(h[k - 1], partial, k)
  BY <1>6, <1>7 DEF CompressedRun
<1> DEFINE G == [k \in 0..n |-> {InArena(f[k], C)}]
<1>9. \A k \in 0..n : h[k] \in G[k]
  <2>1. h[0] \in G[0]
    BY <1>2, <1>8 DEF t0
  <2>2. ASSUME NEW k \in 1..n, h[k - 1] \in G[k - 1] PROVE h[k] \in G[k]
    <3>1. k \in 0..n /\ k - 1 \in 0..n
      BY <1>2
    <3>2. h[k - 1] = InArena(f[k - 1], C)
      BY <2>2, <3>1
    <3>3. h[k] = InArena(f[k], C)
      BY <1>3, <1>5, <1>8, <3>1, <3>2
    <3>. QED BY <3>1, <3>3
  <2> HIDE DEF G
  <2>. QED BY <1>2, <2>1, <2>2, LoopInvariant
<1>10. h[n] = InArena(f[n], C)
  BY <1>2, <1>9
<1>. QED BY <1>1, <1>7, <1>8, <1>10 DEF t0

(* hessian(): formed again of the same function, it is the same block.       *)
LEMMA HessianAgain ==
  ASSUME NEW B, Sound(B), NEW r \in Ids(B), NEW C, Recalls(HessianOf(B, r).arena, C)
  PROVE  HessianOf(C, r) = InArena(HessianOf(B, r), C)
<1> DEFINE m == Len(B.symbols)
           g == ReverseGradient(B, r)
           z == Constant(g.arena, Zero)
           rows == CouplingPattern(g.arena, r)
           h0 == Colored(rows, z)
           h == Compressed(h0, g.partial)
<1>0. HessianOf(B, r) = h
  BY DEF HessianOf, HessianFrom
<1>1. Partials(B, g)
  BY ReverseAnswers
<1> HIDE DEF g
<1>2. /\ m \in Nat /\ Keeps(B, g.arena) /\ Sound(g.arena) /\ Len(g.arena.symbols) = m
      /\ g.partial \in [1..m -> Ids(g.arena)] /\ r \in Ids(g.arena)
  <2>1. Keeps(B, g.arena) /\ g.partial \in [1..m -> Ids(g.arena)]
    BY <1>1 DEF Partials
  <2>2. Sound(g.arena) /\ g.arena.symbols = B.symbols /\ m \in Nat
    BY <2>1 DEF Keeps, Sound, Arenas
  <2>. QED BY <2>1, <2>2, IdsGrow
<1>3. Answers(g.arena, z)
  BY <1>2, ConstantAnswers, ScalarAssumption
<1> HIDE DEF z
<1>4. Keeps(g.arena, z.arena) /\ z.id \in Ids(z.arena) /\ Sound(z.arena)
        /\ Keeps(z.arena, z.arena)
  BY <1>2, <1>3, ExtendsRefl DEF Answers, Keeps
<1>5. Pattern(m, rows)
  BY <1>2, PatternAnswers
<1> HIDE DEF rows
<1>6. DOMAIN rows = 1..m
  BY <1>5 DEF Pattern
<1> DEFINE order == [j \in 1..m |-> j]
           color == GreedyColors(rows, order)
<1>7. color \in [1..m -> 1..m]
  <2>1. IsOrder(m, order)
    BY DEF IsOrder
  <2> HIDE DEF order, m
  <2>. QED BY <1>2, <1>5, <2>1, GreedyAnswers
<1>8. h0 = [arena |-> z.arena, rows |-> rows, color |-> color, compressed |-> <<>>, zero |-> z.id]
  BY <1>6 DEF Colored, Uncompressed
<1>9. InArena(h0, C) = Colored(rows, [arena |-> C, id |-> z.id])
  BY DEF Colored, Uncompressed, InArena
<1> HIDE DEF color, h0
<1>10. Block(z.arena, h0) /\ Len(z.arena.symbols) = m /\ g.partial \in [1..m -> Ids(z.arena)]
  <2>1. Len(z.arena.symbols) = m /\ Ids(g.arena) \subseteq Ids(z.arena)
    BY <1>2, <1>4, IdsGrow DEF Keeps
  <2>2. h0 \in Blocks(m)
    BY <1>4, <1>5, <1>7, <1>8 DEF Blocks, Pattern, Sound, Ids
  <2>3. Block(z.arena, h0)
    BY <1>4, <1>8, <2>1, <2>2 DEF Block
  <2>. QED BY <1>2, <2>1, <2>3
<1>11. Block(z.arena, h)
  BY <1>4, <1>10, CompressedBlock
<1>12. Recalls(h.arena, C)
  BY <1>0
<1>13. Recalls(z.arena, C)
  BY <1>4, <1>11, <1>12, RecallsBefore DEF Block
<1>14. Recalls(g.arena, C)
  BY <1>2, <1>4, <1>13, RecallsBefore
<1>15. ReverseGradient(C, r) = [arena |-> C, partial |-> g.partial]
  BY <1>14, ReverseAgain DEF g
<1>16. Constant(C, Zero) = [arena |-> C, id |-> z.id]
  BY <1>2, <1>13, ConstantAgain, ScalarAssumption DEF z
<1>17. CouplingPattern(C, r) = rows
  BY <1>2, <1>14, PatternAgain DEF Recalls, rows
<1>18. Compressed(InArena(h0, C), g.partial) = InArena(h, C)
  BY <1>4, <1>10, <1>12, CompressedAgain
<1> HIDE DEF h
<1>19. HessianOf(C, r) = Compressed(InArena(h0, C), g.partial)
  BY <1>9, <1>15, <1>16, <1>17 DEF HessianOf, HessianFrom
<1>. QED BY <1>0, <1>18, <1>19

-----------------------------------------------------------------------------
(* The layout of an equation and what freezing counts.                       *)
(* The frozen graph has a column for each function and each partial the      *)
(* equation was created with, and each kind of graph is frozen once.         *)
LayoutMatches ==
  compiled.frozen => /\ compiled.graph.values = Len(roots)
                      /\ compiled.graph.jacobian = Len(derivative)
FreezesCounted ==
  /\ freezes \in Nat
  /\ ~compiled.frozen => freezes = 0 /\ ~compiled.hasHessian
  /\ ~compiled.hasHessian => freezes <= 1
  /\ freezes <= 2
BatchInv ==
  /\ compiled.frozen \in BOOLEAN /\ compiled.hasHessian \in BOOLEAN
  /\ roots = <<>> => ~compiled.frozen
  /\ LayoutMatches
  /\ FreezesCounted
  /\ NoOverrun

(* Nothing is compiled before an equation is used. *)
LEMMA InitBatchInv == Init => BatchInv
BY SMT DEF Init, BatchInv, LayoutMatches, FreezesCounted, NoOverrun, NotCompiled, Refuse

(* A graph's layout is what its builder counted, if it counted a value.      *)
LEMMA BuiltLayout ==
  ASSUME NEW gb, gb.layout.values # 0
  PROVE  Build(gb).values = gb.layout.values /\ Build(gb).jacobian = gb.layout.jacobian
BY DEF Build, FreezeGraph

(* A Hessian block leaves the count of values and partials alone. *)
LEMMA FirstOrderLayout ==
  /\ FirstOrder.layout.values = Len(roots) /\ FirstOrder.layout.jacobian = Len(derivative)
  /\ GraphHessian(FirstOrder).layout.values = Len(roots)
  /\ GraphHessian(FirstOrder).layout.jacobian = Len(derivative)
<1> DEFINE h == HessianOf(FirstOrder.arena, FirstOrder.roots[1])
           block == Flattened(h)
           gb == ValuesFrom(GraphBuilder(arena), roots)
<1>1. FirstOrder.layout = [gb.layout EXCEPT !.jacobian = Len(derivative)]
  BY DEF FirstOrder, JacobianFrom, WithBlockOf
<1>2. gb.layout = [values |-> Len(roots), jacobian |-> 0, hessian |-> 0]
  BY DEF ValuesFrom, GraphBuilder, NoLayout
<1>3. FirstOrder.layout = [values |-> Len(roots), jacobian |-> Len(derivative), hessian |-> 0]
  <2> HIDE DEF gb
  <2>. QED BY <1>1, <1>2
<1>4. GraphHessian(FirstOrder).layout = [FirstOrder.layout EXCEPT !.hessian = Len(block)]
  BY DEF GraphHessian, WithBlockOf
<1> HIDE DEF h, block
<1>5. GraphHessian(FirstOrder).layout =
        [values |-> Len(roots), jacobian |-> Len(derivative), hessian |-> Len(block)]
  BY <1>3, <1>4
<1>. QED BY <1>3, <1>5

(* Whatever a call wants, what compiled() hands it matches the equation and  *)
(* is the graph that is kept.                                                *)
LEMMA KeepsBatchInv ==
  ASSUME BatchInv, NEW want \in BOOLEAN, NEW c \in Compiled(want), Keep(c, want),
         UNCHANGED <<roots, derivative>>, Len(roots) # 0
  PROVE  /\ compiled'.frozen
         /\ compiled'.frozen \in BOOLEAN /\ compiled'.hasHessian \in BOOLEAN
         /\ LayoutMatches' /\ FreezesCounted'
         /\ compiled' = c.compiled
<1>1. compiled' = c.compiled
  BY DEF Keep
<1>2. CASE MustFreeze(want)
  <2> DEFINE gb == IF want THEN GraphHessian(FirstOrder) ELSE FirstOrder
  <2>0. c \in FrozenFrom(gb, want)
    BY <1>2 DEF Compiled, Freeze
  <2>1. gb.layout.values = Len(roots) /\ gb.layout.jacobian = Len(derivative)
    BY FirstOrderLayout
  <2> HIDE DEF gb
  <2>2. /\ compiled'.frozen = TRUE /\ compiled'.hasHessian = want
        /\ compiled'.graph.values = Len(roots) /\ compiled'.graph.jacobian = Len(derivative)
    <3>1. PICK kernel \in BOOLEAN :
            c = [arena |-> gb.arena,
                 compiled |-> [frozen |-> TRUE, hasHessian |-> want, kernel |-> kernel,
                   graph |-> Build(gb)]]
      BY <2>0 DEF FrozenFrom
    <3>2. Build(gb).values = Len(roots) /\ Build(gb).jacobian = Len(derivative)
      BY <2>1, BuiltLayout
    <3>. QED BY <3>1, <3>2, <1>1
  <2>3. freezes' = freezes + 1
    BY <1>2 DEF Keep
  <2>4. FreezesCounted'
    <3>1. CASE ~compiled.frozen
      BY <3>1, <2>2, <2>3, SMT DEF BatchInv, FreezesCounted
    <3>2. CASE compiled.frozen
      <4>1. want /\ ~compiled.hasHessian
        BY <1>2, <3>2 DEF MustFreeze
      <4>. QED BY <4>1, <2>2, <2>3, SMT DEF BatchInv, FreezesCounted
    <3>. QED BY <3>1, <3>2
  <2>. QED BY <1>1, <2>2, <2>4 DEF LayoutMatches
<1>3. CASE ~MustFreeze(want)
  <2>1. compiled' = compiled /\ freezes' = freezes
    BY <1>3 DEF Keep, Compiled
  <2>2. compiled.frozen
    BY <1>3 DEF MustFreeze
  <2>. QED BY <1>1, <2>1, <2>2 DEF BatchInv, LayoutMatches, FreezesCounted
<1>. QED BY <1>2, <1>3

(* A batch is run only on columns that are exactly the equation's. *)
LEMMA RunsOnlySized ==
  ASSUME NEW kind, NEW c, NEW table, NEW nf, NEW ng, NEW nh, NEW right,
         c.compiled.graph.values = Len(roots), c.compiled.graph.jacobian = Len(derivative),
         nh = c.compiled.graph.hessian => nh = right,
         Dispatched(kind, c, table, nf, ng, nh, right).status = "ok"
  PROVE  Dispatched(kind, c, table, nf, ng, nh, right).sized
<1> DEFINE fits == Fits(c.compiled.graph, table.width, nf, ng, nh)
           rows == [k \in DOMAIN table.rows |-> RunRow(c, table.rows[k])]
           reply == IF fits THEN Reply(kind, table.rows, rows)
             ELSE Refuse(kind, "wrong_column_count")
           sized == /\ table.width = arity /\ nf = Len(roots)
                    /\ ng = Len(derivative) /\ nh = right
<1>1. Dispatched(kind, c, table, nf, ng, nh, right) = [reply EXCEPT !.sized = sized]
  BY DEF Dispatched
<1>2. fits
  <2>1. SUFFICES ASSUME ~fits PROVE FALSE
    OBVIOUS
  <2>2. reply = Refuse(kind, "wrong_column_count")
    BY <2>1
  <2>3. [reply EXCEPT !.sized = sized].status = "wrong_column_count"
    BY <2>2 DEF Refuse
  <2>. QED BY <2>3, <1>1
<1>3. sized
  BY <1>2 DEF Fits
<1>4. [reply EXCEPT !.sized = sized].sized = sized
  BY DEF Reply, Refuse
<1>. QED BY <1>1, <1>3, <1>4

LEMMA StepBatchInv == BatchInv /\ [Next]_vars => BatchInv'
<1> SUFFICES ASSUME BatchInv, [Next]_vars
             PROVE  BatchInv'
  OBVIOUS
<1>1. CASE UNCHANGED vars
  BY <1>1 DEF vars, BatchInv, LayoutMatches, FreezesCounted, NoOverrun
<1>2. CASE CreateFails
  BY <1>2 DEF CreateFails, caches, fixed, Refuse, BatchInv, LayoutMatches, FreezesCounted,
     NoOverrun
<1>3. CASE Create
  <2>1. ~compiled.frozen /\ UNCHANGED <<compiled, freezes>>
    BY <1>3 DEF Create, BatchInv
  <2>2. answer'.sized
    BY <1>3 DEF Create, Reply
  <2>. QED BY <2>1, <2>2 DEF BatchInv, LayoutMatches, FreezesCounted, NoOverrun
<1> DEFINE SameGraph == UNCHANGED <<roots, derivative, compiled, freezes>>
<1>4. ASSUME SameGraph, answer'.status = "ok" => answer'.sized
      PROVE  BatchInv'
  BY <1>4 DEF BatchInv, LayoutMatches, FreezesCounted, NoOverrun
<1>5. ASSUME NEW kind, NEW point, NEW row, answer' = Answered(kind, point, row)
      PROVE  answer'.status = "ok" => answer'.sized
  <2>1. CASE point.status = "ok"
    BY <1>5, <2>1 DEF Answered, Reply
  <2>2. CASE point.status # "ok"
    BY <1>5, <2>2 DEF Answered, Refuse
  <2>. QED BY <2>1, <2>2
<1>6. CASE Len(roots) > 0 /\ Use
  <2>0. Len(roots) # 0 /\ roots # <<>>
    BY <1>6
  <2>1. ASSUME NEW point \in GivenPoints, Evaluate(point)
        PROVE  BatchInv'
    <3>1. SameGraph
      BY <2>1 DEF Evaluate, caches, fixed
    <3>2. answer'.status = "ok" => answer'.sized
      BY <2>1, <1>5 DEF Evaluate
    <3>. QED BY <3>1, <3>2, <1>4
  <2>2. ASSUME NEW point \in GivenPoints, HarvestJacobian(point)
        PROVE  BatchInv'
    <3>1. SameGraph
      BY <2>2 DEF HarvestJacobian, caches, fixed
    <3>2. answer'.status = "ok" => answer'.sized
      BY <2>2, <1>5 DEF HarvestJacobian
    <3>. QED BY <3>1, <3>2, <1>4
  <2>3. ASSUME NEW cached, HessianColors(cached)
        PROVE  BatchInv'
    BY <2>3, <1>4 DEF HessianColors, fixed, Reply
  <2>4. ASSUME NEW cached, NEW point \in GivenPoints, HessianAtPoint(cached, point)
        PROVE  BatchInv'
    <3>1. SameGraph
      BY <2>4 DEF HessianAtPoint, fixed
    <3>2. answer'.status = "ok" => answer'.sized
      BY <2>4 DEF HessianAtPoint, Reply, Refuse
    <3>. QED BY <3>1, <3>2, <1>4
  <2>5. ASSUME NEW want \in BOOLEAN, OnGraph(want)
        PROVE  BatchInv'
    <3>0. PICK c \in Compiled(want) :
            /\ Keep(c, want)
            /\ (~want /\ BatchJacobian(c)) \/ (want /\ BatchHessian(c)) \/ AskColumns(want)
      BY <2>5 DEF OnGraph
    <3>1. /\ Keep(c, want) /\ UNCHANGED <<roots, derivative>>
          /\ (~want /\ BatchJacobian(c)) \/ (want /\ BatchHessian(c)) \/ AskColumns(want)
      BY <2>5, <3>0 DEF OnGraph, fixed
    <3>2. /\ compiled'.frozen /\ LayoutMatches' /\ FreezesCounted'
          /\ compiled'.frozen \in BOOLEAN /\ compiled'.hasHessian \in BOOLEAN
          /\ compiled' = c.compiled
      BY <3>1, <2>0, KeepsBatchInv
    <3>3. c.compiled.graph.values = Len(roots) /\ c.compiled.graph.jacobian = Len(derivative)
      BY <3>1, <3>2 DEF LayoutMatches
    <3>4. NoOverrun'
      <4>1. CASE BatchJacobian(c)
        <5>1. PICK table \in Tables, nf \in Sizes(Len(roots)), ng \in Sizes(Len(derivative)) :
                answer' = Dispatched("batch jacobian", c, table, nf, ng, 0, 0)
          BY <4>1 DEF BatchJacobian
        <5>. QED BY <5>1, <3>3, RunsOnlySized DEF NoOverrun
      <4>2. CASE BatchHessian(c)
        <5>1. PICK table \in Tables, nf \in Sizes(1), ng \in Sizes(Len(derivative)),
                   nh \in Sizes(c.compiled.graph.hessian) :
                answer' = Dispatched("batch hessian", c, table, nf, ng, nh,
                  c.compiled.graph.hessian)
          BY <4>2 DEF BatchHessian
        <5>. QED BY <5>1, <3>3, RunsOnlySized DEF NoOverrun
      <4>3. CASE AskColumns(want)
        BY <4>3 DEF AskColumns, Reply, NoOverrun
      <4>. QED BY <3>1, <4>1, <4>2, <4>3
    <3>. QED BY <3>1, <3>2, <3>4, <1>6 DEF BatchInv
  <2>6. ASSUME NEW op, NEW a, NEW b, Grow(op, a, b)
        PROVE  BatchInv'
    BY <2>6, <1>4 DEF Grow, Reply
  <2>7. ASSUME NEW gb, OwnKernel(gb)
        PROVE  BatchInv'
    BY <2>7, <1>4 DEF OwnKernel, Reply
  <2>8. ASSUME NEW x0, UnivariateDerivative(x0)
        PROVE  BatchInv'
    <3>1. SameGraph
      BY <2>8 DEF UnivariateDerivative, caches, fixed
    <3>2. answer'.status = "ok" => answer'.sized
      BY <2>8 DEF UnivariateDerivative, Reply, Refuse
    <3>. QED BY <3>1, <3>2, <1>4
  <2>. QED BY <2>1, <2>2, <2>3, <2>4, <2>5, <2>6, <2>7, <2>8, <1>6 DEF Use
<1>. QED BY <1>1, <1>2, <1>3, <1>6 DEF Next

THEOREM BatchInvariant == Spec => []BatchInv
BY InitBatchInv, StepBatchInv, PTL DEF Spec

(* "An unchecked column-count mismatch is silent memory corruption": a batch *)
(* that is run writes to one column for each output and to no other.         *)
THEOREM BatchesNeverOverrun == Spec => []NoOverrun
<1>1. BatchInv => NoOverrun
  BY DEF BatchInv
<1>. QED BY <1>1, BatchInvariant, PTL

(* However batches, column queries and growth of the arena interleave, an    *)
(* equation is compiled at most twice.                                       *)
THEOREM CompiledAtMostTwice == Spec => []FrozenAtMostTwice
<1>1. BatchInv => FrozenAtMostTwice
  BY DEF BatchInv, FreezesCounted, FrozenAtMostTwice
<1>. QED BY <1>1, BatchInvariant, PTL

-----------------------------------------------------------------------------
(* What a block of an arena B's Hessians still is in a later arena C.        *)
BlockOf(C, h) ==
  /\ h \in Blocks(Len(C.symbols))
  /\ h.compressed \in Seq([1..Len(C.symbols) -> Ids(C)])
  /\ h.zero \in Ids(C)

LEMMA BlockKept ==
  ASSUME NEW B, NEW C, Sound(B), Keeps(B, C), NEW h, BlockOf(B, h)
  PROVE  BlockOf(C, h)
<1> DEFINE m == Len(B.symbols)
<1>1. Ids(B) \subseteq Ids(C) /\ C.symbols = B.symbols
  BY IdsGrow DEF Keeps
<1>2. [1..m -> Ids(B)] \subseteq [1..m -> Ids(C)]
  BY <1>1
<1>3. Seq([1..m -> Ids(B)]) \subseteq Seq([1..m -> Ids(C)])
  BY <1>2
<1>. QED BY <1>1, <1>3 DEF BlockOf

LEMMA SequenceKept ==
  ASSUME NEW B, NEW C, Sound(B), Keeps(B, C), NEW s, s \in Seq(Ids(B))
  PROVE  s \in Seq(Ids(C))
  BY IdsGrow

(* Rows of m, one behind another. *)
LEMMA RowIndex ==
  ASSUME NEW m \in Nat, NEW k \in Nat, NEW c \in 1..k, NEW i \in 1..m
  PROVE  (c - 1) * m + i \in 1..(k * m)
<1> DEFINE a == c - 1
           b == k - c
<1>1. a \in Nat /\ b \in Nat /\ k = a + b + 1
  OBVIOUS
<1> HIDE DEF a, b
<1>2. k * m = a * m + b * m + m /\ a * m \in Nat /\ b * m \in Nat
  BY <1>1
<1> DEFINE x == a * m
           y == b * m
<1> HIDE DEF x, y
<1>3. x + i \in 1..(x + y + m)
  BY ONLY <1>2, m \in Nat, i \in 1..m DEF x, y
<1>. QED BY <1>2, <1>3 DEF x, y, a

Stacked(m, row, k, s) ==
  /\ Len(s) = k * m
  /\ \A c \in 1..k, i \in 1..m : s[(c - 1) * m + i] = row[c][i]
LEMMA RowStacked ==
  ASSUME NEW m \in Nat, NEW S, NEW k \in Nat \ {0}, NEW row, NEW s, s \in Seq(S),
         Stacked(m, row, k - 1, s), NEW x, x \in Seq(S), x = row[k], Len(x) = m
  PROVE  s \o x \in Seq(S) /\ Stacked(m, row, k, s \o x)
<1> DEFINE a == (k - 1) * m
<1>1. k - 1 \in Nat /\ a \in Nat /\ k * m = a + m /\ Len(s) = a
  BY DEF Stacked
<1> HIDE DEF a
<1>2. /\ s \o x \in Seq(S) /\ Len(s \o x) = a + m
      /\ \A j \in 1..a : (s \o x)[j] = s[j]
      /\ \A i \in 1..m : (s \o x)[a + i] = x[i]
  BY ONLY <1>1, s \in Seq(S), x \in Seq(S), Len(x) = m, m \in Nat
<1>3. ASSUME NEW c \in 1..k, NEW i \in 1..m PROVE (s \o x)[(c - 1) * m + i] = row[c][i]
  <2>1. CASE c = k
    BY <1>2, <2>1 DEF a
  <2>2. CASE c # k
    <3>1. c \in 1..(k - 1)
      BY <2>2
    <3>2. (c - 1) * m + i \in 1..a
      BY <1>1, <3>1, RowIndex DEF a
    <3>3. s[(c - 1) * m + i] = row[c][i]
      BY <3>1 DEF Stacked
    <3>. QED BY <1>2, <3>2, <3>3
  <2>. QED BY <2>1, <2>2
<1>. QED BY <1>1, <1>2, <1>3 DEF Stacked

(* A block's columns, one row after another. *)
LEMMA FlattenedReads ==
  ASSUME NEW m, m \in Nat, NEW S, NEW h, h.compressed \in Seq([1..m -> S])
  PROVE  Flattened(h) \in Seq(S) /\ Stacked(m, h.compressed, Len(h.compressed), Flattened(h))
<1> DEFINE n == Len(h.compressed)
           base == <<>>
           States == Seq(S)
           Reached(k) == {s \in States : Stacked(m, h.compressed, k, s)}
           G == [k \in 0..n |-> Reached(k)]
           Longer(s, k) == s \o h.compressed[k]
           next == [k \in 1..n |-> [s \in States |-> Longer(s, k)]]
           Run(f) == f = [c \in 0..n |-> IF c = 0 THEN base ELSE Longer(f[c - 1], c)]
           after == CHOOSE f : Run(f)
<1>0. n \in Nat
  OBVIOUS
<1>1. base \in Reached(0)
  <2>1. Len(<<>>) = 0 /\ 0 * m = 0 /\ <<>> \in Seq(S)
    OBVIOUS
  <2>. QED BY <2>1 DEF Stacked
<1>2. ASSUME NEW k \in 1..n, NEW s \in Reached(k - 1) PROVE Longer(s, k) \in Reached(k)
  <2>1. h.compressed[k] \in [1..m -> S]
    OBVIOUS
  <2>2. h.compressed[k] \in Seq(S) /\ Len(h.compressed[k]) = m
    BY <2>1, FunctionIsSequence
  <2>3. k \in Nat \ {0}
    BY <1>0
  <2> DEFINE row == h.compressed
             x == row[k]
  <2> HIDE DEF row
  <2>4. s \in Seq(S) /\ Stacked(m, row, k - 1, s) /\ x \in Seq(S) /\ Len(x) = m
    BY <2>2 DEF row
  <2>5. s \o x \in Seq(S) /\ Stacked(m, row, k, s \o x)
    BY <2>3, <2>4, RowStacked
  <2>. QED BY <2>5 DEF row
<1> HIDE DEF n, base, States, Longer
<1>3. \A k \in 0..n : Reached(k) \subseteq States
  OBVIOUS
<1> HIDE DEF Reached
<1>4. PICK f \in [0..n -> States] :
           /\ f[0] = base
           /\ \A k \in 1..n : f[k - 1] \in G[k - 1] /\ f[k] = next[k][f[k - 1]]
  <2>1. base \in G[0] /\ \A k \in 0..n : G[k] \subseteq States
    BY <1>0, <1>1, <1>3
  <2>2. ASSUME NEW k \in 1..n, NEW s \in G[k - 1] PROVE next[k][s] \in G[k]
    <3>1. k \in 0..n /\ k - 1 \in 0..n
      BY <1>0
    <3>2. s \in Reached(k - 1)
      BY <3>1
    <3>3. s \in States /\ Longer(s, k) \in Reached(k)
      BY <1>2, <1>3, <3>1, <3>2
    <3>. QED BY <3>1, <3>3
  <2> HIDE DEF next, G
  <2>3. IsLoop(n, States, base, G, next)
    BY <1>0, <2>1, <2>2 DEF IsLoop
  <2>. QED BY <2>3, LoopRuns DEF IsRun
<1>5. ASSUME NEW k \in 1..n PROVE f[k] = Longer(f[k - 1], k)
  <2>1. f[k - 1] \in States /\ f[k] = next[k][f[k - 1]]
    <3> HIDE DEF next, G
    <3>. QED BY <1>0, <1>4
  <2>. QED BY <2>1
<1>6. Run(after)
  <2> HIDE DEF next
  <2>1. Run(f)
    BY <1>0, <1>4, <1>5
  <2>. QED BY <2>1
<1> HIDE DEF after
<1>7. \A k \in 0..n : after[k] \in Reached(k)
  <2>1. after[0] \in G[0]
    BY <1>0, <1>1, <1>6
  <2>2. ASSUME NEW k \in 1..n, after[k - 1] \in G[k - 1] PROVE after[k] \in G[k]
    <3>1. k \in 0..n /\ k - 1 \in 0..n
      BY <1>0
    <3>2. after[k - 1] \in Reached(k - 1) /\ after[k] = Longer(after[k - 1], k)
      BY <1>0, <1>6, <2>2, <3>1
    <3>3. after[k] \in Reached(k)
      BY <1>2, <3>2
    <3>. QED BY <3>1, <3>3
  <2>3. \A k \in 0..n : after[k] \in G[k]
    BY <1>0, <2>1, <2>2, LoopInvariant
  <2>. QED BY <2>3
<1>8. Flattened(h) = after[n]
  BY DEF Flattened, after, n, base, Longer
<1>9. after[n] \in Reached(n)
  BY <1>0, <1>7
<1>. QED BY <1>8, <1>9 DEF Reached, States, n

LEMMA FlattenedIds ==
  ASSUME NEW m, m \in Nat, NEW S, NEW h, h.compressed \in Seq([1..m -> S])
  PROVE  Flattened(h) \in Seq(S)
  BY FlattenedReads

-----------------------------------------------------------------------------
(* The ids that create() takes are of the arena that its literals end up in. *)
Handed == /\ Sound(arena) /\ args \in Seq([e : Expr, poisoned : BOOLEAN])
          /\ \A k \in DOMAIN args : Names(arena, args[k].e)
Rooted(pass) ==
  /\ Keeps(arena, pass.arena)
  /\ pass \in [arena : Arenas, ids : Seq(Ids(pass.arena))]
RootRun(f) ==
  /\ f[0] = [arena |-> arena, ids |-> <<>>]
  /\ \A k \in 1..Len(args) : f[k] = NextRoot(f[k - 1], args[k].e)
  /\ \A k \in 0..Len(args) : Rooted(f[k]) /\ Len(f[k].ids) = k
LEMMA RootIdsRuns ==
  ASSUME Handed
  PROVE  \E f : RootRun(f) /\ RootIds = f[Len(args)]
<1> DEFINE n == Len(args)
           base == [arena |-> arena, ids |-> <<>>]
           States == [arena : Arenas, ids : Seq(Nat)]
           Reached(k) == {s \in States : Rooted(s) /\ Len(s.ids) = k}
           G == [k \in 0..n |-> Reached(k)]
           next == [k \in 1..n |-> [s \in States |-> NextRoot(s, args[k].e)]]
           Run(f) == f = [k \in 0..n |-> IF k = 0 THEN base ELSE NextRoot(f[k - 1], args[k].e)]
           after == CHOOSE f : Run(f)
<1>0. n \in Nat /\ Sound(arena)
  BY DEF Handed
<1>1. base \in Reached(0)
  <2>1. Keeps(arena, arena) /\ arena \in Arenas
    BY <1>0, ExtendsRefl DEF Sound
  <2>2. <<>> \in Seq(Ids(arena)) /\ <<>> \in Seq(Nat) /\ Len(<<>>) = 0
    OBVIOUS
  <2>. QED BY <2>1, <2>2 DEF Rooted
<1>2. ASSUME NEW k \in 1..n, NEW s \in Reached(k - 1) PROVE NextRoot(s, args[k].e) \in Reached(k)
  <2> DEFINE reply == Materialise(s.arena, args[k].e)
             t == WithRoot(s, reply)
  <2>1. Keeps(arena, s.arena) /\ Sound(s.arena) /\ s.ids \in Seq(Ids(s.arena))
          /\ Len(s.ids) = k - 1
    BY DEF Rooted, Keeps
  <2>2. Names(arena, args[k].e)
    BY DEF Handed
  <2>3. Names(s.arena, args[k].e)
    BY <1>0, <2>1, <2>2, NamesKept
  <2>4. Answers(s.arena, reply)
    BY <2>1, <2>3, MaterialiseAnswers
  <2> HIDE DEF reply
  <2>5. /\ Keeps(s.arena, reply.arena) /\ reply.id \in Ids(reply.arena) /\ reply.arena \in Arenas
        /\ Keeps(arena, reply.arena)
    BY <1>0, <2>1, <2>4, KeepsTransitive DEF Answers, Keeps, Sound
  <2>6. s.ids \in Seq(Ids(reply.arena))
    BY <2>1, <2>5, SequenceKept
  <2>7. Append(s.ids, reply.id) \in Seq(Ids(reply.arena)) /\ Len(Append(s.ids, reply.id)) = k
    BY <1>0, <2>1, <2>5, <2>6
  <2>8. Append(s.ids, reply.id) \in Seq(Nat)
    BY <2>7 DEF Ids
  <2>9. t = [arena |-> reply.arena, ids |-> Append(s.ids, reply.id)]
    BY DEF WithRoot
  <2> DEFINE ids == Append(s.ids, reply.id)
  <2>10. Rooted(t)
    <3>1. ids \in Seq(Ids(reply.arena)) /\ t = [arena |-> reply.arena, ids |-> ids]
      BY <2>7, <2>9
    <3> HIDE DEF ids, t
    <3>. QED BY <2>5, <3>1 DEF Rooted
  <2>11. t \in States /\ Len(t.ids) = k
    <3>1. ids \in Seq(Nat) /\ Len(ids) = k /\ t = [arena |-> reply.arena, ids |-> ids]
      BY <2>7, <2>8, <2>9
    <3> HIDE DEF ids, t
    <3>. QED BY <2>5, <3>1
  <2>. QED BY <2>10, <2>11 DEF NextRoot, reply
<1> HIDE DEF n, base, States
<1>3. \A k \in 0..n : Reached(k) \subseteq States
  OBVIOUS
<1> HIDE DEF Reached
<1>4. PICK f \in [0..n -> States] :
           /\ f[0] = base
           /\ \A k \in 1..n : f[k - 1] \in G[k - 1] /\ f[k] = next[k][f[k - 1]]
  <2>1. base \in G[0] /\ \A k \in 0..n : G[k] \subseteq States
    BY <1>0, <1>1, <1>3
  <2>2. ASSUME NEW k \in 1..n, NEW s \in G[k - 1] PROVE next[k][s] \in G[k]
    <3>1. k \in 0..n /\ k - 1 \in 0..n
      BY <1>0
    <3>2. s \in Reached(k - 1)
      BY <3>1
    <3>3. s \in States /\ NextRoot(s, args[k].e) \in Reached(k)
      BY <1>2, <1>3, <3>1, <3>2
    <3>. QED BY <3>1, <3>3
  <2> HIDE DEF next, G
  <2>3. IsLoop(n, States, base, G, next)
    BY <1>0, <2>1, <2>2 DEF IsLoop
  <2>. QED BY <2>3, LoopRuns DEF IsRun
<1>5. ASSUME NEW k \in 1..n PROVE f[k] = NextRoot(f[k - 1], args[k].e)
  <2>1. f[k - 1] \in States /\ f[k] = next[k][f[k - 1]]
    <3> HIDE DEF next, G
    <3>. QED BY <1>0, <1>4
  <2>. QED BY <2>1
<1>6. Run(after)
  <2> HIDE DEF next
  <2>1. Run(f)
    BY <1>0, <1>4, <1>5
  <2>. QED BY <2>1
<1> HIDE DEF after
<1>7. \A k \in 0..n : after[k] \in Reached(k)
  <2>1. after[0] \in G[0]
    BY <1>0, <1>1, <1>6
  <2>2. ASSUME NEW k \in 1..n, after[k - 1] \in G[k - 1] PROVE after[k] \in G[k]
    <3>1. k \in 0..n /\ k - 1 \in 0..n
      BY <1>0
    <3>2. after[k - 1] \in Reached(k - 1) /\ after[k] = NextRoot(after[k - 1], args[k].e)
      BY <1>0, <1>6, <2>2, <3>1
    <3>3. after[k] \in Reached(k)
      BY <1>2, <3>2
    <3>. QED BY <3>1, <3>3
  <2>3. \A k \in 0..n : after[k] \in G[k]
    BY <1>0, <2>1, <2>2, LoopInvariant
  <2>. QED BY <2>3
<1>8. RootIds = after[n]
  BY DEF RootIds, after, n, base
<1>9. RootRun(after)
  <2>1. after[0] = base /\ \A k \in 1..n : after[k] = NextRoot(after[k - 1], args[k].e)
    BY <1>0, <1>6
  <2>2. \A k \in 0..n : Rooted(after[k]) /\ Len(after[k].ids) = k
    BY <1>7 DEF Reached
  <2>. QED BY <2>1, <2>2 DEF RootRun, n, base
<1>. QED BY <1>8, <1>9 DEF n

LEMMA RootIdsAnswers ==
  ASSUME Handed
  PROVE  Rooted(RootIds) /\ Len(RootIds.ids) = Len(args)
<1>1. PICK f : RootRun(f) /\ RootIds = f[Len(args)]
  BY RootIdsRuns
<1>2. Len(args) \in 0..Len(args)
  BY DEF Handed
<1>. QED BY <1>1, <1>2 DEF RootRun

(* A block for each function, all of them in one arena. *)
Formed(pass) ==
  /\ Keeps(arena, pass.arena)
  /\ pass.blocks \in Seq(Blocks(Len(arena.symbols)))
  /\ \A k \in DOMAIN pass.blocks : BlockOf(pass.arena, pass.blocks[k])
BlockRun(f) ==
  /\ f[0] = [arena |-> arena, blocks |-> <<>>]
  /\ \A k \in 1..Len(roots) : f[k] = NextBlock(f[k - 1], roots, k)
  /\ \A k \in 0..Len(roots) : Formed(f[k]) /\ Len(f[k].blocks) = k
LEMMA FormedHessiansRuns ==
  ASSUME Sound(arena), roots \in Seq(Ids(arena))
  PROVE  \E f : BlockRun(f) /\ FormedHessians = f[Len(roots)]
<1> DEFINE n == Len(roots)
           m == Len(arena.symbols)
           base == [arena |-> arena, blocks |-> <<>>]
           States == [arena : Arenas, blocks : Seq(Blocks(m))]
           Reached(k) == {s \in States : Formed(s) /\ Len(s.blocks) = k}
           G == [k \in 0..n |-> Reached(k)]
           next == [k \in 1..n |-> [s \in States |-> NextBlock(s, roots, k)]]
           Run(f) == f = [k \in 0..n |-> IF k = 0 THEN base ELSE NextBlock(f[k - 1], roots, k)]
           after == CHOOSE f : Run(f)
<1>0. n \in Nat /\ arena \in Arenas
  BY DEF Sound
<1>1. base \in Reached(0)
  <2>1. Keeps(arena, arena)
    BY ExtendsRefl
  <2>2. <<>> \in Seq(Blocks(m)) /\ DOMAIN <<>> = {} /\ Len(<<>>) = 0
    OBVIOUS
  <2>. QED BY <1>0, <2>1, <2>2 DEF Formed
<1>2. ASSUME NEW k \in 1..n, NEW s \in Reached(k - 1) PROVE NextBlock(s, roots, k) \in Reached(k)
  <2> DEFINE h == HessianOf(s.arena, roots[k])
             b == [h EXCEPT !.arena = EmptyArena]
             t == WithBlock(s, h)
  <2>1. /\ Keeps(arena, s.arena) /\ Sound(s.arena) /\ s.arena.symbols = arena.symbols
        /\ s.blocks \in Seq(Blocks(m)) /\ Len(s.blocks) = k - 1
        /\ \A i \in DOMAIN s.blocks : BlockOf(s.arena, s.blocks[i])
    BY DEF Formed, Keeps
  <2>2. roots[k] \in Ids(s.arena)
    BY <2>1, IdsGrow
  <2>3. Block(s.arena, h)
    BY <2>1, <2>2, HessianAnswers
  <2>4. t = [arena |-> h.arena, blocks |-> Append(s.blocks, b)]
    BY DEF WithBlock
  <2> HIDE DEF h
  <2>5. Keeps(s.arena, h.arena) /\ Keeps(arena, h.arena) /\ h.arena \in Arenas /\ h \in Blocks(m)
        /\ h.arena.symbols = arena.symbols
    BY <2>1, <2>3, KeepsTransitive DEF Block, Keeps, Sound
  <2>6. b \in Blocks(m) /\ b.compressed = h.compressed /\ b.zero = h.zero
    <3>1. EmptyArena \in Arenas
      BY DEF EmptyArena, Arenas
    <3>. QED BY <2>5, <3>1 DEF Blocks
  <2> HIDE DEF b
  <2>7. BlockOf(h.arena, b)
    BY <2>1, <2>3, <2>5, <2>6 DEF Block, BlockOf
  <2>8. \A i \in DOMAIN s.blocks : BlockOf(h.arena, s.blocks[i])
    BY <2>1, <2>5, BlockKept
  <2> DEFINE bs == Append(s.blocks, b)
  <2>9. /\ bs \in Seq(Blocks(m)) /\ Len(bs) = k /\ bs[k] = b
        /\ \A i \in 1..(k - 1) : bs[i] = s.blocks[i]
    BY <1>0, <2>1, <2>6
  <2> HIDE DEF bs
  <2>10. \A i \in DOMAIN bs : BlockOf(h.arena, bs[i])
    <3>1. SUFFICES ASSUME NEW i \in 1..k PROVE BlockOf(h.arena, bs[i])
      BY <2>9
    <3>2. CASE i = k
      BY <2>7, <2>9, <3>2
    <3>3. CASE i # k
      <4>1. i \in 1..(k - 1) /\ i \in DOMAIN s.blocks
        BY <1>0, <2>1, <3>3
      <4>. QED BY <2>8, <2>9, <4>1
    <3>. QED BY <3>2, <3>3
  <2>11. t = [arena |-> h.arena, blocks |-> bs]
    BY <2>4 DEF bs
  <2>12. t \in Reached(k)
    <3>1. t \in States /\ t.arena = h.arena /\ t.blocks = bs
      BY <2>5, <2>9, <2>11
    <3>2. Formed(t)
      BY <2>5, <2>9, <2>10, <3>1 DEF Formed
    <3>. QED BY <2>9, <3>1, <3>2
  <2>. QED BY <2>12 DEF NextBlock, h
<1> HIDE DEF n, base, States
<1>3. \A k \in 0..n : Reached(k) \subseteq States
  OBVIOUS
<1> HIDE DEF Reached
<1>4. PICK f \in [0..n -> States] :
           /\ f[0] = base
           /\ \A k \in 1..n : f[k - 1] \in G[k - 1] /\ f[k] = next[k][f[k - 1]]
  <2>1. base \in G[0] /\ \A k \in 0..n : G[k] \subseteq States
    BY <1>0, <1>1, <1>3
  <2>2. ASSUME NEW k \in 1..n, NEW s \in G[k - 1] PROVE next[k][s] \in G[k]
    <3>1. k \in 0..n /\ k - 1 \in 0..n
      BY <1>0
    <3>2. s \in Reached(k - 1)
      BY <3>1
    <3>3. s \in States /\ NextBlock(s, roots, k) \in Reached(k)
      BY <1>2, <1>3, <3>1, <3>2
    <3>. QED BY <3>1, <3>3
  <2> HIDE DEF next, G
  <2>3. IsLoop(n, States, base, G, next)
    BY <1>0, <2>1, <2>2 DEF IsLoop
  <2>. QED BY <2>3, LoopRuns DEF IsRun
<1>5. ASSUME NEW k \in 1..n PROVE f[k] = NextBlock(f[k - 1], roots, k)
  <2>1. f[k - 1] \in States /\ f[k] = next[k][f[k - 1]]
    <3> HIDE DEF next, G
    <3>. QED BY <1>0, <1>4
  <2>. QED BY <2>1
<1>6. Run(after)
  <2> HIDE DEF next
  <2>1. Run(f)
    BY <1>0, <1>4, <1>5
  <2>. QED BY <2>1
<1> HIDE DEF after
<1>7. \A k \in 0..n : after[k] \in Reached(k)
  <2>1. after[0] \in G[0]
    BY <1>0, <1>1, <1>6
  <2>2. ASSUME NEW k \in 1..n, after[k - 1] \in G[k - 1] PROVE after[k] \in G[k]
    <3>1. k \in 0..n /\ k - 1 \in 0..n
      BY <1>0
    <3>2. after[k - 1] \in Reached(k - 1) /\ after[k] = NextBlock(after[k - 1], roots, k)
      BY <1>0, <1>6, <2>2, <3>1
    <3>3. after[k] \in Reached(k)
      BY <1>2, <3>2
    <3>. QED BY <3>1, <3>3
  <2>3. \A k \in 0..n : after[k] \in G[k]
    BY <1>0, <2>1, <2>2, LoopInvariant
  <2>. QED BY <2>3
<1>8. FormedHessians = after[n]
  BY DEF FormedHessians, Iterated, after, n, base
<1>9. BlockRun(after)
  <2>1. after[0] = base /\ \A k \in 1..n : after[k] = NextBlock(after[k - 1], roots, k)
    BY <1>0, <1>6
  <2>2. \A k \in 0..n : Formed(after[k]) /\ Len(after[k].blocks) = k
    BY <1>7 DEF Reached
  <2>. QED BY <2>1, <2>2 DEF BlockRun, n, base
<1>. QED BY <1>8, <1>9 DEF n

LEMMA FormedHessiansAnswers ==
  ASSUME Sound(arena), roots \in Seq(Ids(arena))
  PROVE  Formed(FormedHessians) /\ Len(FormedHessians.blocks) = Len(roots)
<1>1. PICK f : BlockRun(f) /\ FormedHessians = f[Len(roots)]
  BY FormedHessiansRuns
<1>2. Len(roots) \in 0..Len(roots)
  OBVIOUS
<1>. QED BY <1>1, <1>2 DEF BlockRun

-----------------------------------------------------------------------------
(* A builder whose layout accounts for its outputs. *)
LaidOut(gb) ==
  /\ Sound(gb.arena)
  /\ gb.outputs \in Seq(Ids(gb.arena))
  /\ gb.layout \in [values : Nat, jacobian : Nat, hessian : Nat]
  /\ Len(gb.outputs) = gb.layout.values + gb.layout.jacobian + gb.layout.hessian

(* The graph built of it accounts for them too, and has no others. *)
LEMMA BuildLaidOut ==
  ASSUME NEW gb, LaidOut(gb)
  PROVE  /\ Build(gb).outputs = gb.outputs
         /\ Len(Build(gb).outputs) = Build(gb).values + Build(gb).jacobian + Build(gb).hessian
<1>1. Len(gb.outputs) \in Nat
  BY DEF LaidOut
<1>2. CASE gb.layout.values = 0
  BY <1>1, <1>2 DEF Build, FreezeGraph
<1>3. CASE gb.layout.values # 0
  BY <1>3 DEF Build, FreezeGraph, LaidOut
<1>. QED BY <1>2, <1>3

LEMMA ConcatLength ==
  ASSUME NEW S, NEW s, s \in Seq(S), NEW t, t \in Seq(S)
  PROVE  s \o t \in Seq(S) /\ Len(s \o t) = Len(s) + Len(t)
  OBVIOUS

LEMMA FirstOrderLaidOut ==
  ASSUME Sound(arena), roots \in Seq(Ids(arena)), derivative \in Seq(Ids(arena))
  PROVE  LaidOut(FirstOrder) /\ FirstOrder.arena = arena
<1> DEFINE gb == ValuesFrom(GraphBuilder(arena), roots)
<1>1. /\ gb.arena = arena /\ gb.outputs = roots
      /\ gb.layout = [values |-> Len(roots), jacobian |-> 0, hessian |-> 0]
  BY DEF ValuesFrom, GraphBuilder, NoLayout
<1> HIDE DEF gb
<1>2. /\ FirstOrder.arena = arena /\ FirstOrder.outputs = roots \o derivative
      /\ FirstOrder.layout = [values |-> Len(roots), jacobian |-> Len(derivative), hessian |-> 0]
  <2>1. FirstOrder = [arena |-> gb.arena, roots |-> gb.roots,
          outputs |-> gb.outputs \o derivative,
                      layout |-> [gb.layout EXCEPT !.jacobian = Len(derivative)]]
    BY DEF FirstOrder, JacobianFrom, WithBlockOf, gb
  <2>. QED BY <1>1, <2>1
<1>3. Len(roots) \in Nat /\ Len(derivative) \in Nat
  OBVIOUS
<1>4. /\ roots \o derivative \in Seq(Ids(arena))
      /\ Len(roots \o derivative) = Len(roots) + Len(derivative)
  BY ConcatLength
<1>5. FirstOrder.layout \in [values : Nat, jacobian : Nat, hessian : Nat]
  BY <1>2, <1>3
<1>. QED BY <1>2, <1>3, <1>4, <1>5 DEF LaidOut

LEMMA HessianLaidOut ==
  ASSUME NEW gb, LaidOut(gb), gb.roots[1] \in Ids(gb.arena), gb.layout.hessian = 0
  PROVE  LaidOut(GraphHessian(gb)) /\ Keeps(gb.arena, GraphHessian(gb).arena)
<1> DEFINE h == HessianOf(gb.arena, gb.roots[1])
           block == Flattened(h)
           m == Len(gb.arena.symbols)
<1>1. Sound(gb.arena) /\ m \in Nat /\ gb.outputs \in Seq(Ids(gb.arena))
  BY DEF LaidOut, Sound, Arenas
<1>2. Block(gb.arena, h)
  BY <1>1, HessianAnswers
<1> HIDE DEF h
<1>3. Keeps(gb.arena, h.arena) /\ Sound(h.arena) /\ h.compressed \in Seq([1..m -> Ids(h.arena)])
  BY <1>2 DEF Block, Keeps
<1>4. block \in Seq(Ids(h.arena))
  BY <1>1, <1>3, FlattenedIds
<1>5. gb.outputs \in Seq(Ids(h.arena))
  BY <1>1, <1>3, SequenceKept
<1> HIDE DEF block, m
<1>6. /\ GraphHessian(gb).arena = h.arena /\ GraphHessian(gb).outputs = gb.outputs \o block
      /\ GraphHessian(gb).layout = [gb.layout EXCEPT !.hessian = Len(block)]
  BY DEF GraphHessian, WithBlockOf, h, block
<1>7. /\ gb.outputs \o block \in Seq(Ids(h.arena)) /\ Len(block) \in Nat
      /\ Len(gb.outputs \o block) = Len(gb.outputs) + Len(block)
  BY <1>4, <1>5, ConcatLength
<1>8. gb.layout \in [values : Nat, jacobian : Nat, hessian : Nat]
  BY DEF LaidOut
<1>9. /\ GraphHessian(gb).layout \in [values : Nat, jacobian : Nat, hessian : Nat]
      /\ Len(gb.outputs \o block) = GraphHessian(gb).layout.values
           + GraphHessian(gb).layout.jacobian + GraphHessian(gb).layout.hessian
  <2>1. Len(gb.outputs) = gb.layout.values + gb.layout.jacobian
    BY <1>8 DEF LaidOut
  <2>. QED BY <1>6, <1>7, <1>8, <2>1
<1>. QED BY <1>3, <1>6, <1>7, <1>9 DEF LaidOut

-----------------------------------------------------------------------------
(* The invariant: what the equation was handed, its functions and partials,  *)
(* its Hessian blocks, and the arena its graph was frozen from, each in the  *)
(* arena as it is now.                                                       *)
RootsInv == roots \in Seq(Ids(arena)) /\ derivative \in Seq(Ids(arena))
BlocksInv ==
  /\ hessians \in Seq(Blocks(Len(arena.symbols)))
  /\ \A k \in DOMAIN hessians : BlockOf(arena, hessians[k])
  /\ hessians # <<>> => Len(hessians) = Len(roots)
GraphInv ==
  /\ ~compiled.frozen => compiled.graph = NotCompiled.graph
  /\ compiled.frozen =>
       \E gb : LaidOut(gb) /\ Keeps(gb.arena, arena) /\ compiled.graph = Build(gb)
EquationInv ==
  Handed /\ RootsInv /\ BlocksInv /\ GraphInv /\ (roots = <<>> => hessians = <<>>)

LEMMA InitEquationInv == Init => EquationInv
<1> SUFFICES ASSUME Init PROVE EquationInv
  OBVIOUS
<1>1. PICK given \in Givens : arena = given.arena /\ args = given.args
  BY DEF Init
<1>2. Handed
  <2>1. Sound(arena) /\ args \in Seq([e : Expr, poisoned : BOOLEAN])
    BY <1>1, GivensAssumption DEF Sound
  <2>2. ASSUME NEW k \in DOMAIN args PROVE Names(arena, args[k].e)
    <3>1. args[k] \in [e : Expr, poisoned : BOOLEAN]
      <4> DEFINE T == [e : Expr, poisoned : BOOLEAN]
      <4>1. args \in Seq(T)
        BY <2>1
      <4> HIDE DEF T
      <4>2. args[k] \in T
        BY <2>2, <4>1
      <4>. QED BY <4>2 DEF T
    <3>2. args[k].e.id \in Ids(arena) \cup {NoNode}
      BY <1>1, <2>2, GivensAssumption
    <3>. QED BY <3>1, <3>2 DEF Names
  <2>. QED BY <2>1, <2>2 DEF Handed
<1>3. RootsInv /\ BlocksInv
  BY DEF Init, RootsInv, BlocksInv
<1>4. GraphInv
  BY DEF Init, GraphInv, NotCompiled
<1>. QED BY <1>2, <1>3, <1>4 DEF Init, EquationInv

(* What the equation keeps survives whatever the arena is given. *)
LEMMA ArenaGrows ==
  ASSUME EquationInv, Keeps(arena, arena')
  PROVE  /\ args' = args => Handed'
         /\ UNCHANGED <<roots, derivative>> => RootsInv'
         /\ UNCHANGED <<hessians, roots>> => BlocksInv'
         /\ compiled' = compiled => GraphInv'
<1>0. Sound(arena) /\ Sound(arena') /\ arena'.symbols = arena.symbols
  BY DEF EquationInv, Handed, Keeps
<1>1. ASSUME args' = args PROVE Handed'
  <2>1. \A k \in DOMAIN args : Names(arena', args[k].e)
    BY <1>0, NamesKept DEF EquationInv, Handed
  <2>. QED BY <1>0, <1>1, <2>1 DEF EquationInv, Handed
<1>2. ASSUME UNCHANGED <<roots, derivative>> PROVE RootsInv'
  BY <1>0, <1>2, SequenceKept DEF EquationInv, RootsInv
<1>3. ASSUME UNCHANGED <<hessians, roots>> PROVE BlocksInv'
  <2>1. \A k \in DOMAIN hessians : BlockOf(arena', hessians[k])
    BY <1>0, BlockKept DEF EquationInv, BlocksInv
  <2>. QED BY <1>0, <1>3, <2>1 DEF EquationInv, BlocksInv
<1>4. ASSUME compiled' = compiled PROVE GraphInv'
  <2>1. ASSUME compiled.frozen
        PROVE  \E gb : LaidOut(gb) /\ Keeps(gb.arena, arena') /\ compiled.graph = Build(gb)
    <3>1. PICK gb : LaidOut(gb) /\ Keeps(gb.arena, arena) /\ compiled.graph = Build(gb)
      BY <2>1 DEF EquationInv, GraphInv
    <3>2. Keeps(gb.arena, arena')
      BY <3>1, KeepsTransitive DEF LaidOut
    <3>. QED BY <3>1, <3>2
  <2>. QED BY <1>4, <2>1 DEF EquationInv, GraphInv
<1>. QED BY <1>1, <1>2, <1>3, <1>4

LEMMA CreateKeeps ==
  ASSUME EquationInv, BatchInv, Create
  PROVE  EquationInv'
<1>1. PICK pass \in {RootIds} : \E j \in {Jacobian(pass.arena, pass.ids)} :
         arena' = j.arena /\ roots' = pass.ids /\ derivative' = j.partial
  BY DEF Create
<1> DEFINE j == Jacobian(pass.arena, pass.ids)
<1>2. arena' = j.arena /\ roots' = pass.ids /\ derivative' = j.partial
  BY <1>1
<1>3. UNCHANGED <<args, hessians, compiled>> /\ roots = <<>> /\ hessians = <<>>
        /\ ~compiled.frozen
  BY DEF Create, EquationInv, BatchInv
<1>4. /\ Keeps(arena, pass.arena) /\ Sound(pass.arena) /\ Sound(arena)
      /\ pass.ids \in Seq(Ids(pass.arena))
  BY <1>1, RootIdsAnswers DEF EquationInv, Handed, Rooted, Keeps
<1>5. Columns(pass.arena, j)
  BY <1>4, JacobianAnswers
<1> HIDE DEF j
<1>6. /\ Keeps(pass.arena, j.arena) /\ j.partial \in Seq(Ids(j.arena))
      /\ Keeps(arena, j.arena)
  BY <1>4, <1>5, KeepsTransitive DEF Columns
<1>7. pass.ids \in Seq(Ids(j.arena))
  BY <1>4, <1>6, SequenceKept
<1>8. Handed' /\ GraphInv'
  BY <1>2, <1>3, <1>6, ArenaGrows
<1>9. RootsInv' /\ BlocksInv'
  BY <1>2, <1>3, <1>6, <1>7 DEF RootsInv, BlocksInv
<1>. QED BY <1>3, <1>8, <1>9 DEF EquationInv

(* The blocks a call finds or forms. *)
LEMMA CachedAnswers ==
  ASSUME EquationInv, roots # <<>>
  PROVE  Formed(CachedHessians) /\ Len(CachedHessians.blocks) = Len(roots)
<1>1. CASE hessians # <<>>
  <2>1. CachedHessians = [arena |-> arena, blocks |-> hessians]
    BY <1>1 DEF CachedHessians
  <2>2. Keeps(arena, arena)
    BY ExtendsRefl DEF EquationInv, Handed
  <2>. QED BY <1>1, <2>1, <2>2 DEF EquationInv, BlocksInv, Formed
<1>2. CASE hessians = <<>>
  <2>1. CachedHessians = FormedHessians
    BY <1>2 DEF CachedHessians
  <2>. QED BY <2>1, FormedHessiansAnswers DEF EquationInv, Handed, RootsInv
<1>. QED BY <1>1, <1>2

LEMMA HessiansKeep ==
  ASSUME EquationInv, roots # <<>>,
         arena' = CachedHessians.arena, hessians' = CachedHessians.blocks,
         UNCHANGED <<args, roots, derivative, compiled>>
  PROVE  EquationInv'
<1>1. Formed(CachedHessians) /\ Len(CachedHessians.blocks) = Len(roots)
  BY CachedAnswers
<1>2. Keeps(arena, arena') /\ arena'.symbols = arena.symbols
  BY <1>1 DEF Formed, Keeps
<1>3. Handed' /\ RootsInv' /\ GraphInv'
  BY <1>2, ArenaGrows
<1>4. BlocksInv'
  BY <1>1, <1>2 DEF Formed, BlocksInv
<1>. QED BY <1>3, <1>4 DEF EquationInv

(* compiled() hands out a graph of nodes of the arena as it leaves it. *)
LEMMA CompiledKeeps ==
  ASSUME EquationInv, roots # <<>>, NEW want \in BOOLEAN, want => Len(roots) = 1,
         NEW c \in Compiled(want), Keep(c, want),
         UNCHANGED <<args, roots, derivative, hessians>>
  PROVE  EquationInv'
<1>0. Sound(arena) /\ roots \in Seq(Ids(arena)) /\ derivative \in Seq(Ids(arena))
  BY DEF EquationInv, Handed, RootsInv
<1>1. arena' = c.arena /\ compiled' = c.compiled
  BY DEF Keep
<1>2. CASE MustFreeze(want)
  <2> DEFINE gb == IF want THEN GraphHessian(FirstOrder) ELSE FirstOrder
  <2>1. c \in FrozenFrom(gb, want)
    BY <1>2 DEF Compiled, Freeze
  <2>2. LaidOut(FirstOrder) /\ FirstOrder.arena = arena
    BY <1>0, FirstOrderLaidOut
  <2>3. LaidOut(gb) /\ Keeps(arena, gb.arena)
    <3>1. CASE want
      <4>1. FirstOrder.roots = roots /\ FirstOrder.layout.hessian = 0
        BY DEF FirstOrder, JacobianFrom, WithBlockOf, ValuesFrom, GraphBuilder, NoLayout
      <4>2. roots[1] \in Ids(arena)
        BY <1>0, <3>1
      <4>. QED BY <2>2, <3>1, <4>1, <4>2, HessianLaidOut
    <3>2. CASE ~want
      BY <1>0, <2>2, <3>2, ExtendsRefl
    <3>. QED BY <3>1, <3>2
  <2> HIDE DEF gb
  <2>4. arena' = gb.arena /\ compiled'.frozen = TRUE /\ compiled'.graph = Build(gb)
    BY <1>1, <2>1 DEF FrozenFrom
  <2>5. GraphInv'
    <3>1. Keeps(gb.arena, arena')
      BY <2>3, <2>4, ExtendsRefl DEF LaidOut
    <3>. QED BY <2>3, <2>4, <3>1 DEF GraphInv
  <2>6. Handed' /\ RootsInv' /\ BlocksInv'
    BY <2>3, <2>4, ArenaGrows
  <2>. QED BY <2>5, <2>6 DEF EquationInv
<1>3. CASE ~MustFreeze(want)
  <2>1. arena' = arena /\ compiled' = compiled
    BY <1>1, <1>3 DEF Compiled
  <2>. QED BY <2>1 DEF EquationInv, Handed, RootsInv, BlocksInv, GraphInv
<1>. QED BY <1>2, <1>3

(* A caller's own expressions and graphs in a borrowed arena. *)
LEMMA OwnKernelGrows ==
  ASSUME EquationInv, roots # <<>>,
         NEW gb \in {GraphJacobian(GraphOutput(OwnValues, At(1))),
           GraphHessian(GraphJacobian(OwnValues))}
  PROVE  Keeps(arena, gb.arena)
<1>0. Sound(arena) /\ roots \in Seq(Ids(arena))
  BY DEF EquationInv, Handed, RootsInv
<1>1. OwnValues.arena = arena /\ OwnValues.roots = roots
  BY DEF OwnValues, ValuesFrom, GraphBuilder
<1>2. roots[1] \in Ids(arena) /\ 1 \in Ids(arena)
  BY <1>0 DEF Ids
<1>3. ASSUME NEW b, Keeps(arena, b.arena), b.roots = roots
      PROVE  Keeps(arena, GraphJacobian(b).arena) /\ GraphJacobian(b).roots = roots
  <2> DEFINE j == Jacobian(b.arena, b.roots)
  <2>1. Sound(b.arena) /\ b.roots \in Seq(Ids(b.arena))
    BY <1>0, <1>3, SequenceKept DEF Keeps
  <2>2. Columns(b.arena, j)
    BY <2>1, JacobianAnswers
  <2> HIDE DEF j
  <2>3. Keeps(arena, j.arena)
    BY <1>0, <1>3, <2>2, KeepsTransitive DEF Columns
  <2>. QED BY <1>3, <2>3 DEF GraphJacobian, WithBlockOf, j
<1>4. CASE gb = GraphJacobian(GraphOutput(OwnValues, At(1)))
  <2> DEFINE out == GraphOutput(OwnValues, At(1))
             one == Materialise(arena, At(1))
  <2>1. Answers(arena, one)
    BY <1>0, <1>2, NodeNames, MaterialiseAnswers
  <2>2. out.arena = one.arena /\ out.roots = roots
    BY <1>1 DEF GraphOutput, WithBlockOf
  <2>3. Keeps(arena, out.arena)
    BY <2>1, <2>2 DEF Answers
  <2> HIDE DEF out
  <2>. QED BY <1>3, <1>4, <2>2, <2>3 DEF out
<1>5. CASE gb = GraphHessian(GraphJacobian(OwnValues))
  <2> DEFINE b == GraphJacobian(OwnValues)
             h == HessianOf(b.arena, roots[1])
  <2>1. Keeps(arena, b.arena) /\ b.roots = roots
    BY <1>0, <1>1, <1>3, ExtendsRefl
  <2> HIDE DEF b
  <2>2. Sound(b.arena) /\ roots[1] \in Ids(b.arena)
    BY <1>0, <1>2, <2>1, IdsGrow DEF Keeps
  <2>3. Block(b.arena, h)
    BY <2>2, HessianAnswers
  <2> HIDE DEF h
  <2>4. Keeps(arena, h.arena)
    BY <1>0, <2>1, <2>3, KeepsTransitive DEF Block
  <2>. QED BY <1>5, <2>1, <2>4 DEF GraphHessian, WithBlockOf, b, h
<1>. QED BY <1>4, <1>5

LEMMA GrowGrows ==
  ASSUME EquationInv, roots # <<>>, NEW op, NEW a, NEW b, Grow(op, a, b),
         \/ op \in UnaryOps /\ a = roots[1] /\ b = NoNode
         \/ op \in BinaryOps /\ a = roots[1] /\ b \in Handles
  PROVE  Keeps(arena, arena')
<1>0. Sound(arena) /\ roots \in Seq(Ids(arena))
  BY DEF EquationInv, Handed, RootsInv
<1>1. roots[1] \in Ids(arena) /\ Handles \subseteq Ids(arena)
  BY <1>0 DEF Handles, Ids
<1>2. arena' = Make(arena, op, a, b).arena
  BY DEF Grow
<1>. QED BY <1>0, <1>1, <1>2, MakeUnaryAnswers, MakeBinaryAnswers DEF Answers

LEMMA StepEquationInv ==
  ASSUME EquationInv, BatchInv, [Next]_vars
  PROVE  EquationInv'
<1>0. Sound(arena) /\ Keeps(arena, arena)
  BY ExtendsRefl DEF EquationInv, Handed
<1>1. ASSUME Keeps(arena, arena'), UNCHANGED <<args, roots, derivative, hessians, compiled>>
      PROVE  EquationInv'
  BY <1>1, ArenaGrows DEF EquationInv
<1>2. ASSUME UNCHANGED <<arena, args, roots, derivative, hessians, compiled>>
      PROVE  EquationInv'
  BY <1>0, <1>1, <1>2
<1>3. CASE UNCHANGED vars
  BY <1>2, <1>3 DEF vars
<1>4. CASE CreateFails
  BY <1>2, <1>4 DEF CreateFails, caches, fixed
<1>5. CASE Create
  BY <1>5, CreateKeeps
<1>6. CASE Len(roots) > 0 /\ Use
  <2>0. roots # <<>>
    BY <1>6
  <2>1. ASSUME NEW point \in GivenPoints, Evaluate(point) \/ HarvestJacobian(point)
        PROVE  EquationInv'
    BY <1>2, <2>1 DEF Evaluate, HarvestJacobian, caches, fixed
  <2>2. ASSUME HessianColors(CachedHessians)
        PROVE  EquationInv'
    BY <2>0, <2>2, HessiansKeep DEF HessianColors, fixed
  <2>3. ASSUME NEW point \in GivenPoints, HessianAtPoint(CachedHessians, point)
        PROVE  EquationInv'
    <3>1. UNCHANGED <<args, roots, derivative, compiled>>
      BY <2>3 DEF HessianAtPoint, fixed
    <3>2. CASE point.status = "ok"
      BY <2>0, <2>3, <3>1, <3>2, HessiansKeep DEF HessianAtPoint
    <3>3. CASE point.status # "ok"
      BY <1>2, <2>3, <3>1, <3>3 DEF HessianAtPoint
    <3>. QED BY <3>2, <3>3
  <2>4. ASSUME NEW want \in BOOLEAN, OnGraph(want)
        PROVE  EquationInv'
    <3>1. /\ UNCHANGED <<args, roots, derivative, hessians>>
          /\ want => Len(roots) = 1
          /\ \E c \in Compiled(want) : Keep(c, want)
      BY <2>4 DEF OnGraph, fixed
    <3>. QED BY <2>0, <3>1, CompiledKeeps
  <2>5. ASSUME NEW x0, UnivariateDerivative(x0)
        PROVE  EquationInv'
    BY <1>2, <2>5 DEF UnivariateDerivative, caches, fixed
  <2>6. ASSUME NEW gb \in {GraphJacobian(GraphOutput(OwnValues, At(1))),
                 GraphHessian(GraphJacobian(OwnValues))},
               OwnKernel(gb)
        PROVE  EquationInv'
    <3>1. Keeps(arena, gb.arena)
      BY <2>0, OwnKernelGrows
    <3>. QED BY <1>1, <2>6, <3>1 DEF OwnKernel
  <2>7. ASSUME NEW op, NEW a, NEW b, Grow(op, a, b),
               \/ op \in UnaryOps /\ a = roots[1] /\ b = NoNode
               \/ op \in BinaryOps /\ a = roots[1] /\ b \in Handles
        PROVE  EquationInv'
    <3>1. Keeps(arena, arena')
      BY <2>0, <2>7, GrowGrows
    <3>. QED BY <1>1, <2>7, <3>1 DEF Grow
  <2>. QED BY <1>6, <2>1, <2>2, <2>3, <2>4, <2>5, <2>6, <2>7 DEF Use
<1>. QED BY <1>3, <1>4, <1>5, <1>6 DEF Next

THEOREM EquationInvariant == Spec => []EquationInv
<1>1. EquationInv /\ BatchInv /\ [Next]_vars => EquationInv'
  BY StepEquationInv
<1>. QED BY <1>1, InitEquationInv, BatchInvariant, PTL DEF Spec

(* Whatever a call or the caller appends to the arena, every id that the     *)
(* equation keeps is a node of it: its functions' and partials', its Hessian *)
(* blocks' and its frozen graph's.                                           *)
THEOREM KeptAreNodes == Spec => []TypeOK
<1>1. EquationInv => TypeOK
  <2> SUFFICES ASSUME EquationInv PROVE TypeOK
    OBVIOUS
  <2>1. Sound(arena) /\ roots \in Seq(Ids(arena)) /\ derivative \in Seq(Ids(arena))
    BY DEF EquationInv, Handed, RootsInv
  <2>2. /\ compiled.graph.outputs \in Seq(Ids(arena))
        /\ Len(compiled.graph.outputs)
             = compiled.graph.values + compiled.graph.jacobian + compiled.graph.hessian
    <3>1. CASE compiled.frozen
      <4>1. PICK gb : LaidOut(gb) /\ Keeps(gb.arena, arena) /\ compiled.graph = Build(gb)
        BY <3>1 DEF EquationInv, GraphInv
      <4>2. Build(gb).outputs \in Seq(Ids(arena))
        BY <4>1, BuildLaidOut, SequenceKept DEF LaidOut
      <4>. QED BY <4>1, <4>2, BuildLaidOut
    <3>2. CASE ~compiled.frozen
      <4>1. compiled.graph = Build(GraphBuilder(EmptyArena))
        BY <3>2 DEF EquationInv, GraphInv, NotCompiled
      <4>2. LaidOut(GraphBuilder(EmptyArena)) /\ GraphBuilder(EmptyArena).outputs = <<>>
        <5>1. Sound(EmptyArena)
          BY DEF Sound, EmptyArena, Arenas, WellFormed, Ids
        <5>2. <<>> \in Seq(Ids(EmptyArena)) /\ Len(<<>>) = 0
          OBVIOUS
        <5>. QED BY <5>1, <5>2 DEF LaidOut, GraphBuilder, NoLayout
      <4>3. compiled.graph.outputs = <<>>
        BY <4>1, <4>2, BuildLaidOut
      <4>4. <<>> \in Seq(Ids(arena))
        OBVIOUS
      <4>. QED BY <4>1, <4>2, <4>3, <4>4, BuildLaidOut
    <3>. QED BY <3>1, <3>2
  <2>3. ASSUME NEW h \in Range(hessians)
        PROVE  Range(Flattened(h)) \cup {h.zero} \subseteq Ids(arena)
    <3>1. PICK k \in DOMAIN hessians : h = hessians[k]
      BY <2>3 DEF Range
    <3>2. BlockOf(arena, h)
      BY <3>1 DEF EquationInv, BlocksInv
    <3>3. Len(arena.symbols) \in Nat
      BY <2>1 DEF Sound, Arenas
    <3>4. Flattened(h) \in Seq(Ids(arena))
      BY <3>2, <3>3, FlattenedIds DEF BlockOf
    <3>. QED BY <3>2, <3>4 DEF BlockOf, Range
  <2>4. Kept \subseteq Ids(arena)
    <3>1. /\ Range(roots) \subseteq Ids(arena) /\ Range(derivative) \subseteq Ids(arena)
          /\ Range(compiled.graph.outputs) \subseteq Ids(arena)
      BY <2>1, <2>2 DEF Range
    <3>. QED BY <2>3, <3>1 DEF Kept
  <2>5. hessians = <<>> \/ Len(hessians) = Len(roots)
    BY DEF EquationInv, BlocksInv
  <2>. QED BY <2>1, <2>2, <2>4, <2>5 DEF TypeOK, Sound
<1>. QED BY <1>1, EquationInvariant, PTL

-----------------------------------------------------------------------------
(* A kind of call that has been made has left what it needs behind.          *)
CalledInv ==
  /\ "hessian" \in called => hessians # <<>>
  /\ "batch jacobian" \in called => compiled.frozen
  /\ "batch hessian" \in called => compiled.hasHessian
  /\ called \subseteq {"hessian", "batch jacobian", "batch hessian"}
RepeatInv == CalledInv /\ EquationInv /\ BatchInv

LEMMA CompiledLeaves ==
  ASSUME BatchInv, NEW want \in BOOLEAN, NEW c \in Compiled(want), Keep(c, want)
  PROVE  /\ compiled'.frozen
         /\ want \/ compiled.hasHessian => compiled'.hasHessian
         /\ ~MustFreeze(want) => UNCHANGED <<arena, compiled, freezes>>
<1>1. arena' = c.arena /\ compiled' = c.compiled
  BY DEF Keep
<1>2. CASE MustFreeze(want)
  <2>1. compiled'.frozen = TRUE /\ compiled'.hasHessian = want
    BY <1>1, <1>2 DEF Compiled, Freeze, FrozenFrom
  <2>2. compiled.hasHessian => want
    BY <1>2 DEF MustFreeze, BatchInv, FreezesCounted
  <2>. QED BY <1>2, <2>1, <2>2
<1>3. CASE ~MustFreeze(want)
  <2>1. arena' = arena /\ compiled' = compiled /\ freezes' = freezes
    BY <1>1, <1>3 DEF Compiled, Keep
  <2>. QED BY <1>3, <2>1 DEF MustFreeze
<1>. QED BY <1>2, <1>3

(* Calls of one kind: what is called already, or what it is that they leave. *)
LEMMA StepCalledInv ==
  ASSUME RepeatInv, [Next]_vars
  PROVE  CalledInv'
<1>0. CalledInv /\ EquationInv /\ BatchInv
  BY DEF RepeatInv
<1>1. ASSUME UNCHANGED <<called, hessians, compiled>> PROVE CalledInv'
  BY <1>0, <1>1 DEF CalledInv
<1>2. CASE UNCHANGED vars
  BY <1>1, <1>2 DEF vars
<1>3. CASE CreateFails \/ Create
  BY <1>1, <1>3 DEF CreateFails, Create, caches
<1>4. CASE Len(roots) > 0 /\ Use
  <2>0. roots # <<>> /\ Len(roots) # 0
    BY <1>4
  <2>1. ASSUME NEW point \in GivenPoints, Evaluate(point) \/ HarvestJacobian(point)
        PROVE  CalledInv'
    BY <1>1, <2>1 DEF Evaluate, HarvestJacobian, caches
  <2>2. ASSUME hessians' = CachedHessians.blocks, compiled' = compiled, Called("hessian")
        PROVE  CalledInv'
    <3>1. Len(hessians') # 0
      BY <1>0, <2>0, <2>2, CachedAnswers
    <3>2. hessians' # <<>>
      BY <3>1
    <3>. QED BY <1>0, <2>2, <3>2 DEF Called, CalledInv
  <2>3. ASSUME HessianColors(CachedHessians)
        PROVE  CalledInv'
    BY <2>2, <2>3 DEF HessianColors
  <2>4. ASSUME NEW point \in GivenPoints, HessianAtPoint(CachedHessians, point)
        PROVE  CalledInv'
    <3>1. CASE point.status = "ok"
      BY <2>2, <2>4, <3>1 DEF HessianAtPoint
    <3>2. CASE point.status # "ok"
      BY <1>1, <2>4, <3>2 DEF HessianAtPoint
    <3>. QED BY <3>1, <3>2
  <2>5. ASSUME NEW want \in BOOLEAN, OnGraph(want)
        PROVE  CalledInv'
    <3>1. PICK c \in Compiled(want) : Keep(c, want)
      BY <2>5 DEF OnGraph
    <3>2. compiled'.frozen /\ (want \/ compiled.hasHessian => compiled'.hasHessian)
      BY <1>0, <3>1, CompiledLeaves
    <3>3. called' = called \cup {KindOf(want)} /\ hessians' = hessians
      BY <2>5 DEF OnGraph, Called
    <3>. QED BY <1>0, <3>2, <3>3 DEF KindOf, CalledInv
  <2>6. ASSUME NEW x0, UnivariateDerivative(x0)
        PROVE  CalledInv'
    BY <1>1, <2>6 DEF UnivariateDerivative, caches
  <2>7. ASSUME NEW gb, OwnKernel(gb)
        PROVE  CalledInv'
    BY <1>1, <2>7 DEF OwnKernel
  <2>8. ASSUME NEW op, NEW a, NEW b, Grow(op, a, b)
        PROVE  CalledInv'
    BY <1>1, <2>8 DEF Grow
  <2>. QED BY <1>4, <2>1, <2>3, <2>4, <2>5, <2>6, <2>7, <2>8 DEF Use
<1>. QED BY <1>2, <1>3, <1>4 DEF Next

THEOREM RepeatInvariant == Spec => []RepeatInv
<1>1. Init => RepeatInv
  <2>1. Init => CalledInv
    BY DEF Init, CalledInv
  <2>. QED BY <2>1, InitEquationInv, InitBatchInv DEF RepeatInv
<1>2. RepeatInv /\ [Next]_vars => RepeatInv'
  BY StepCalledInv, StepEquationInv, StepBatchInv DEF RepeatInv
<1>. QED BY <1>1, <1>2, PTL DEF Spec

(* A second call of a kind changes nothing the equation has, whichever calls *)
(* of other kinds, and whatever growth of the arena, came in between.        *)
LEMMA RepeatReads ==
  ASSUME RepeatInv, [Next]_vars, answer'.kind \in called, ~UNCHANGED vars
  PROVE  UNCHANGED caches
<1>0. CalledInv /\ EquationInv /\ BatchInv
  BY DEF RepeatInv
<1>1. answer'.kind \in {"hessian", "batch jacobian", "batch hessian"}
  BY <1>0 DEF CalledInv
<1>2. CASE CreateFails
  BY <1>2 DEF CreateFails
<1>3. CASE Create
  BY <1>1, <1>3 DEF Create, Reply
<1>4. CASE Len(roots) > 0 /\ Use
  <2>1. ASSUME NEW point \in GivenPoints, Evaluate(point) \/ HarvestJacobian(point)
        PROVE  UNCHANGED caches
    BY <2>1 DEF Evaluate, HarvestJacobian
  <2>2. ASSUME answer'.kind = "hessian"
        PROVE  CachedHessians = [arena |-> arena, blocks |-> hessians]
    BY <1>0, <2>2 DEF CalledInv, CachedHessians
  <2>3. ASSUME HessianColors(CachedHessians)
        PROVE  UNCHANGED caches
    BY <2>2, <2>3 DEF HessianColors, Reply, caches
  <2>4. ASSUME NEW point \in GivenPoints, HessianAtPoint(CachedHessians, point)
        PROVE  UNCHANGED caches
    <3>1. CASE point.status = "ok"
      BY <2>2, <2>4, <3>1 DEF HessianAtPoint, Reply, caches
    <3>2. CASE point.status # "ok"
      BY <2>4, <3>2 DEF HessianAtPoint, caches
    <3>. QED BY <3>1, <3>2
  <2>5. ASSUME NEW want \in BOOLEAN, OnGraph(want)
        PROVE  UNCHANGED caches
    <3>1. PICK c \in Compiled(want) :
            /\ Keep(c, want)
            /\ (~want /\ BatchJacobian(c)) \/ (want /\ BatchHessian(c)) \/ AskColumns(want)
      BY <2>5 DEF OnGraph
    <3>2. answer'.kind = KindOf(want)
      <4>1. ASSUME NEW kind, NEW table, NEW nf, NEW ng, NEW nh, NEW right,
                   answer' = Dispatched(kind, c, table, nf, ng, nh, right)
            PROVE  answer'.kind = kind
        BY <4>1 DEF Dispatched, Reply, Refuse
      <4>2. CASE ~want /\ BatchJacobian(c)
        BY <4>1, <4>2 DEF BatchJacobian, KindOf
      <4>3. CASE want /\ BatchHessian(c)
        BY <4>1, <4>3 DEF BatchHessian, KindOf
      <4>4. CASE AskColumns(want)
        BY <4>4 DEF AskColumns, Reply
      <4>. QED BY <3>1, <4>2, <4>3, <4>4
    <3>3. ~MustFreeze(want)
      BY <1>0, <3>2 DEF KindOf, CalledInv, MustFreeze, BatchInv, FreezesCounted
    <3>4. UNCHANGED <<arena, compiled, freezes>> /\ hessians' = hessians
      BY <1>0, <2>5, <3>1, <3>3, CompiledLeaves DEF OnGraph
    <3>. QED BY <3>4 DEF caches
  <2>6. ASSUME NEW x0, UnivariateDerivative(x0)
        PROVE  UNCHANGED caches
    BY <2>6 DEF UnivariateDerivative
  <2>7. ASSUME NEW gb, OwnKernel(gb)
        PROVE  UNCHANGED caches
    BY <1>1, <2>7 DEF OwnKernel, Reply
  <2>8. ASSUME NEW op, NEW a, NEW b, Grow(op, a, b)
        PROVE  UNCHANGED caches
    BY <1>1, <2>8 DEF Grow, Reply
  <2>. QED BY <1>4, <2>1, <2>3, <2>4, <2>5, <2>6, <2>7, <2>8 DEF Use
<1>. QED BY <1>2, <1>3, <1>4 DEF Next

THEOREM RepeatsAreReadOnly == Spec => RepeatIsReadOnly
<1>1. RepeatInv /\ [Next]_vars => [answer'.kind \in called => UNCHANGED caches]_vars
  BY RepeatReads
<1>. QED BY <1>1, RepeatInvariant, PTL DEF Spec, RepeatIsReadOnly

-----------------------------------------------------------------------------
(* A node as the kernel emits it, its operands read off the row's edges by   *)
(* slot, is the node that was frozen.                                        *)
LEMMA EmittedIsFrozen ==
  ASSUME NEW B, Sound(B), NEW outputs, NEW layout, NEW v \in Ids(B)
  PROVE  EmittedNode(FreezeGraph(B, outputs, layout).properties[v],
                     GraphOperands(FreezeGraph(B, outputs, layout), v)) = B.nodes[v]
<1> DEFINE n == B.nodes[v]
           graph == FreezeGraph(B, outputs, layout)
           row == graph.children[v]
           Operand(slot) == IF \E e \in row : e.slot = slot
                            THEN (CHOOSE e \in row : e.slot = slot).to ELSE NoNode
<1>1. n \in Node
  BY NodeOf
<1>2. /\ row = Edges(n)
      /\ graph.properties[v] = [op |-> n.op, value |-> n.value, slot |-> n.slot]
  BY DEF FreezeGraph
<1>3. GraphOperands(graph, v) = <<Operand(0), Operand(1)>>
  BY DEF GraphOperands
<1> HIDE DEF n, graph, row
<1>4. Operand(0) = n.a
  <2>1. CASE n.a = NoNode
    <3>1. ~\E e \in row : e.slot = 0
      BY <1>2, <2>1 DEF Edges
    <3>. QED BY <2>1, <3>1
  <2>2. CASE n.a # NoNode
    <3>1. \A e : e \in row /\ e.slot = 0 <=> e = [to |-> n.a, slot |-> 0]
      BY <1>2, <2>2 DEF Edges
    <3>2. (CHOOSE e \in row : e.slot = 0) = [to |-> n.a, slot |-> 0]
      BY <3>1
    <3>. QED BY <3>1, <3>2
  <2>. QED BY <2>1, <2>2
<1>5. Operand(1) = n.b
  <2>1. CASE n.b = NoNode
    <3>1. ~\E e \in row : e.slot = 1
      BY <1>2, <2>1 DEF Edges
    <3>. QED BY <2>1, <3>1
  <2>2. CASE n.b # NoNode
    <3>1. \A e : e \in row /\ e.slot = 1 <=> e = [to |-> n.b, slot |-> 1]
      BY <1>2, <2>2 DEF Edges
    <3>2. (CHOOSE e \in row : e.slot = 1) = [to |-> n.b, slot |-> 1]
      BY <3>1
    <3>. QED BY <3>1, <3>2
  <2>. QED BY <2>1, <2>2
<1> HIDE DEF Operand
<1>6. EmittedNode(graph.properties[v], GraphOperands(graph, v))
        = [op |-> n.op, value |-> n.value, slot |-> n.slot, a |-> n.a, b |-> n.b]
  BY <1>2, <1>3, <1>4, <1>5 DEF EmittedNode
<1>. QED BY <1>1, <1>6 DEF Node, n, graph

(* The live nodes have the outputs, and with a node its operands. *)
LEMMA LiveIsClosed ==
  ASSUME NEW B, Sound(B), NEW outputs, outputs \in Seq(Ids(B)), NEW layout
  PROVE  LET live == FreezeGraph(B, outputs, layout).live
         IN  /\ Range(outputs) \subseteq live
             /\ \A v \in live : v \in Ids(B) /\ Operands(B.nodes[v]) \subseteq live
<1> DEFINE n == Len(B.nodes)
           children == [v \in Ids(B) |-> Edges(B.nodes[v])]
           below == [v \in DOMAIN children |-> Targets(children[v])]
           live == FreezeGraph(B, outputs, layout).live
<1>1. n \in Nat /\ Ids(B) = 1..n
  BY DEF Sound, Arenas, Ids
<1>2. live = Marked(below, Range(outputs))
  BY DEF FreezeGraph, LiveNodes
<1>3. ASSUME NEW v \in 1..n
      PROVE  below[v] = Operands(B.nodes[v])
  <2>1. below[v] = Targets(Edges(B.nodes[v]))
    BY <1>1
  <2>2. Targets(Edges(B.nodes[v])) = Operands(B.nodes[v])
    <3> DEFINE node == B.nodes[v]
    <3> HIDE DEF node
    <3>1. ASSUME NEW u \in Operands(node) PROVE u \in Targets(Edges(node))
      <4>1. CASE u = node.a
        <5>1. [to |-> u, slot |-> 0] \in Edges(node)
          BY <3>1, <4>1 DEF Operands, Edges
        <5>. QED BY <5>1 DEF Targets
      <4>2. CASE u = node.b
        <5>1. [to |-> u, slot |-> 1] \in Edges(node)
          BY <3>1, <4>2 DEF Operands, Edges
        <5>. QED BY <5>1 DEF Targets
      <4>. QED BY <3>1, <4>1, <4>2 DEF Operands
    <3>2. ASSUME NEW e \in Edges(node) PROVE e.to \in Operands(node)
      BY <3>2 DEF Edges, Operands
    <3>3. Targets(Edges(node)) = Operands(node)
      BY <3>1, <3>2 DEF Targets
    <3>. QED BY <3>3 DEF node
  <2>. QED BY <2>1, <2>2
<1>4. below = [v \in Ids(B) |-> Operands(B.nodes[v])]
  <2>1. DOMAIN below = Ids(B) /\ below = [v \in Ids(B) |-> below[v]]
    OBVIOUS
  <2> HIDE DEF below
  <2>. QED BY <1>1, <1>3, <2>1
<1>5. Range(outputs) \subseteq 1..n
  BY <1>1 DEF Range
<1>6. Descends(n, below)
  <2> HIDE DEF below
  <2>. QED BY <1>4, OperandsDescend
<1> HIDE DEF below, n, live, children
<1> DEFINE outs == Range(outputs)
<1> HIDE DEF outs
<1>7. /\ outs \subseteq Marked(below, outs)
      /\ \A v \in Marked(below, outs) : v \in 1..n /\ below[v] \subseteq Marked(below, outs)
  <2>1. outs \in SUBSET (1..n)
    BY <1>5 DEF outs
  <2>. QED BY <1>6, <2>1, MarkedIsClosed
<1>8. /\ outs \subseteq live
      /\ \A v \in live : v \in Ids(B) /\ Operands(B.nodes[v]) \subseteq live
  BY <1>1, <1>2, <1>3, <1>7 DEF outs
<1>. QED BY <1>8 DEF outs, live

(* The kernel's pass over a graph frozen from B: a live node gets the value  *)
(* that an interpreter's pass gives it, over B or over what B has become.    *)
Solves(B, point, vals) == \A v \in Ids(B) : vals[v] = NodeValue(Scalars, B.nodes[v], vals, point)
LEMMA KernelAnswers ==
  ASSUME NEW B, Sound(B), NEW outputs, outputs \in Seq(Ids(B)), NEW layout, NEW point,
         NEW vals, Solves(B, point, vals)
  PROVE  LET graph == FreezeGraph(B, outputs, layout)
         IN  /\ DOMAIN KernelValues(graph, point) = Ids(B)
             /\ \A v \in graph.live : KernelValues(graph, point)[v] = vals[v]
<1> DEFINE graph == FreezeGraph(B, outputs, layout)
           live == graph.live
           n == Len(graph.properties)
           base == <<>>
           Value == {vals[v] : v \in Ids(B)} \cup {Undefined}
           States == Seq(Value)
           Right(k, s) == \A v \in 1..k : v \in live => s[v] = vals[v]
           Reached(k) == {s \in States : Len(s) = k /\ Right(k, s)}
           G == [k \in 0..n |-> Reached(k)]
           next == [k \in 1..n |-> [s \in States |-> Emit(graph, s, k, point)]]
           Run(f) == f = [k \in 0..n |-> IF k = 0 THEN base ELSE Emit(graph, f[k - 1], k, point)]
           after == CHOOSE f : Run(f)
<1>0. n \in Nat /\ Ids(B) = 1..n
  <2> DEFINE T == {[op |-> B.nodes[v].op, value |-> B.nodes[v].value, slot |-> B.nodes[v].slot] :
        v \in Ids(B)}
             m == Len(B.nodes)
  <2>1. m \in Nat /\ Ids(B) = 1..m
    BY DEF Sound, Arenas, Ids
  <2>2. graph.properties \in [1..m -> T]
    BY <2>1 DEF FreezeGraph
  <2> HIDE DEF m, T, graph
  <2>3. Len(graph.properties) = m
    BY <2>1, <2>2, FunctionIsSequence
  <2>. QED BY <2>1, <2>3
<1>1. base \in Reached(0)
  OBVIOUS
<1>2. ASSUME NEW k \in 1..n, NEW s \in Reached(k - 1)
      PROVE Emit(graph, s, k, point) \in Reached(k)
  <2> DEFINE t == Emit(graph, s, k, point)
             val == IF k \notin live THEN Undefined
                    ELSE NodeValue(Scalars,
                           EmittedNode(graph.properties[k], GraphOperands(graph, k)), s, point)
  <2>1. s \in Seq(Value) /\ Len(s) = k - 1 /\ Right(k - 1, s)
    OBVIOUS
  <2>2. t = Append(s, val)
    BY DEF Emit
  <2>3. k \in Ids(B)
    BY <1>0
  <2>4. k \in live => val = vals[k]
    <3> SUFFICES ASSUME k \in live PROVE val = vals[k]
      OBVIOUS
    <3>1. EmittedNode(graph.properties[k], GraphOperands(graph, k)) = B.nodes[k]
      BY <2>3, EmittedIsFrozen
    <3>2. Operands(B.nodes[k]) \subseteq live
      BY LiveIsClosed
    <3>3. Operands(B.nodes[k]) \subseteq 1..(k - 1)
      BY <2>3, OperandsBelow
    <3>4. AgreeOn(Operands(B.nodes[k]), s, vals)
      BY <2>1, <3>2, <3>3 DEF AgreeOn
    <3>5. NodeValue(Scalars, B.nodes[k], s, point) = NodeValue(Scalars, B.nodes[k], vals, point)
      BY <2>3, <3>4, NodeValueReads
    <3>6. vals[k] = NodeValue(Scalars, B.nodes[k], vals, point)
      BY <2>3 DEF Solves
    <3>. QED BY <3>1, <3>5, <3>6
  <2>5. val \in Value
    BY <2>3, <2>4
  <2> HIDE DEF val, t, Value, live
  <2>6. /\ t \in Seq(Value) /\ Len(t) = k /\ t[k] = val
        /\ \A u \in 1..(k - 1) : t[u] = s[u]
    BY <1>0, <2>1, <2>2, <2>5
  <2>7. Right(k, t)
    <3> SUFFICES ASSUME NEW v \in 1..k, v \in live PROVE t[v] = vals[v]
      OBVIOUS
    <3>1. CASE v = k
      BY <2>4, <2>6, <3>1
    <3>2. CASE v \in 1..(k - 1)
      BY <2>1, <2>6, <3>2
    <3>. QED BY <1>0, <3>1, <3>2
  <2>. QED BY <2>6, <2>7 DEF t
<1> HIDE DEF n, base, States, Right, live, graph
<1>3. \A k \in 0..n : Reached(k) \subseteq States
  OBVIOUS
<1> HIDE DEF Reached
<1>4. PICK f \in [0..n -> States] :
           /\ f[0] = base
           /\ \A k \in 1..n : f[k - 1] \in G[k - 1] /\ f[k] = next[k][f[k - 1]]
  <2>1. base \in G[0] /\ \A k \in 0..n : G[k] \subseteq States
    BY <1>0, <1>1, <1>3
  <2>2. ASSUME NEW k \in 1..n, NEW s \in G[k - 1] PROVE next[k][s] \in G[k]
    <3>1. k \in 0..n /\ k - 1 \in 0..n
      BY <1>0
    <3>2. s \in Reached(k - 1)
      BY <3>1
    <3>3. s \in States /\ Emit(graph, s, k, point) \in Reached(k)
      BY <1>2, <1>3, <3>1, <3>2
    <3>. QED BY <3>1, <3>3
  <2> HIDE DEF next, G
  <2>3. IsLoop(n, States, base, G, next)
    BY <1>0, <2>1, <2>2 DEF IsLoop
  <2>. QED BY <2>3, LoopRuns DEF IsRun
<1>5. ASSUME NEW k \in 1..n PROVE f[k] = Emit(graph, f[k - 1], k, point)
  <2>1. f[k - 1] \in States /\ f[k] = next[k][f[k - 1]]
    <3> HIDE DEF next, G
    <3>. QED BY <1>0, <1>4
  <2>. QED BY <2>1
<1>6. Run(after)
  <2> HIDE DEF next
  <2>1. Run(f)
    BY <1>0, <1>4, <1>5
  <2>. QED BY <2>1
<1> HIDE DEF after
<1>7. \A k \in 0..n : after[k] \in Reached(k)
  <2>1. after[0] \in G[0]
    BY <1>0, <1>1, <1>6
  <2>2. ASSUME NEW k \in 1..n, after[k - 1] \in G[k - 1] PROVE after[k] \in G[k]
    <3>1. k \in 0..n /\ k - 1 \in 0..n
      BY <1>0
    <3>2. after[k - 1] \in Reached(k - 1) /\ after[k] = Emit(graph, after[k - 1], k, point)
      BY <1>0, <1>6, <2>2, <3>1
    <3>3. after[k] \in Reached(k)
      BY <1>2, <3>2
    <3>. QED BY <3>1, <3>3
  <2>3. \A k \in 0..n : after[k] \in G[k]
    BY <1>0, <2>1, <2>2, LoopInvariant
  <2>. QED BY <2>3
<1>8. KernelValues(graph, point) = after[n]
  BY DEF KernelValues, after, n, base
<1>9. after[n] \in States /\ Len(after[n]) = n /\ Right(n, after[n])
  BY <1>0, <1>7 DEF Reached
<1>10. DOMAIN after[n] = 1..n
  BY <1>9 DEF States
<1>11. \A v \in live : v \in Ids(B)
  BY LiveIsClosed DEF live, graph
<1>12. /\ DOMAIN KernelValues(graph, point) = Ids(B)
       /\ \A v \in live : KernelValues(graph, point)[v] = vals[v]
  BY <1>0, <1>8, <1>9, <1>10, <1>11 DEF Right
<1>. QED BY <1>12 DEF live, graph

(* Hence the same columns, of whatever layout. *)
LEMMA RowsAgree ==
  ASSUME NEW gb, LaidOut(gb), NEW B, Keeps(gb.arena, B), NEW point, point \in PointFor(Scalars, B)
  PROVE  KernelRow(Build(gb), point) = InterpretRow(B, Build(gb), point)
<1> DEFINE A == gb.arena
           graph == Build(gb)
           theirs == KernelValues(graph, point)
           ours == ValuesAt(Scalars, B, point)
<1>1. Sound(A) /\ Sound(B) /\ gb.outputs \in Seq(Ids(A)) /\ Ids(A) \subseteq Ids(B)
  BY IdsGrow DEF LaidOut, Keeps
<1>2. Interprets(Scalars, B, point, ours)
  BY <1>1, ValuesAnswers, ScalarsConvert
<1>3. Solves(A, point, ours)
  <2>1. ASSUME NEW v \in Ids(A) PROVE ours[v] = NodeValue(Scalars, A.nodes[v], ours, point)
    <3>1. B.nodes[v] = A.nodes[v] /\ v \in Ids(B)
      BY <1>1 DEF Keeps, Extends
    <3>. QED BY <1>2, <3>1 DEF Interprets
  <2>. QED BY <2>1 DEF Solves
<1>4. /\ graph = FreezeGraph(A, gb.outputs, gb.layout)
      /\ graph.outputs = gb.outputs
  BY DEF Build, FreezeGraph
<1> HIDE DEF ours, A, graph, theirs
<1>5. DOMAIN theirs = Ids(A) /\ \A v \in graph.live : theirs[v] = ours[v]
  BY <1>1, <1>3, <1>4, KernelAnswers DEF theirs
<1>6. DOMAIN ours = Ids(B)
  BY <1>1, <1>2 DEF Interprets, Ids
<1>7. ASSUME NEW i \in DOMAIN graph.outputs
      PROVE  Read(theirs, graph.outputs[i]) = Read(ours, graph.outputs[i])
  <2>1. graph.outputs[i] \in Ids(A) /\ graph.outputs[i] \in Range(gb.outputs)
    BY <1>1, <1>4 DEF Range
  <2>2. Range(gb.outputs) \subseteq graph.live
    BY <1>1, <1>4, LiveIsClosed
  <2>. QED BY <1>1, <1>5, <1>6, <2>1, <2>2 DEF Read
<1>8. /\ graph.values \in Nat /\ graph.jacobian \in Nat /\ graph.hessian \in Nat
      /\ Len(graph.outputs) \in Nat /\ DOMAIN graph.outputs = 1..Len(graph.outputs)
      /\ Len(graph.outputs) = graph.values + graph.jacobian + graph.hessian
  <2>1. /\ Len(graph.outputs) \in Nat /\ DOMAIN graph.outputs = 1..Len(graph.outputs)
        /\ graph.outputs \in Seq(Ids(A))
    BY <1>1, <1>4
  <2>2. Len(graph.outputs) = graph.values + graph.jacobian + graph.hessian
    BY BuildLaidOut DEF graph
  <2>3. gb.layout \in [values : Nat, jacobian : Nat, hessian : Nat]
    BY DEF LaidOut
  <2>4. graph.values \in Nat /\ graph.jacobian \in Nat /\ graph.hessian \in Nat
    <3>1. CASE gb.layout.values = 0
      BY <1>4, <2>1, <3>1 DEF FreezeGraph
    <3>2. CASE gb.layout.values # 0
      BY <1>4, <2>3, <3>2 DEF FreezeGraph
    <3>. QED BY <3>1, <3>2
  <2>. QED BY <2>1, <2>2, <2>4
<1> DEFINE outs == graph.outputs
<1>9. ASSUME NEW i \in Nat, NEW j \in Nat, i >= 1, j <= Len(outs)
      PROVE  ReadAll(theirs, SubSeq(outs, i, j)) = ReadAll(ours, SubSeq(outs, i, j))
  <2>1. outs \in Seq(Ids(A))
    BY <1>1, <1>4
  <2> HIDE DEF outs
  <2> DEFINE part == SubSeq(outs, i, j)
  <2>2. \A k \in DOMAIN part : k + i - 1 \in 1..Len(outs) /\ part[k] = outs[k + i - 1]
    BY <1>9, <2>1
  <2> HIDE DEF part
  <2>3. \A k \in DOMAIN part : Read(theirs, part[k]) = Read(ours, part[k])
    BY <1>7, <1>8, <2>2 DEF outs
  <2>4. ReadAll(theirs, part) = ReadAll(ours, part)
    BY <2>3 DEF ReadAll
  <2>. QED BY <2>4 DEF part
<1> DEFINE g0 == graph.values
           h0 == graph.values + graph.jacobian
           e0 == h0 + graph.hessian
<1>10. /\ ReadAll(theirs, SubSeq(outs, 1, g0)) = ReadAll(ours, SubSeq(outs, 1, g0))
       /\ ReadAll(theirs, SubSeq(outs, g0 + 1, h0)) = ReadAll(ours, SubSeq(outs, g0 + 1, h0))
       /\ ReadAll(theirs, SubSeq(outs, h0 + 1, e0)) = ReadAll(ours, SubSeq(outs, h0 + 1, e0))
  <2>1. g0 \in Nat /\ h0 \in Nat /\ e0 \in Nat /\ g0 <= Len(outs) /\ h0 <= Len(outs)
          /\ e0 <= Len(outs)
    BY <1>8
  <2> HIDE DEF g0, h0, e0, outs
  <2>. QED BY <1>9, <2>1
<1>11. Stored(graph, theirs) = Stored(graph, ours)
  BY <1>10 DEF Stored, BlocksOf
<1>. QED BY <1>11 DEF KernelRow, InterpretRow, theirs, ours, graph

(* The compiled graph and the interpreter answer alike at every point, for   *)
(* every scalar and op table, whatever the arena has been given since.       *)
THEOREM KernelsInterpret == Spec => []KernelIsInterpreter
<1>1. EquationInv => KernelIsInterpreter
  <2> SUFFICES ASSUME EquationInv, compiled.frozen,
                      NEW at \in [1..compiled.graph.symbols -> Scalar]
               PROVE  KernelRow(compiled.graph, at) = InterpretRow(arena, compiled.graph, at)
    BY DEF KernelIsInterpreter
  <2>1. PICK gb : LaidOut(gb) /\ Keeps(gb.arena, arena) /\ compiled.graph = Build(gb)
    BY DEF EquationInv, GraphInv
  <2>2. compiled.graph.symbols = Len(arena.symbols)
    BY <2>1 DEF Build, FreezeGraph, Keeps
  <2>3. at \in PointFor(Scalars, arena)
    BY <2>2, AmongScalars DEF PointFor
  <2>. QED BY <2>1, <2>3, RowsAgree
<1>. QED BY <1>1, EquationInvariant, PTL

-----------------------------------------------------------------------------
(* A Hessian's block, formed twice with whatever growth of the arena in      *)
(* between, is the same nodes both times.                                    *)

(* block is a Hessian of r that was formed when B was, at most, what it is.  *)
FormedEarlier(B, r, block) ==
  \E A : /\ Sound(A) /\ r \in Ids(A) /\ Keeps(HessianOf(A, r).arena, B)
         /\ block = Flattened(HessianOf(A, r))

(* Flattening reads the compressed rows only. *)
LEMMA FlattenedOfRows ==
  ASSUME NEW h, NEW g, h.compressed = g.compressed
  PROVE  Flattened(h) = Flattened(g)
  BY DEF Flattened

LEMMA FormedEarlierStays ==
  ASSUME NEW B, NEW r, NEW block, FormedEarlier(B, r, block), NEW C, Keeps(B, C)
  PROVE  FormedEarlier(C, r, block)
<1>1. PICK A : /\ Sound(A) /\ r \in Ids(A) /\ Keeps(HessianOf(A, r).arena, B)
               /\ block = Flattened(HessianOf(A, r))
  BY DEF FormedEarlier
<1> DEFINE h == HessianOf(A, r)
<1>2. Block(A, h)
  BY <1>1, HessianAnswers
<1> HIDE DEF h
<1>3. Sound(h.arena)
  BY <1>2 DEF Block, Keeps
<1>4. Keeps(h.arena, C)
  BY <1>1, <1>3, KeepsTransitive DEF h
<1>. QED BY <1>1, <1>4 DEF FormedEarlier, h

LEMMA FormedTwiceIsOne ==
  ASSUME NEW C, NodesOnce(C), Regular(C), NEW r,
         NEW a, FormedEarlier(C, r, a), NEW b, FormedEarlier(C, r, b)
  PROVE  a = b
<1>1. ASSUME NEW block, FormedEarlier(C, r, block) PROVE block = Flattened(HessianOf(C, r))
  <2>1. PICK A : /\ Sound(A) /\ r \in Ids(A) /\ Keeps(HessianOf(A, r).arena, C)
                 /\ block = Flattened(HessianOf(A, r))
    BY <1>1 DEF FormedEarlier
  <2>2. Recalls(HessianOf(A, r).arena, C)
    BY <2>1 DEF Recalls
  <2>3. HessianOf(C, r) = InArena(HessianOf(A, r), C)
    BY <2>1, <2>2, HessianAgain
  <2>4. InArena(HessianOf(A, r), C).compressed = HessianOf(A, r).compressed
    BY DEF InArena
  <2>5. Flattened(HessianOf(C, r)) = Flattened(HessianOf(A, r))
    BY <2>3, <2>4, FlattenedOfRows
  <2>. QED BY <2>1, <2>5
<1>. QED BY <1>1

(* An equation of one function has one block, and that is its Hessian. *)
LEMMA OneBlock ==
  ASSUME Len(roots) = 1
  PROVE  LET h == HessianOf(arena, roots[1])
         IN  /\ FormedHessians.arena = h.arena
             /\ FormedHessians.blocks[1].compressed = h.compressed
<1> DEFINE h == HessianOf(arena, roots[1])
           base == [arena |-> arena, blocks |-> <<>>]
           Run(f) == f = [k \in 0..1 |-> IF k = 0 THEN base ELSE NextBlock(f[k - 1], roots, k)]
           after == CHOOSE f : Run(f)
           one == NextBlock(base, roots, 1)
           f == [k \in 0..1 |-> IF k = 0 THEN base ELSE one]
<1>1. FormedHessians = after[1]
  BY DEF FormedHessians, Iterated, after, base
<1>2. Run(f)
  <2>1. f[0] = base /\ f[1] = one
    OBVIOUS
  <2>2. ASSUME NEW k \in 0..1
        PROVE  (IF k = 0 THEN base ELSE one) =
                 (IF k = 0 THEN base ELSE NextBlock(f[k - 1], roots, k))
    <3>1. k = 0 \/ k = 1
      OBVIOUS
    <3>2. k = 1 => f[k - 1] = base
      OBVIOUS
    <3> HIDE DEF f, base
    <3>. QED BY <3>1, <3>2 DEF one
  <2> HIDE DEF base, one
  <2>. QED BY <2>2
<1>3. Run(after)
  <2> HIDE DEF f, Run
  <2>. QED BY <1>2
<1> HIDE DEF after, f
<1>4. after[1] = NextBlock(after[0], roots, 1) /\ after[0] = base
  <2> HIDE DEF base
  <2>. QED BY <1>3
<1> HIDE DEF Run
<1>5. one = WithBlock(base, h)
  BY DEF NextBlock
<1> HIDE DEF h
<1>6. one.arena = h.arena /\ one.blocks = <<[h EXCEPT !.arena = EmptyArena]>>
  BY <1>5 DEF WithBlock
<1>7. [h EXCEPT !.arena = EmptyArena].compressed = h.compressed
  OBVIOUS
<1> HIDE DEF one
<1>8. FormedHessians = one
  BY <1>1, <1>4 DEF one
<1>9. one.blocks[1].compressed = h.compressed
  <2>1. one.blocks[1] = [h EXCEPT !.arena = EmptyArena]
    BY <1>6
  <2>. QED BY <1>7, <2>1
<1>10. FormedHessians.arena = h.arena /\ FormedHessians.blocks[1].compressed = h.compressed
  BY <1>6, <1>8, <1>9
<1>. QED BY <1>10 DEF h

(* What follows s in a concatenation. *)
LEMMA SecondPart ==
  ASSUME NEW S, NEW s, s \in Seq(S), NEW t, t \in Seq(S)
  PROVE  SubSeq(s \o t, Len(s) + 1, Len(s) + Len(t)) = t
<1> DEFINE both == s \o t
           m == Len(s)
           n == Len(t)
           part == SubSeq(both, m + 1, m + n)
<1>1. m \in Nat /\ n \in Nat /\ both \in Seq(S) /\ Len(both) = m + n
  OBVIOUS
<1>2. \A i \in 1..n : both[m + i] = t[i]
  OBVIOUS
<1> HIDE DEF both, m, n
<1>3. part \in Seq(S) /\ Len(part) = n
  BY <1>1
<1>4. \A i \in 1..n : part[i] = both[m + i]
  BY <1>1
<1>5. t \in Seq(S) /\ Len(t) = n
  BY DEF n
<1> HIDE DEF part
<1>6. \A i \in 1..n : part[i] = t[i]
  BY <1>2, <1>4
<1>7. part = t
  BY <1>3, <1>5, <1>6
<1>. QED BY <1>7 DEF part, both, m, n

(* The columns of the compiled graph behind its values and partials. *)
LEMMA CompiledBlock ==
  ASSUME Sound(arena), roots \in Seq(Ids(arena)), derivative \in Seq(Ids(arena)), roots # <<>>
  PROVE  LET h == HessianOf(arena, roots[1])
         IN  /\ GraphHessian(FirstOrder).arena = h.arena
             /\ BlocksOf(Build(GraphHessian(FirstOrder))).h = Flattened(h)
<1> DEFINE h == HessianOf(arena, roots[1])
           block == Flattened(h)
           m == Len(arena.symbols)
           first == roots \o derivative
           gb == GraphHessian(FirstOrder)
<1>1. /\ FirstOrder.arena = arena /\ FirstOrder.roots = roots /\ FirstOrder.outputs = first
      /\ FirstOrder.layout = [values |-> Len(roots), jacobian |-> Len(derivative), hessian |-> 0]
  <2> DEFINE b == ValuesFrom(GraphBuilder(arena), roots)
  <2>1. /\ b.arena = arena /\ b.outputs = roots /\ b.roots = roots
        /\ b.layout = [values |-> Len(roots), jacobian |-> 0, hessian |-> 0]
    BY DEF ValuesFrom, GraphBuilder, NoLayout
  <2> HIDE DEF b
  <2>2. FirstOrder = [arena |-> b.arena, roots |-> b.roots, outputs |-> b.outputs \o derivative,
                      layout |-> [b.layout EXCEPT !.jacobian = Len(derivative)]]
    BY DEF FirstOrder, JacobianFrom, WithBlockOf, b
  <2>. QED BY <2>1, <2>2
<1>2. roots[1] \in Ids(arena) /\ Len(roots) \in Nat /\ Len(roots) # 0 /\ Len(derivative) \in Nat
  OBVIOUS
<1>3. Block(arena, h) /\ m \in Nat
  BY <1>2, HessianAnswers DEF Sound, Arenas
<1> HIDE DEF h
<1>4. Sound(h.arena) /\ Keeps(arena, h.arena) /\ h.compressed \in Seq([1..m -> Ids(h.arena)])
  BY <1>3 DEF Block, Keeps
<1>5. block \in Seq(Ids(h.arena))
  BY <1>3, <1>4, FlattenedIds
<1>6. roots \in Seq(Ids(h.arena)) /\ derivative \in Seq(Ids(h.arena))
  BY <1>4, SequenceKept
<1>7. first \in Seq(Ids(h.arena)) /\ Len(first) = Len(roots) + Len(derivative)
  BY <1>6, ConcatLength
<1> HIDE DEF block, m, first
<1>8. gb = [arena |-> h.arena, roots |-> FirstOrder.roots, outputs |-> first \o block,
            layout |-> [FirstOrder.layout EXCEPT !.hessian = Len(block)]]
  BY <1>1 DEF GraphHessian, WithBlockOf, h, block
<1> HIDE DEF gb
<1>9. /\ gb.arena = h.arena /\ gb.outputs = first \o block
      /\ gb.layout = [values |-> Len(roots), jacobian |-> Len(derivative), hessian |-> Len(block)]
  BY <1>1, <1>8
<1> DEFINE graph == Build(gb)
<1>10. /\ graph.outputs = first \o block /\ graph.values = Len(roots)
       /\ graph.jacobian = Len(derivative) /\ graph.hessian = Len(block)
  BY <1>2, <1>9 DEF Build, FreezeGraph
<1> HIDE DEF graph
<1>11. BlocksOf(graph).h = SubSeq(first \o block, Len(first) + 1, Len(first) + Len(block))
  BY <1>7, <1>10 DEF BlocksOf
<1>12. BlocksOf(graph).h = block
  BY <1>5, <1>7, <1>11, SecondPart
<1>13. gb.arena = h.arena /\ BlocksOf(Build(gb)).h = Flattened(h)
  BY <1>9, <1>12 DEF graph, block
<1>. QED BY <1>13 DEF gb, h

-----------------------------------------------------------------------------
(* Both of the places an equation keeps a Hessian's columns in were formed   *)
(* from the function it has, in an arena that has grown to what it is now.   *)
TwiceInv ==
  /\ NodesOnce(arena)
  /\ compiled.hasHessian =>
       Len(roots) = 1 /\ FormedEarlier(arena, roots[1], BlocksOf(compiled.graph).h)
  /\ hessians # <<>> /\ Len(roots) = 1 =>
       FormedEarlier(arena, roots[1], Flattened(hessians[1]))

LEMMA InitTwiceInv == Init => TwiceInv
<1> SUFFICES ASSUME Init PROVE TwiceInv
  OBVIOUS
<1>1. NodesOnce(arena)
  BY GivensAssumption DEF Init
<1>. QED BY <1>1 DEF Init, TwiceInv, NotCompiled

(* Neither is disturbed by growth, whoever causes it. *)
LEMMA TwiceGrows ==
  ASSUME TwiceInv, Keeps(arena, arena'), UNCHANGED roots
  PROVE  /\ NodesOnce(arena')
         /\ UNCHANGED compiled =>
              (compiled'.hasHessian =>
                 Len(roots') = 1 /\ FormedEarlier(arena', roots'[1], BlocksOf(compiled'.graph).h))
         /\ UNCHANGED hessians =>
              (hessians' # <<>> /\ Len(roots') = 1 =>
                 FormedEarlier(arena', roots'[1], Flattened(hessians'[1])))
<1>1. NodesOnce(arena')
  BY DEF TwiceInv, Keeps
<1>2. ASSUME UNCHANGED compiled, compiled'.hasHessian
      PROVE  Len(roots') = 1 /\ FormedEarlier(arena', roots'[1], BlocksOf(compiled'.graph).h)
  <2>1. Len(roots) = 1 /\ FormedEarlier(arena, roots[1], BlocksOf(compiled.graph).h)
    BY <1>2 DEF TwiceInv
  <2>2. FormedEarlier(arena', roots[1], BlocksOf(compiled.graph).h)
    BY <2>1, FormedEarlierStays
  <2>. QED BY <1>2, <2>1, <2>2
<1>3. ASSUME UNCHANGED hessians, hessians' # <<>>, Len(roots') = 1
      PROVE  FormedEarlier(arena', roots'[1], Flattened(hessians'[1]))
  <2>1. FormedEarlier(arena, roots[1], Flattened(hessians[1]))
    BY <1>3 DEF TwiceInv
  <2>2. FormedEarlier(arena', roots[1], Flattened(hessians[1]))
    BY <2>1, FormedEarlierStays
  <2>. QED BY <1>3, <2>2
<1>. QED BY <1>1, <1>2, <1>3

(* What has just been formed was formed, at most, in the arena as it is left. *)
LEMMA FormedNow ==
  ASSUME NEW A, Sound(A), NEW r \in Ids(A)
  PROVE  FormedEarlier(HessianOf(A, r).arena, r, Flattened(HessianOf(A, r)))
<1> DEFINE h == HessianOf(A, r)
<1>1. Block(A, h)
  BY HessianAnswers
<1> HIDE DEF h
<1>2. Keeps(h.arena, h.arena)
  BY <1>1, ExtendsRefl DEF Block, Keeps
<1>. QED BY <1>2 DEF FormedEarlier, h

LEMMA CreateTwice ==
  ASSUME EquationInv, BatchInv, TwiceInv, Create
  PROVE  TwiceInv'
<1>1. PICK pass \in {RootIds} : \E j \in {Jacobian(pass.arena, pass.ids)} : arena' = j.arena
  BY DEF Create
<1> DEFINE j == Jacobian(pass.arena, pass.ids)
<1>2. arena' = j.arena
  BY <1>1
<1>3. UNCHANGED <<hessians, compiled>> /\ hessians = <<>> /\ ~compiled.hasHessian
  BY DEF Create, EquationInv, BatchInv, FreezesCounted
<1>4. Keeps(arena, pass.arena) /\ Sound(pass.arena) /\ Sound(arena)
        /\ pass.ids \in Seq(Ids(pass.arena))
  BY <1>1, RootIdsAnswers DEF EquationInv, Handed, Rooted, Keeps
<1>5. Columns(pass.arena, j)
  BY <1>4, JacobianAnswers
<1> HIDE DEF j
<1>6. NodesOnce(arena')
  BY <1>2, <1>4, <1>5 DEF TwiceInv, Columns, Keeps
<1>. QED BY <1>3, <1>6 DEF TwiceInv

LEMMA HessiansTwice ==
  ASSUME EquationInv, TwiceInv, roots # <<>>,
         arena' = CachedHessians.arena, hessians' = CachedHessians.blocks,
         UNCHANGED <<roots, compiled>>
  PROVE  TwiceInv'
<1>0. Sound(arena) /\ roots \in Seq(Ids(arena))
  BY DEF EquationInv, Handed, RootsInv
<1>1. CASE hessians # <<>>
  <2>1. UNCHANGED <<arena, hessians, roots, compiled>>
    BY <1>1 DEF CachedHessians
  <2>. QED BY <2>1 DEF TwiceInv, NodesOnce
<1>2. CASE hessians = <<>>
  <2>1. arena' = FormedHessians.arena /\ hessians' = FormedHessians.blocks
    BY <1>2 DEF CachedHessians
  <2>2. Keeps(arena, arena')
    BY <1>0, <2>1, FormedHessiansAnswers DEF Formed
  <2>3. ASSUME Len(roots) = 1
        PROVE  FormedEarlier(arena', roots[1], Flattened(hessians'[1]))
    <3> DEFINE h == HessianOf(arena, roots[1])
    <3>1. roots[1] \in Ids(arena)
      BY <1>0, <2>3
    <3>2. FormedEarlier(h.arena, roots[1], Flattened(h))
      BY <1>0, <3>1, FormedNow
    <3>3. FormedHessians.arena = h.arena /\ FormedHessians.blocks[1].compressed = h.compressed
      BY <2>3, OneBlock
    <3> HIDE DEF h
    <3>4. Flattened(hessians'[1]) = Flattened(h)
      BY <2>1, <3>3, FlattenedOfRows
    <3>. QED BY <2>1, <3>2, <3>3, <3>4
  <2>. QED BY <2>2, <2>3, TwiceGrows DEF TwiceInv
<1>. QED BY <1>1, <1>2

LEMMA CompiledTwice ==
  ASSUME EquationInv, TwiceInv, roots # <<>>, NEW want \in BOOLEAN, want => Len(roots) = 1,
         NEW c \in Compiled(want), Keep(c, want), UNCHANGED <<roots, hessians>>
  PROVE  TwiceInv'
<1>0. Sound(arena) /\ roots \in Seq(Ids(arena)) /\ derivative \in Seq(Ids(arena))
  BY DEF EquationInv, Handed, RootsInv
<1>1. arena' = c.arena /\ compiled' = c.compiled
  BY DEF Keep
<1>2. CASE MustFreeze(want)
  <2> DEFINE gb == IF want THEN GraphHessian(FirstOrder) ELSE FirstOrder
  <2>1. arena' = gb.arena /\ compiled'.hasHessian = want /\ compiled'.graph = Build(gb)
    BY <1>1, <1>2 DEF Compiled, Freeze, FrozenFrom
  <2>2. CASE want
    <3> DEFINE h == HessianOf(arena, roots[1])
    <3>1. roots[1] \in Ids(arena)
      BY <1>0
    <3>2. Block(arena, h) /\ FormedEarlier(h.arena, roots[1], Flattened(h))
      BY <1>0, <3>1, HessianAnswers, FormedNow
    <3>3. gb.arena = h.arena /\ BlocksOf(Build(gb)).h = Flattened(h)
      BY <1>0, <2>2, CompiledBlock
    <3> HIDE DEF h, gb
    <3>4. Keeps(arena, arena')
      BY <2>1, <3>2, <3>3 DEF Block
    <3>. QED BY <2>1, <2>2, <3>2, <3>3, <3>4, TwiceGrows DEF TwiceInv
  <2>3. CASE ~want
    <3>1. arena' = arena
      BY <1>0, <2>1, <2>3, FirstOrderLaidOut
    <3>2. compiled'.hasHessian = FALSE
      BY <2>1, <2>3
    <3>. QED BY <3>1, <3>2 DEF TwiceInv, NodesOnce
  <2>. QED BY <2>2, <2>3
<1>3. CASE ~MustFreeze(want)
  <2>1. UNCHANGED <<arena, compiled>>
    BY <1>1, <1>3 DEF Compiled
  <2>. QED BY <2>1 DEF TwiceInv, NodesOnce
<1>. QED BY <1>2, <1>3

LEMMA StepTwiceInv ==
  ASSUME TwiceInv, EquationInv, BatchInv, [Next]_vars
  PROVE  TwiceInv'
<1>0. Sound(arena) /\ Keeps(arena, arena)
  BY ExtendsRefl DEF EquationInv, Handed
<1>1. ASSUME Keeps(arena, arena'), UNCHANGED <<roots, hessians, compiled>>
      PROVE  TwiceInv'
  BY <1>1, TwiceGrows DEF TwiceInv
<1>2. ASSUME UNCHANGED <<arena, roots, hessians, compiled>>
      PROVE  TwiceInv'
  BY <1>0, <1>1, <1>2
<1>3. CASE UNCHANGED vars
  BY <1>2, <1>3 DEF vars
<1>4. CASE CreateFails
  BY <1>2, <1>4 DEF CreateFails, caches, fixed
<1>5. CASE Create
  BY <1>5, CreateTwice
<1>6. CASE Len(roots) > 0 /\ Use
  <2>0. roots # <<>>
    BY <1>6
  <2>1. ASSUME NEW point \in GivenPoints, Evaluate(point) \/ HarvestJacobian(point)
        PROVE  TwiceInv'
    BY <1>2, <2>1 DEF Evaluate, HarvestJacobian, caches, fixed
  <2>2. ASSUME HessianColors(CachedHessians)
        PROVE  TwiceInv'
    BY <2>0, <2>2, HessiansTwice DEF HessianColors, fixed
  <2>3. ASSUME NEW point \in GivenPoints, HessianAtPoint(CachedHessians, point)
        PROVE  TwiceInv'
    <3>1. UNCHANGED <<roots, compiled>>
      BY <2>3 DEF HessianAtPoint, fixed
    <3>2. CASE point.status = "ok"
      BY <2>0, <2>3, <3>1, <3>2, HessiansTwice DEF HessianAtPoint
    <3>3. CASE point.status # "ok"
      BY <1>2, <2>3, <3>1, <3>3 DEF HessianAtPoint
    <3>. QED BY <3>2, <3>3
  <2>4. ASSUME NEW want \in BOOLEAN, OnGraph(want)
        PROVE  TwiceInv'
    <3>1. /\ UNCHANGED <<roots, hessians>>
          /\ want => Len(roots) = 1
          /\ \E c \in Compiled(want) : Keep(c, want)
      BY <2>4 DEF OnGraph, fixed
    <3>. QED BY <2>0, <3>1, CompiledTwice
  <2>5. ASSUME NEW x0, UnivariateDerivative(x0)
        PROVE  TwiceInv'
    BY <1>2, <2>5 DEF UnivariateDerivative, caches, fixed
  <2>6. ASSUME NEW gb \in {GraphJacobian(GraphOutput(OwnValues, At(1))),
                 GraphHessian(GraphJacobian(OwnValues))},
               OwnKernel(gb)
        PROVE  TwiceInv'
    <3>1. Keeps(arena, gb.arena)
      BY <2>0, OwnKernelGrows
    <3>. QED BY <1>1, <2>6, <3>1 DEF OwnKernel
  <2>7. ASSUME NEW op, NEW a, NEW b, Grow(op, a, b),
               \/ op \in UnaryOps /\ a = roots[1] /\ b = NoNode
               \/ op \in BinaryOps /\ a = roots[1] /\ b \in Handles
        PROVE  TwiceInv'
    <3>1. Keeps(arena, arena')
      BY <2>0, <2>7, GrowGrows
    <3>. QED BY <1>1, <2>7, <3>1 DEF Grow
  <2>. QED BY <1>6, <2>1, <2>2, <2>3, <2>4, <2>5, <2>6, <2>7 DEF Use
<1>. QED BY <1>3, <1>4, <1>5, <1>6 DEF Next

THEOREM TwiceInvariant == Spec => []TwiceInv
<1>1. TwiceInv /\ EquationInv /\ BatchInv /\ [Next]_vars => TwiceInv'
  BY StepTwiceInv
<1>. QED BY <1>1, InitTwiceInv, EquationInvariant, BatchInvariant, PTL DEF Spec

(* The per-point blocks and the compiled graph's columns are the same nodes, *)
(* in whichever order the calls that form them come and whatever the caller  *)
(* forms in the arena before, between and after them.  The arena may have no *)
(* constant that is not equal to itself: the interner never finds a NaN it   *)
(* has, so every call forms that one anew.                                   *)
THEOREM OneHessianAlways == Spec => [](Regular(arena) => OneHessian)
<1>1. TwiceInv => (Regular(arena) => OneHessian)
  <2> SUFFICES ASSUME TwiceInv, Regular(arena), compiled.hasHessian, hessians # <<>>
               PROVE  BlocksOf(compiled.graph).h = Flattened(hessians[1])
    BY DEF OneHessian
  <2>1. /\ FormedEarlier(arena, roots[1], BlocksOf(compiled.graph).h)
        /\ FormedEarlier(arena, roots[1], Flattened(hessians[1]))
        /\ NodesOnce(arena)
    BY DEF TwiceInv
  <2>. QED BY <2>1, FormedTwiceIsOne
<1>. QED BY <1>1, TwiceInvariant, PTL

-----------------------------------------------------------------------------
(* What an id an equation keeps stands for: in this arena and in every one   *)
(* it grows into, and at any point, what it is worth.  The id of a handle is *)
(* worth what the handle is; that of a partial, the tangent of its function  *)
(* by its symbol; that of an entry of a Hessian, a second derivative.        *)
MeansValue(B, e, v) ==
  \A C, p, w : Keeps(B, C) /\ Numbers(Smooth, C, p, w) => w[v] = ValueOf(Smooth, w, e)
MeansSlope(B, r, s, v) ==
  \A C, p, w, u : Keeps(B, C) /\ Reads(Smooth, r, C, p, w, s, u) /\ u[r] # Smooth.none =>
    w[v] = u[r]
MeansBend(B, r, i, j, v) ==
  \A C : Keeps(B, C) =>
    \A p \in PointFor(Smooth, C) :
      SecondDerivative(C, p, i, j, r) # NaN =>
        ValuesAt(Smooth, C, p)[v] = SecondDerivative(C, p, i, j, r)

ValuesMean(B, given, f) ==
  /\ f \in Seq(Ids(B))
  /\ \A k \in DOMAIN f : IF k \in DOMAIN given THEN MeansValue(B, given[k].e, f[k]) ELSE f[k] = 1
PartialsMean(B, rs, g) ==
  /\ rs \in Seq(Ids(B)) /\ g \in Seq(Ids(B))
  /\ Len(g) = Len(rs) * Len(B.symbols)
  /\ \A k \in DOMAIN rs, s \in 1..Len(B.symbols) :
       MeansSlope(B, rs[k], s, g[(k - 1) * Len(B.symbols) + s])
BlockMeans(B, r, h) ==
  /\ r \in Ids(B)
  /\ \A i, j \in 1..Len(B.symbols) :
       Entry(h, i, j) \in Ids(B) /\ MeansBend(B, r, i, j, Entry(h, i, j))

(* Columns that scatter, by a colouring of the pattern, to such a block, and *)
(* to the zero node where it has no entry of its own.                        *)
Scatters(B, r, h, s) ==
  /\ BlockMeans(B, r, h) /\ ZeroNamed(B, h.zero)
  /\ h.rows = CouplingPattern(B, r) /\ h.color = GreedyColors(h.rows, [j \in DOMAIN h.rows |-> j])
  /\ Pattern(Len(B.symbols), h.rows)
  /\ h.color \in [1..Len(B.symbols) -> 1..Len(h.compressed)]
  /\ Len(h.compressed) = ColorCount(h.color)
  /\ s \in Seq(Ids(B)) /\ Stacked(Len(B.symbols), h.compressed, Len(h.compressed), s)
ColumnsMean(B, r, s) == \E h : Scatters(B, r, h, s)

(* What the columns of a graph stand for. *)
LayoutMeans(B, given, rs, blocks) ==
  /\ ValuesMean(B, given, blocks.f) /\ Len(given) <= Len(blocks.f)
  /\ PartialsMean(B, rs, blocks.g)
  /\ blocks.h # <<>> => ColumnsMean(B, rs[1], blocks.h)

(* None of it is lost when the arena grows. *)
LEMMA MeaningGrows ==
  ASSUME NEW B, Sound(B), NEW C, Keeps(B, C)
  PROVE  /\ \A e, v : MeansValue(B, e, v) => MeansValue(C, e, v)
         /\ \A r, s, v : MeansSlope(B, r, s, v) => MeansSlope(C, r, s, v)
         /\ \A r, i, j, v : MeansBend(B, r, i, j, v) => MeansBend(C, r, i, j, v)
         /\ \A z : ZeroNamed(B, z) => ZeroNamed(C, z)
<1>1. \A D : Keeps(C, D) => Keeps(B, D)
  BY KeepsTransitive
<1>2. ASSUME NEW e, NEW v, MeansValue(B, e, v) PROVE MeansValue(C, e, v)
  BY ONLY <1>1, <1>2 DEF MeansValue
<1>3. ASSUME NEW r, NEW s, NEW v, MeansSlope(B, r, s, v) PROVE MeansSlope(C, r, s, v)
  BY ONLY <1>1, <1>3 DEF MeansSlope
<1>4. ASSUME NEW r, NEW i, NEW j, NEW v, MeansBend(B, r, i, j, v) PROVE MeansBend(C, r, i, j, v)
  BY ONLY <1>1, <1>4 DEF MeansBend
<1>5. ASSUME NEW z, ZeroNamed(B, z) PROVE ZeroNamed(C, z)
  BY ONLY <1>1, <1>5 DEF ZeroNamed
<1>. QED BY <1>2, <1>3, <1>4, <1>5

LEMMA ValuesMeanStill ==
  ASSUME NEW B, Sound(B), NEW C, Keeps(B, C), NEW given, NEW f, ValuesMean(B, given, f)
  PROVE  ValuesMean(C, given, f)
<1>1. f \in Seq(Ids(C))
  BY SequenceKept DEF ValuesMean
<1>2. \A e, v : MeansValue(B, e, v) => MeansValue(C, e, v)
  BY MeaningGrows
<1>. QED BY <1>1, <1>2 DEF ValuesMean

LEMMA PartialsMeanStill ==
  ASSUME NEW B, Sound(B), NEW C, Keeps(B, C), NEW rs, NEW g, PartialsMean(B, rs, g)
  PROVE  PartialsMean(C, rs, g)
<1>1. rs \in Seq(Ids(C)) /\ g \in Seq(Ids(C)) /\ C.symbols = B.symbols
  BY SequenceKept DEF PartialsMean, Keeps
<1>2. \A r, s, v : MeansSlope(B, r, s, v) => MeansSlope(C, r, s, v)
  BY MeaningGrows
<1>. QED BY <1>1, <1>2 DEF PartialsMean

LEMMA BlockMeansStill ==
  ASSUME NEW B, Sound(B), NEW C, Keeps(B, C), NEW r, NEW h, BlockMeans(B, r, h)
  PROVE  BlockMeans(C, r, h)
<1>1. Ids(B) \subseteq Ids(C) /\ C.symbols = B.symbols
  BY IdsGrow DEF Keeps
<1>2. \A i, j, v : MeansBend(B, r, i, j, v) => MeansBend(C, r, i, j, v)
  BY MeaningGrows
<1>. QED BY <1>1, <1>2 DEF BlockMeans

LEMMA ColumnsMeanStill ==
  ASSUME NEW B, Sound(B), NEW C, Keeps(B, C), NEW r, NEW s, ColumnsMean(B, r, s)
  PROVE  ColumnsMean(C, r, s)
<1>1. PICK h : Scatters(B, r, h, s)
  BY DEF ColumnsMean
<1>2. BlockMeans(B, r, h) /\ r \in Ids(B) /\ ZeroNamed(B, h.zero) /\ s \in Seq(Ids(B))
  BY <1>1 DEF Scatters, BlockMeans
<1>3. BlockMeans(C, r, h)
  BY <1>2, BlockMeansStill
<1>4. CouplingPattern(C, r) = CouplingPattern(B, r)
  BY <1>2, PatternAgain
<1>5. ZeroNamed(C, h.zero) /\ C.symbols = B.symbols
  BY <1>2, MeaningGrows DEF Keeps
<1>6. s \in Seq(Ids(C))
  BY <1>2, SequenceKept
<1>. QED BY <1>1, <1>3, <1>4, <1>5, <1>6 DEF Scatters, ColumnsMean

LEMMA LayoutMeansStill ==
  ASSUME NEW B, Sound(B), NEW C, Keeps(B, C), NEW given, NEW rs, NEW blocks,
         LayoutMeans(B, given, rs, blocks)
  PROVE  LayoutMeans(C, given, rs, blocks)
  BY ValuesMeanStill, PartialsMeanStill, ColumnsMeanStill DEF LayoutMeans

(* The id create() takes of a handle is worth what the handle is. *)
LEMMA MaterialiseMeans ==
  ASSUME NEW B, Sound(B), NEW e, Names(B, e), NEW reply, reply = Materialise(B, e)
  PROVE  MeansValue(reply.arena, e, reply.id)
<1> SUFFICES ASSUME NEW C, NEW p, NEW w, Keeps(reply.arena, C), Numbers(Smooth, C, p, w)
             PROVE  w[reply.id] = ValueOf(Smooth, w, e)
  BY DEF MeansValue
<1>. QED BY MaterialiseValue

LEMMA NextValueMeans ==
  ASSUME NEW B, Sound(B), NEW given, NEW f, ValuesMean(B, given, f),
         NEW k, k = Len(f) + 1, k \in DOMAIN given, NEW e, e = given[k].e, Names(B, e),
         NEW reply, reply = Materialise(B, e)
  PROVE  ValuesMean(reply.arena, given, Append(f, reply.id))
<1>1. Answers(B, reply) /\ MeansValue(reply.arena, e, reply.id)
  BY MaterialiseAnswers, MaterialiseMeans
<1>2. ValuesMean(reply.arena, given, f)
  BY <1>1, ValuesMeanStill DEF Answers
<1> DEFINE ids == Append(f, reply.id)
<1>3. /\ f \in Seq(Ids(reply.arena)) /\ reply.id \in Ids(reply.arena)
      /\ \A i \in DOMAIN f :
           IF i \in DOMAIN given THEN MeansValue(reply.arena, given[i].e, f[i]) ELSE f[i] = 1
  BY <1>1, <1>2 DEF ValuesMean, Answers
<1>4. /\ ids \in Seq(Ids(reply.arena)) /\ DOMAIN ids = 1..k /\ DOMAIN f = 1..(k - 1)
      /\ ids[k] = reply.id /\ \A i \in 1..(k - 1) : ids[i] = f[i]
  BY <1>3
<1> HIDE DEF ids
<1>5. ASSUME NEW i \in 1..k
      PROVE  IF i \in DOMAIN given THEN MeansValue(reply.arena, given[i].e, ids[i])
               ELSE ids[i] = 1
  <2>1. CASE i = k
    BY ONLY <1>1, <1>4, <2>1, k \in DOMAIN given, e = given[k].e
  <2>2. CASE i # k
    <3>1. i \in 1..(k - 1)
      BY <1>3, <2>2
    <3>. QED BY ONLY <1>3, <1>4, <3>1
  <2>. QED BY <2>1, <2>2
<1>. QED BY <1>4, <1>5 DEF ValuesMean, ids

LEMMA RootsMean ==
  ASSUME Handed
  PROVE  ValuesMean(RootIds.arena, args, RootIds.ids)
<1> DEFINE n == Len(args)
<1>1. PICK f : RootRun(f) /\ RootIds = f[n]
  BY RootIdsRuns
<1>0. n \in Nat /\ DOMAIN args = 1..n
  BY DEF Handed
<1> DEFINE P(s, k) == Len(s.ids) = k /\ ValuesMean(s.arena, args, s.ids)
           G == [k \in 0..n |-> {s \in {f[i] : i \in 0..n} : P(s, k)}]
<1>2. f[0] \in G[0]
  <2>1. ValuesMean(arena, args, <<>>)
    BY DEF ValuesMean
  <2>. QED BY <1>0, <1>1, <2>1 DEF RootRun
<1>3. ASSUME NEW k \in 1..n, f[k - 1] \in G[k - 1] PROVE f[k] \in G[k]
  <2> DEFINE s == f[k - 1]
             e == args[k].e
             reply == Materialise(s.arena, e)
  <2>1. k - 1 \in 0..n /\ k \in 0..n /\ P(s, k - 1)
    BY <1>0, <1>3
  <2>2. /\ f[k] = NextRoot(s, e) /\ Rooted(s) /\ Len(s.ids) = k - 1
        /\ Len(f[k].ids) = k
    BY <1>0, <1>1, <2>1 DEF RootRun
  <2>3. Sound(s.arena) /\ Names(s.arena, e)
    <3>1. Keeps(arena, s.arena) /\ Names(arena, e) /\ Sound(arena)
      BY <1>0, <2>2 DEF Handed, Rooted
    <3> HIDE DEF s, e
    <3>. QED BY <3>1, NamesKept DEF Keeps
  <2>4. f[k] = [arena |-> reply.arena, ids |-> Append(s.ids, reply.id)]
    BY <2>2 DEF NextRoot, WithRoot
  <2>5. k = Len(s.ids) + 1 /\ k \in DOMAIN args /\ ValuesMean(s.arena, args, s.ids)
    BY <1>0, <2>1, <2>2
  <2>6. ValuesMean(reply.arena, args, Append(s.ids, reply.id))
    <3> HIDE DEF s, reply, P, G
    <3>. QED BY <2>3, <2>5, NextValueMeans DEF reply
  <2>7. P(f[k], k)
    <3> HIDE DEF s, reply
    <3>. QED BY <2>2, <2>4, <2>6
  <2> HIDE DEF P
  <2>. QED BY <2>1, <2>7
<1>4. f[n] \in G[n]
  <2> HIDE DEF G, n
  <2>1. \A k \in 0..n : f[k] \in G[k]
    BY <1>0, <1>2, <1>3, LoopInvariant
  <2>. QED BY <1>0, <2>1
<1>. QED BY <1>0, <1>1, <1>4

(* A row of the Jacobian is the reverse sweep's of its function. *)
RowsMean(m, rs, k, s) ==
  \E row :
    /\ Stacked(m, row, k, s.partial)
    /\ \A i \in 1..k, c \in 1..m : MeansSlope(s.arena, rs[i], c, row[i][c])
LEMMA NextRowMeans ==
  ASSUME CalculusLaws(Smooth), NEW B, Sound(B), NodesOnce(B), NEW s, Columns(B, s),
         NEW m, m = Len(B.symbols), NEW rs, NEW k \in Nat \ {0}, rs[k] \in Ids(B),
         RowsMean(m, rs, k - 1, s), NEW t, t = NextRow(s, rs, k)
  PROVE  RowsMean(m, rs, k, t)
<1> DEFINE g == ReverseGradient(s.arena, rs[k])
<1>1. /\ Sound(s.arena) /\ NodesOnce(s.arena) /\ rs[k] \in Ids(s.arena) /\ m \in Nat
      /\ m = Len(s.arena.symbols) /\ s.partial \in Seq(Ids(s.arena))
  BY IdsGrow DEF Columns, Keeps, Sound, Arenas
<1>2. Partials(s.arena, g) /\ NamesSlopes(Smooth, rs[k], m, g)
  BY <1>1, ReverseAnswers, ReverseNamesSlopes
<1>3. t.arena = g.arena /\ t.partial = s.partial \o g.partial
  BY DEF NextRow, WithRow
<1> HIDE DEF g
<1>4. /\ Keeps(s.arena, g.arena) /\ g.partial \in [1..m -> Ids(g.arena)]
  BY <1>1, <1>2 DEF Partials
<1>5. s.partial \in Seq(Ids(g.arena)) /\ g.partial \in Seq(Ids(g.arena)) /\ Len(g.partial) = m
  BY <1>1, <1>4, SequenceKept, FunctionIsSequence
<1>6. PICK row :
        /\ Stacked(m, row, k - 1, s.partial)
        /\ \A i \in 1..(k - 1), c \in 1..m : MeansSlope(s.arena, rs[i], c, row[i][c])
  BY DEF RowsMean
<1> DEFINE more == [i \in 1..k |-> IF i = k THEN g.partial ELSE row[i]]
<1>7. more[k] = g.partial /\ \A i \in 1..(k - 1) : more[i] = row[i]
  OBVIOUS
<1> HIDE DEF more
<1>8. Stacked(m, more, k - 1, s.partial)
  BY ONLY <1>6, <1>7 DEF Stacked
<1>9. Stacked(m, more, k, t.partial)
  <2>1. g.partial = more[k]
    BY <1>7
  <2>. QED BY <1>1, <1>3, <1>5, <1>8, <2>1, RowStacked
<1>10. ASSUME NEW i \in 1..k, NEW c \in 1..m PROVE MeansSlope(t.arena, rs[i], c, more[i][c])
  <2>1. CASE i = k
    <3>1. MeansSlope(g.arena, rs[k], c, g.partial[c])
      BY <1>2 DEF NamesSlopes, MeansSlope
    <3>. QED BY ONLY <1>3, <1>7, <2>1, <3>1
  <2>2. CASE i # k
    <3>1. i \in 1..(k - 1)
      BY <2>2
    <3>2. MeansSlope(s.arena, rs[i], c, row[i][c])
      BY <1>6, <3>1
    <3>3. MeansSlope(g.arena, rs[i], c, row[i][c])
      BY <1>1, <1>4, <3>2, MeaningGrows
    <3>. QED BY ONLY <1>3, <1>7, <3>1, <3>3
  <2>. QED BY <2>1, <2>2
<1>. QED BY <1>9, <1>10 DEF RowsMean

LEMMA JacobianMeans ==
  ASSUME CalculusLaws(Smooth), NEW B, Sound(B), NodesOnce(B), NEW rs \in Seq(Ids(B)),
         NEW j, j = Jacobian(B, rs)
  PROVE  PartialsMean(j.arena, rs, j.partial)
<1> DEFINE n == Len(rs)
           m == Len(B.symbols)
<1>0. n \in Nat /\ m \in Nat
  BY DEF Sound, Arenas
<1>1. PICK f : JacobianRun(B, rs, f) /\ j = f[n]
  BY JacobianRuns
<1> DEFINE P(s, k) == RowsMean(m, rs, k, s)
           G == [k \in 0..n |-> {s \in {f[i] : i \in 0..n} : P(s, k)}]
<1>2. f[0] \in G[0]
  <2>1. f[0].partial = <<>>
    BY <1>1 DEF JacobianRun
  <2>2. Stacked(m, <<>>, 0, f[0].partial)
    BY <1>0, <2>1 DEF Stacked
  <2>3. P(f[0], 0)
    BY <2>2 DEF RowsMean
  <2> HIDE DEF P
  <2>. QED BY <1>0, <2>3
<1>3. ASSUME NEW k \in 1..n, f[k - 1] \in G[k - 1] PROVE f[k] \in G[k]
  <2>1. k - 1 \in 0..n /\ k \in 0..n /\ P(f[k - 1], k - 1) /\ k \in Nat \ {0} /\ rs[k] \in Ids(B)
    BY <1>0, <1>3
  <2>2. Columns(B, f[k - 1]) /\ f[k] = NextRow(f[k - 1], rs, k)
    BY <1>1, <2>1 DEF JacobianRun
  <2>3. P(f[k], k)
    BY <2>1, <2>2, NextRowMeans
  <2> HIDE DEF P
  <2>. QED BY <2>1, <2>3
<1>4. P(j, n)
  <2> HIDE DEF G, n, P
  <2>1. \A k \in 0..n : f[k] \in G[k]
    BY <1>0, <1>2, <1>3, LoopInvariant
  <2>. QED BY <1>0, <1>1, <2>1 DEF G
<1>5. Columns(B, j)
  BY JacobianAnswers
<1>6. rs \in Seq(Ids(j.arena)) /\ j.partial \in Seq(Ids(j.arena)) /\ Len(j.arena.symbols) = m
  BY <1>5, SequenceKept DEF Columns, Keeps
<1>7. PICK row :
        /\ Stacked(m, row, n, j.partial)
        /\ \A i \in 1..n, c \in 1..m : MeansSlope(j.arena, rs[i], c, row[i][c])
  BY <1>4 DEF RowsMean
<1>8. Len(j.partial) = n * m
  BY <1>7 DEF Stacked
<1>9. ASSUME NEW i \in 1..n, NEW c \in 1..m
      PROVE  MeansSlope(j.arena, rs[i], c, j.partial[(i - 1) * m + c])
  <2>1. j.partial[(i - 1) * m + c] = row[i][c]
    BY <1>7 DEF Stacked
  <2>. QED BY <1>7, <2>1
<1>10. DOMAIN rs = 1..n
  OBVIOUS
<1> HIDE DEF n, m
<1>. QED BY <1>6, <1>8, <1>9, <1>10 DEF PartialsMean, n

(* A Hessian's entries are second derivatives, and its rows laid one behind  *)
(* another are columns that scatter to it.                                   *)
LEMMA HessianSays ==
  ASSUME CalculusLaws(Smooth), CalculusLaws(Duals),
         NEW B, Sound(B), NodesOnce(B), NEW r \in Ids(B), NEW h, h = HessianOf(B, r)
  PROVE  BlockMeans(h.arena, r, h) /\ ColumnsMean(h.arena, r, Flattened(h))
<1> DEFINE C == h.arena
           m == Len(B.symbols)
<1>1. PICK d : Complete(C, r, d, h) /\ h.color = GreedyColors(h.rows, [j \in DOMAIN h.rows |-> j])
  BY HessianMeans
<1>2. Block(B, h) /\ m \in Nat
  BY HessianAnswers DEF Sound, Arenas
<1>3. /\ Sound(C) /\ C.symbols = B.symbols
      /\ h.compressed \in Seq([1..m -> Ids(C)]) /\ h.zero \in Ids(C)
  BY <1>2 DEF Block, Keeps
<1> HIDE DEF C
<1>4. /\ r \in Ids(C) /\ ZeroNamed(C, h.zero) /\ PatternKept(C, r, h.rows)
      /\ Pattern(m, h.rows) /\ h.color \in [1..m -> 1..m] /\ NoGap(m, h.color)
      /\ Len(h.compressed) = ColorCount(h.color)
  BY <1>1, <1>3 DEF Complete, Grounded, Painted
<1>5. h.rows = CouplingPattern(C, r)
  <2>1. PICK A : Sound(A) /\ Keeps(A, C) /\ r \in Ids(A) /\ h.rows = CouplingPattern(A, r)
    BY <1>4 DEF PatternKept
  <2>. QED BY <2>1, PatternAgain
<1> HIDE DEF m
<1>6. \A j \in 1..m : h.color[j] \in 1..Len(h.compressed)
  BY <1>2, <1>4, ColorsCounted
<1>7. h.color \in [1..m -> 1..Len(h.compressed)]
  BY <1>4, <1>6
<1>8. ASSUME NEW i \in 1..m, NEW j \in 1..m PROVE Entry(h, i, j) \in Ids(C)
  <2>1. h.color[j] \in 1..Len(h.compressed)
    BY <1>6
  <2>2. h.compressed[h.color[j]] \in [1..m -> Ids(C)]
    BY ONLY <1>3, <2>1
  <2>3. h.compressed[h.color[j]][i] \in Ids(C)
    BY <2>2
  <2>. QED BY <1>3, <2>3 DEF Entry
<1>9. ASSUME NEW i \in 1..m, NEW j \in 1..m PROVE MeansBend(C, r, i, j, Entry(h, i, j))
  <2> SUFFICES ASSUME NEW D, Keeps(C, D), NEW p \in PointFor(Smooth, D),
                      SecondDerivative(D, p, i, j, r) # NaN
               PROVE  ValuesAt(Smooth, D, p)[Entry(h, i, j)] = SecondDerivative(D, p, i, j, r)
    BY DEF MeansBend
  <2>1. i \in 1..Len(D.symbols) /\ j \in 1..Len(D.symbols) /\ Keeps(h.arena, D)
    BY <1>3 DEF Keeps, C, m
  <2>. QED BY <2>1, SecondsNamed
<1>10. BlockMeans(C, r, h)
  <2>1. Len(C.symbols) = m
    BY <1>3 DEF m
  <2>. QED BY <1>4, <1>8, <1>9, <2>1 DEF BlockMeans
<1>11. /\ Flattened(h) \in Seq(Ids(C))
       /\ Stacked(m, h.compressed, Len(h.compressed), Flattened(h))
  <2> DEFINE S == Ids(C)
  <2>1. h.compressed \in Seq([1..m -> S])
    BY <1>3
  <2> HIDE DEF S
  <2>2. Flattened(h) \in Seq(S) /\ Stacked(m, h.compressed, Len(h.compressed), Flattened(h))
    BY <1>2, <2>1, FlattenedReads
  <2>. QED BY <2>2 DEF S
<1>12. Scatters(C, r, h, Flattened(h))
  <2>1. Len(C.symbols) = m
    BY <1>3 DEF m
  <2>. QED BY <1>1, <1>4, <1>5, <1>7, <1>10, <1>11, <2>1 DEF Scatters
<1>. QED BY <1>10, <1>12 DEF ColumnsMean, C

(* A block kept apart from its arena says the same. *)
LEMMA SameEntries ==
  ASSUME NEW B, NEW r, NEW h, NEW b, b.rows = h.rows, b.color = h.color,
         b.compressed = h.compressed, b.zero = h.zero, BlockMeans(B, r, h)
  PROVE  BlockMeans(B, r, b)
<1>1. \A i, j : Entry(b, i, j) = Entry(h, i, j)
  BY DEF Entry
<1>. QED BY <1>1 DEF BlockMeans

(* cached_hessians() forms a block for each function. *)
BlocksMean(B, rs, blocks) == \A k \in DOMAIN blocks : BlockMeans(B, rs[k], blocks[k])
LEMMA NextBlockMeans ==
  ASSUME CalculusLaws(Smooth), CalculusLaws(Duals), NEW B, Sound(B), NodesOnce(B),
         NEW T, NEW blocks \in Seq(T), NEW rs, BlocksMean(B, rs, blocks),
         NEW k, k = Len(blocks) + 1, rs[k] \in Ids(B), NEW h, h = HessianOf(B, rs[k]),
         NEW b, b = [h EXCEPT !.arena = EmptyArena]
  PROVE  BlocksMean(h.arena, rs, Append(blocks, b))
<1>1. BlockMeans(h.arena, rs[k], h) /\ Block(B, h)
  BY HessianSays, HessianAnswers
<1>2. Keeps(B, h.arena) /\ h \in Blocks(Len(B.symbols))
  BY <1>1 DEF Block
<1>3. /\ b.rows = h.rows /\ b.color = h.color /\ b.compressed = h.compressed /\ b.zero = h.zero
  BY <1>2 DEF Blocks
<1>4. BlockMeans(h.arena, rs[k], b)
  BY <1>1, <1>3, SameEntries
<1> DEFINE bs == Append(blocks, b)
<1>5. /\ DOMAIN bs = 1..k /\ DOMAIN blocks = 1..(k - 1) /\ bs[k] = b
      /\ \A i \in 1..(k - 1) : bs[i] = blocks[i]
  OBVIOUS
<1> HIDE DEF bs
<1>6. ASSUME NEW i \in 1..k PROVE BlockMeans(h.arena, rs[i], bs[i])
  <2>1. CASE i = k
    BY <1>4, <1>5, <2>1
  <2>2. CASE i # k
    <3>1. i \in 1..(k - 1)
      BY <2>2
    <3>2. BlockMeans(B, rs[i], blocks[i])
      BY <1>5, <3>1 DEF BlocksMean
    <3>3. BlockMeans(h.arena, rs[i], blocks[i])
      BY <1>2, <3>2, BlockMeansStill
    <3>. QED BY <1>5, <3>1, <3>3
  <2>. QED BY <2>1, <2>2
<1>. QED BY <1>5, <1>6 DEF BlocksMean, bs

LEMMA FormedMeans ==
  ASSUME CalculusLaws(Smooth), CalculusLaws(Duals), Sound(arena), NodesOnce(arena),
         roots \in Seq(Ids(arena))
  PROVE  BlocksMean(FormedHessians.arena, roots, FormedHessians.blocks)
<1> DEFINE n == Len(roots)
<1>0. n \in Nat
  OBVIOUS
<1>1. PICK f : BlockRun(f) /\ FormedHessians = f[n]
  BY FormedHessiansRuns
<1> DEFINE P(s, k) == BlocksMean(s.arena, roots, s.blocks)
           G == [k \in 0..n |-> {s \in {f[i] : i \in 0..n} : P(s, k)}]
<1>2. f[0] \in G[0]
  <2>1. f[0].blocks = <<>>
    BY <1>1 DEF BlockRun
  <2>2. P(f[0], 0)
    BY <2>1 DEF BlocksMean
  <2> HIDE DEF P
  <2>. QED BY <1>0, <2>2
<1>3. ASSUME NEW k \in 1..n, f[k - 1] \in G[k - 1] PROVE f[k] \in G[k]
  <2> DEFINE s == f[k - 1]
             h == HessianOf(s.arena, roots[k])
             b == [h EXCEPT !.arena = EmptyArena]
  <2>1. k - 1 \in 0..n /\ k \in 0..n /\ P(s, k - 1) /\ roots[k] \in Ids(arena)
    BY <1>0, <1>3
  <2>2. f[k] = NextBlock(s, roots, k) /\ Formed(s) /\ Len(s.blocks) = k - 1
    BY <1>1, <2>1 DEF BlockRun
  <2>3. f[k] = [arena |-> h.arena, blocks |-> Append(s.blocks, b)]
    BY <2>2 DEF NextBlock, WithBlock
  <2>4. /\ Sound(s.arena) /\ NodesOnce(s.arena) /\ roots[k] \in Ids(s.arena)
        /\ s.blocks \in Seq(Blocks(Len(arena.symbols))) /\ k = Len(s.blocks) + 1
        /\ BlocksMean(s.arena, roots, s.blocks)
    <3>1. Keeps(arena, s.arena) /\ s.blocks \in Seq(Blocks(Len(arena.symbols)))
      BY <2>2 DEF Formed
    <3>2. Ids(arena) \subseteq Ids(s.arena) /\ Sound(s.arena) /\ NodesOnce(s.arena)
      BY <3>1, IdsGrow DEF Keeps
    <3> HIDE DEF s
    <3>. QED BY <1>0, <2>1, <2>2, <3>1, <3>2
  <2>5. BlocksMean(h.arena, roots, Append(s.blocks, b))
    <3> DEFINE T == Blocks(Len(arena.symbols))
    <3>1. s.blocks \in Seq(T)
      BY <2>4
    <3> HIDE DEF s, h, b, T, P, G
    <3>. QED BY <2>4, <3>1, NextBlockMeans DEF h, b
  <2>6. P(f[k], k)
    BY <2>3, <2>5
  <2> HIDE DEF P
  <2>. QED BY <2>1, <2>6
<1>4. P(f[n], n)
  <2> HIDE DEF G, n, P
  <2>1. \A k \in 0..n : f[k] \in G[k]
    BY <1>0, <1>2, <1>3, LoopInvariant
  <2>. QED BY <1>0, <1>1, <2>1 DEF G
<1>. QED BY <1>1, <1>4

-----------------------------------------------------------------------------
(* A graph's columns, block by block in the order a GraphBuilder lays them. *)
LEMMA PartIs ==
  ASSUME NEW S, NEW u, u \in Seq(S), NEW a \in Nat, NEW n \in Nat, a + n <= Len(u)
  PROVE  LET part == SubSeq(u, a + 1, a + n)
         IN  part \in Seq(S) /\ Len(part) = n /\ \A i \in 1..n : part[i] = u[a + i]
<1> DEFINE part == SubSeq(u, a + 1, a + n)
<1>1. Len(u) \in Nat /\ \A i \in 1..Len(u) : u[i] \in S
  OBVIOUS
<1>2. part = [i \in 1..((a + n) - (a + 1) + 1) |-> u[(i + (a + 1)) - 1]]
  BY SMT
<1>3. (a + n) - (a + 1) + 1 = n /\ \A i \in 1..n : (i + (a + 1)) - 1 = a + i
        /\ a + i \in 1..Len(u)
  BY <1>1
<1>4. part = [i \in 1..n |-> u[a + i]]
  BY ONLY <1>2, <1>3
<1>5. \A i \in 1..n : part[i] = u[a + i] /\ part[i] \in S
  BY ONLY <1>1, <1>3, <1>4
<1>6. part \in Seq(S) /\ Len(part) = n
  BY ONLY <1>1, <1>3, <1>4, n \in Nat
<1>. QED BY <1>5, <1>6

LEMMA PartReads ==
  ASSUME NEW S, NEW u, u \in Seq(S), NEW t, t \in Seq(S), NEW a \in Nat, a + Len(t) <= Len(u),
         \A i \in 1..Len(t) : u[a + i] = t[i]
  PROVE  SubSeq(u, a + 1, a + Len(t)) = t
<1> DEFINE n == Len(t)
           part == SubSeq(u, a + 1, a + n)
<1>1. n \in Nat /\ Len(u) \in Nat /\ a + n <= Len(u)
  OBVIOUS
<1> HIDE DEF n
<1>2. part \in Seq(S) /\ Len(part) = n /\ \A i \in 1..n : part[i] = u[a + i]
  BY ONLY <1>1, u \in Seq(S), a \in Nat, PartIs DEF part
<1>3. t \in Seq(S) /\ Len(t) = n /\ \A i \in 1..n : u[a + i] = t[i]
  BY DEF n
<1> HIDE DEF part
<1>4. \A i \in 1..n : part[i] = t[i]
  BY <1>2, <1>3
<1>5. part = t
  BY <1>2, <1>3, <1>4
<1>. QED BY <1>5 DEF part, n

LEMMA ConcatReads ==
  ASSUME NEW S, NEW s, s \in Seq(S), NEW t, t \in Seq(S)
  PROVE  /\ s \o t \in Seq(S) /\ Len(s \o t) = Len(s) + Len(t)
         /\ \A i \in 1..Len(s) : (s \o t)[i] = s[i]
         /\ \A i \in 1..Len(t) : (s \o t)[Len(s) + i] = t[i]
  OBVIOUS

Sections(gb, f, g, h) ==
  /\ gb.outputs = (f \o g) \o h
  /\ gb.layout = [values |-> Len(f), jacobian |-> Len(g), hessian |-> Len(h)]
LEMMA SectionsRead ==
  ASSUME NEW S, NEW f, f \in Seq(S), NEW g, g \in Seq(S), NEW h, h \in Seq(S), f # <<>>,
         NEW gb, Sections(gb, f, g, h)
  PROVE  /\ BlocksOf(Build(gb)).f = f /\ BlocksOf(Build(gb)).g = g /\ BlocksOf(Build(gb)).h = h
         /\ gb.outputs \in Seq(S) /\ Len(gb.outputs) = Len(f) + Len(g) + Len(h)
<1> DEFINE u == (f \o g) \o h
           a == Len(f)
           b == Len(g)
           c == Len(h)
           graph == Build(gb)
<1>1. a \in Nat /\ b \in Nat /\ c \in Nat /\ a # 0
  OBVIOUS
<1>2. /\ u \in Seq(S) /\ Len(u) = a + b + c
      /\ \A i \in 1..a : u[i] = f[i]
      /\ \A i \in 1..b : u[a + i] = g[i]
      /\ \A i \in 1..c : u[(a + b) + i] = h[i]
  <2> DEFINE v == f \o g
  <2>1. /\ v \in Seq(S) /\ Len(v) = a + b /\ \A i \in 1..a : v[i] = f[i]
        /\ \A i \in 1..b : v[a + i] = g[i]
    BY ConcatReads
  <2> HIDE DEF v
  <2>2. v \in Seq(S) /\ h \in Seq(S)
    BY <2>1
  <2>3. /\ v \o h \in Seq(S) /\ Len(v \o h) = Len(v) + Len(h)
        /\ \A i \in 1..Len(v) : (v \o h)[i] = v[i]
        /\ \A i \in 1..Len(h) : (v \o h)[Len(v) + i] = h[i]
    BY ONLY <2>2, ConcatReads
  <2>4. u = v \o h
    BY DEF v
  <2> HIDE DEF u, a, b
  <2>5. u \in Seq(S) /\ Len(u) = a + b + c
    BY <1>1, <2>1, <2>3, <2>4
  <2>6. \A i \in 1..c : u[(a + b) + i] = h[i]
    BY <2>1, <2>3, <2>4
  <2> HIDE DEF c
  <2>7. \A i \in 1..a : u[i] = f[i]
    BY <1>1, <2>1, <2>3, <2>4
  <2>8. \A i \in 1..b : u[a + i] = g[i]
    BY <1>1, <2>1, <2>3, <2>4
  <2>. QED BY <2>5, <2>6, <2>7, <2>8
<1>3. /\ graph.outputs = u /\ graph.values = a /\ graph.jacobian = b /\ graph.hessian = c
  <2>1. /\ gb.outputs = u /\ gb.layout.values = a /\ gb.layout.jacobian = b
        /\ gb.layout.hessian = c
    BY DEF Sections
  <2> HIDE DEF u, a, b, c
  <2>. QED BY <1>1, <2>1 DEF Build, FreezeGraph
<1> HIDE DEF u, graph
<1>4. SubSeq(u, 1, a) = f
  <2>1. 0 + Len(f) <= Len(u) /\ 0 \in Nat /\ \A i \in 1..Len(f) : u[0 + i] = f[i]
    BY <1>1, <1>2
  <2>2. SubSeq(u, 0 + 1, 0 + Len(f)) = f
    BY <1>2, <2>1, PartReads
  <2>. QED BY <1>1, <2>2
<1>5. SubSeq(u, a + 1, a + b) = g
  <2>1. a + Len(g) <= Len(u) /\ \A i \in 1..Len(g) : u[a + i] = g[i]
    BY <1>1, <1>2
  <2> HIDE DEF a
  <2>. QED BY <1>1, <1>2, <2>1, PartReads
<1>6. SubSeq(u, (a + b) + 1, (a + b) + c) = h
  <2>1. a + b \in Nat /\ (a + b) + Len(h) <= Len(u) /\ \A i \in 1..Len(h) : u[(a + b) + i] = h[i]
    BY <1>1, <1>2
  <2> HIDE DEF a, b
  <2>. QED BY <1>1, <1>2, <2>1, PartReads
<1> HIDE DEF a, b, c
<1>7. BlocksOf(graph).f = f /\ BlocksOf(graph).g = g /\ BlocksOf(graph).h = h
  BY <1>3, <1>4, <1>5, <1>6 DEF BlocksOf
<1>8. gb.outputs = u
  BY DEF Sections, u
<1>. QED BY <1>2, <1>7, <1>8 DEF graph, a, b, c

(* What a builder has laid out so far stands for what it was asked for. *)
Composed(given, rs, gb, f, g, h) ==
  /\ Sound(gb.arena) /\ NodesOnce(gb.arena)
  /\ gb.roots = rs /\ rs \in Seq(Ids(gb.arena)) /\ rs # <<>> /\ f # <<>>
  /\ f \in Seq(Ids(gb.arena)) /\ g \in Seq(Ids(gb.arena)) /\ h \in Seq(Ids(gb.arena))
  /\ Sections(gb, f, g, h)
  /\ ValuesMean(gb.arena, given, f) /\ Len(given) <= Len(f)
  /\ g # <<>> => PartialsMean(gb.arena, rs, g)
  /\ h # <<>> => ColumnsMean(gb.arena, rs[1], h)

LEMMA ComposedReads ==
  ASSUME NEW given, NEW rs, NEW gb, NEW f, NEW g, NEW h, Composed(given, rs, gb, f, g, h),
         PartialsMean(gb.arena, rs, g)
  PROVE  /\ LaidOut(gb) /\ LayoutMeans(gb.arena, given, rs, BlocksOf(Build(gb)))
         /\ BlocksOf(Build(gb)).h = h
<1> DEFINE S == Ids(gb.arena)
           blocks == BlocksOf(Build(gb))
<1>1. /\ f \in Seq(S) /\ g \in Seq(S) /\ h \in Seq(S) /\ f # <<>> /\ Sections(gb, f, g, h)
  BY DEF Composed
<1> HIDE DEF S
<1>2. /\ blocks.f = f /\ blocks.g = g /\ blocks.h = h
      /\ gb.outputs \in Seq(S) /\ Len(gb.outputs) = Len(f) + Len(g) + Len(h)
  BY <1>1, SectionsRead
<1> HIDE DEF blocks
<1>3. gb.layout = [values |-> Len(f), jacobian |-> Len(g), hessian |-> Len(h)]
  BY <1>1 DEF Sections
<1>4. Len(f) \in Nat /\ Len(g) \in Nat /\ Len(h) \in Nat
  BY <1>1
<1>5. LaidOut(gb)
  BY <1>2, <1>3, <1>4 DEF LaidOut, Composed, S
<1>6. LayoutMeans(gb.arena, given, rs, blocks)
  BY <1>2 DEF LayoutMeans, Composed
<1>. QED BY <1>2, <1>5, <1>6 DEF blocks

LEMMA ComposedValues ==
  ASSUME NEW given, NEW B, Sound(B), NodesOnce(B), NEW rs, rs # <<>>, ValuesMean(B, given, rs),
         given \in Seq([e : Expr, poisoned : BOOLEAN]), Len(rs) = Len(given)
  PROVE  Composed(given, rs, ValuesFrom(GraphBuilder(B), rs), rs, <<>>, <<>>)
<1> DEFINE gb == ValuesFrom(GraphBuilder(B), rs)
<1>1. /\ gb.arena = B /\ gb.outputs = rs /\ gb.roots = rs
      /\ gb.layout = [values |-> Len(rs), jacobian |-> 0, hessian |-> 0]
  BY DEF ValuesFrom, GraphBuilder, NoLayout
<1> HIDE DEF gb
<1> DEFINE S == Ids(B)
<1>2. rs \in Seq(S)
  BY DEF ValuesMean
<1> HIDE DEF S
<1>3. rs = (rs \o <<>>) \o <<>>
  BY <1>2
<1>4. Sections(gb, rs, <<>>, <<>>)
  BY <1>1, <1>3 DEF Sections
<1>5. <<>> \in Seq(S) /\ Len(given) <= Len(rs)
  OBVIOUS
<1>. QED BY <1>1, <1>2, <1>4, <1>5 DEF Composed, gb, S

(* An empty block behind what there is adds nothing. *)
LEMMA NothingBehind ==
  ASSUME NEW S, NEW f, f \in Seq(S), NEW g, g \in Seq(S)
  PROVE  (f \o g) \o <<>> = f \o g /\ (f \o <<>>) \o <<>> = f
<1>1. \A s \in Seq(S) : s \o <<>> = s
  OBVIOUS
<1>2. f \o g \in Seq(S)
  BY ConcatReads
<1>. QED BY <1>1, <1>2

LEMMA ComposedPartials ==
  ASSUME NEW given, NEW rs, NEW gb, NEW f, Composed(given, rs, gb, f, <<>>, <<>>),
         NEW C, Keeps(gb.arena, C), NEW g, PartialsMean(C, rs, g), NEW t,
         t = WithBlockOf(gb, C, g, [gb.layout EXCEPT !.jacobian = Len(g)])
  PROVE  Composed(given, rs, t, f, g, <<>>) /\ PartialsMean(t.arena, rs, g)
<1>1. /\ Sound(gb.arena) /\ NodesOnce(gb.arena) /\ gb.roots = rs /\ rs # <<>> /\ f # <<>>
      /\ rs \in Seq(Ids(gb.arena)) /\ f \in Seq(Ids(gb.arena)) /\ ValuesMean(gb.arena, given, f)
      /\ Len(given) <= Len(f)
      /\ Sections(gb, f, <<>>, <<>>)
  BY DEF Composed
<1>2. /\ Sound(C) /\ NodesOnce(C) /\ rs \in Seq(Ids(C)) /\ f \in Seq(Ids(C))
      /\ ValuesMean(C, given, f) /\ g \in Seq(Ids(C))
  BY <1>1, SequenceKept, ValuesMeanStill DEF Keeps, PartialsMean
<1>3. /\ t.arena = C /\ t.roots = rs /\ t.outputs = gb.outputs \o g
      /\ t.layout = [gb.layout EXCEPT !.jacobian = Len(g)]
  BY <1>1 DEF WithBlockOf
<1> DEFINE S == Ids(C)
<1>4. f \in Seq(S) /\ g \in Seq(S) /\ <<>> \in Seq(S)
  BY <1>2
<1>5. gb.outputs = f /\ t.outputs = (f \o g) \o <<>>
  <2> HIDE DEF S
  <2>1. gb.outputs = (f \o <<>>) \o <<>>
    BY <1>1 DEF Sections
  <2>2. (f \o <<>>) \o <<>> = f /\ (f \o g) \o <<>> = f \o g
    BY ONLY <1>4, NothingBehind
  <2>. QED BY ONLY <1>3, <2>1, <2>2
<1>6. t.layout = [values |-> Len(f), jacobian |-> Len(g), hessian |-> Len(<<>>)]
  <2>1. gb.layout = [values |-> Len(f), jacobian |-> Len(<<>>), hessian |-> Len(<<>>)]
    BY <1>1 DEF Sections
  <2>. QED BY <1>3, <2>1
<1>7. Sections(t, f, g, <<>>)
  BY <1>5, <1>6 DEF Sections
<1>. QED BY <1>1, <1>2, <1>3, <1>4, <1>7 DEF Composed

LEMMA ComposedJacobian ==
  ASSUME CalculusLaws(Smooth),
         NEW given, NEW rs, NEW gb, NEW f, Composed(given, rs, gb, f, <<>>, <<>>)
  PROVE  \E g : /\ Composed(given, rs, GraphJacobian(gb), f, g, <<>>)
               /\ PartialsMean(GraphJacobian(gb).arena, rs, g)
<1> DEFINE j == Jacobian(gb.arena, gb.roots)
<1>1. Sound(gb.arena) /\ NodesOnce(gb.arena) /\ gb.roots = rs /\ rs \in Seq(Ids(gb.arena))
  BY DEF Composed
<1>2. Columns(gb.arena, j) /\ PartialsMean(j.arena, rs, j.partial)
  BY <1>1, JacobianAnswers, JacobianMeans
<1>3. GraphJacobian(gb)
        = WithBlockOf(gb, j.arena, j.partial, [gb.layout EXCEPT !.jacobian = Len(j.partial)])
  BY DEF GraphJacobian
<1> HIDE DEF j
<1>4. /\ Composed(given, rs, GraphJacobian(gb), f, j.partial, <<>>)
      /\ PartialsMean(GraphJacobian(gb).arena, rs, j.partial)
  BY <1>2, <1>3, ComposedPartials DEF Columns
<1>. QED BY <1>4

LEMMA ComposedHessian ==
  ASSUME CalculusLaws(Smooth), CalculusLaws(Duals),
         NEW given, NEW rs, NEW gb, NEW f, NEW g, Composed(given, rs, gb, f, g, <<>>),
         PartialsMean(gb.arena, rs, g)
  PROVE  \E h : /\ Composed(given, rs, GraphHessian(gb), f, g, h)
               /\ PartialsMean(GraphHessian(gb).arena, rs, g)
               /\ ColumnsMean(GraphHessian(gb).arena, rs[1], h)
<1> DEFINE H == HessianOf(gb.arena, gb.roots[1])
           C == H.arena
           h == Flattened(H)
           t == GraphHessian(gb)
<1>1. /\ Sound(gb.arena) /\ NodesOnce(gb.arena) /\ gb.roots = rs /\ rs # <<>> /\ f # <<>>
      /\ rs \in Seq(Ids(gb.arena)) /\ f \in Seq(Ids(gb.arena)) /\ g \in Seq(Ids(gb.arena))
      /\ ValuesMean(gb.arena, given, f) /\ Len(given) <= Len(f) /\ Sections(gb, f, g, <<>>)
  BY DEF Composed
<1>2. rs[1] \in Ids(gb.arena)
  BY <1>1
<1>3. Block(gb.arena, H) /\ ColumnsMean(C, rs[1], h)
  BY <1>1, <1>2, HessianAnswers, HessianSays
<1>4. /\ t.arena = C /\ t.roots = rs /\ t.outputs = gb.outputs \o h
      /\ t.layout = [gb.layout EXCEPT !.hessian = Len(h)]
  BY <1>1 DEF GraphHessian, WithBlockOf
<1> HIDE DEF H, h, t, C
<1>5. Keeps(gb.arena, C)
  BY <1>3 DEF Block, C
<1>6. /\ Sound(C) /\ NodesOnce(C) /\ rs \in Seq(Ids(C)) /\ f \in Seq(Ids(C)) /\ g \in Seq(Ids(C))
      /\ ValuesMean(C, given, f) /\ Len(given) <= Len(f)
      /\ PartialsMean(C, rs, g)
  BY <1>1, <1>5, SequenceKept, ValuesMeanStill, PartialsMeanStill DEF Keeps
<1>7. h \in Seq(Ids(C))
  BY <1>3 DEF ColumnsMean, Scatters
<1>8. Sections(t, f, g, h)
  <2> DEFINE S == Ids(C)
  <2>1. f \in Seq(S) /\ g \in Seq(S)
    BY <1>6
  <2> HIDE DEF S
  <2>2. gb.outputs = (f \o g) \o <<>>
          /\ gb.layout = [values |-> Len(f), jacobian |-> Len(g), hessian |-> Len(<<>>)]
    BY <1>1 DEF Sections
  <2>3. gb.outputs = f \o g
    BY <2>1, <2>2, NothingBehind
  <2>4. t.layout = [values |-> Len(f), jacobian |-> Len(g), hessian |-> Len(h)]
    BY <1>4, <2>2
  <2>. QED BY <1>4, <2>3, <2>4 DEF Sections
<1>9. Composed(given, rs, t, f, g, h)
  <2>1. /\ t.arena = C /\ t.roots = rs /\ rs # <<>> /\ f # <<>>
        /\ h # <<>> => ColumnsMean(C, rs[1], h)
    BY <1>1, <1>3, <1>4
  <2>. QED BY ONLY <1>6, <1>7, <1>8, <2>1 DEF Composed
<1>. QED BY <1>3, <1>4, <1>6, <1>9 DEF t

(* The first node as a column of its own, behind the functions'. *)
LEMMA ComposedFirstNode ==
  ASSUME NEW given, NEW rs, NEW gb, NEW f, Composed(given, rs, gb, f, <<>>, <<>>),
         given \in Seq([e : Expr, poisoned : BOOLEAN]), Len(f) = Len(given)
  PROVE  \E g : Composed(given, rs, GraphOutput(gb, At(1)), g, <<>>, <<>>)
<1> DEFINE one == Materialise(gb.arena, At(1))
           t == GraphOutput(gb, At(1))
           g == f \o <<1>>
           S == Ids(gb.arena)
<1>1. /\ Sound(gb.arena) /\ NodesOnce(gb.arena) /\ gb.roots = rs /\ rs # <<>> /\ f # <<>>
      /\ rs \in Seq(S) /\ f \in Seq(S) /\ ValuesMean(gb.arena, given, f)
      /\ Sections(gb, f, <<>>, <<>>)
  BY DEF Composed
<1>2. 1 \in S
  BY <1>1 DEF Ids
<1>3. one = [arena |-> gb.arena, id |-> 1]
  BY DEF Materialise, Existing, At, Pending, NoNode
<1>4. /\ t.arena = gb.arena /\ t.roots = rs /\ t.outputs = gb.outputs \o <<1>>
      /\ t.layout = [gb.layout EXCEPT !.values = @ + 1]
  <2>1. t = WithBlockOf(gb, one.arena, <<one.id>>, [gb.layout EXCEPT !.values = @ + 1])
    BY DEF GraphOutput
  <2> HIDE DEF one, t
  <2>2. t = [arena |-> one.arena, roots |-> gb.roots, outputs |-> gb.outputs \o <<one.id>>,
             layout |-> [gb.layout EXCEPT !.values = @ + 1]]
    BY <2>1 DEF WithBlockOf
  <2>3. one.arena = gb.arena /\ one.id = 1
    BY <1>3
  <2>. QED BY <1>1, <2>2, <2>3
<1> HIDE DEF S, one, t
<1>5. Len(f) \in Nat /\ <<1>> \in Seq(S) /\ <<>> \in Seq(S) /\ Len(<<1>>) = 1
  BY <1>1, <1>2
<1>6. /\ g \in Seq(S) /\ Len(g) = Len(f) + 1 /\ g[Len(f) + 1] = 1
      /\ \A i \in 1..Len(f) : g[i] = f[i]
  <2>1. /\ g \in Seq(S) /\ Len(g) = Len(f) + Len(<<1>>)
        /\ \A i \in 1..Len(f) : g[i] = f[i]
        /\ \A i \in 1..Len(<<1>>) : g[Len(f) + i] = <<1>>[i]
    BY ONLY <1>1, <1>5, ConcatReads
  <2>. QED BY <1>5, <2>1
<1>7. Sections(t, g, <<>>, <<>>)
  <2>1. gb.outputs = f /\ gb.layout =
          [values |-> Len(f), jacobian |-> Len(<<>>), hessian |-> Len(<<>>)]
    BY <1>1, NothingBehind DEF Sections
  <2>2. t.outputs = g
    BY <1>4, <2>1
  <2>3. t.outputs = (g \o <<>>) \o <<>>
    <3> HIDE DEF g
    <3>. QED BY <1>5, <1>6, <2>2, NothingBehind
  <2>4. t.layout = [values |-> Len(g), jacobian |-> Len(<<>>), hessian |-> Len(<<>>)]
    <3> HIDE DEF g
    <3>. QED BY <1>4, <1>6, <2>1
  <2>. QED BY <2>3, <2>4 DEF Sections
<1>8. ValuesMean(gb.arena, given, g)
  <2> HIDE DEF g
  <2>1. DOMAIN g = 1..(Len(f) + 1) /\ DOMAIN f = 1..Len(f) /\ DOMAIN given = 1..Len(f)
    BY <1>1, <1>5, <1>6
  <2>2. ASSUME NEW k \in DOMAIN g
        PROVE  IF k \in DOMAIN given THEN MeansValue(gb.arena, given[k].e, g[k]) ELSE g[k] = 1
    <3>1. CASE k \in 1..Len(f)
      BY <1>1, <1>6, <2>1, <3>1 DEF ValuesMean
    <3>2. CASE k = Len(f) + 1
      BY <1>5, <1>6, <2>1, <3>2
    <3>. QED BY <1>5, <2>1, <3>1, <3>2
  <2>. QED BY <1>6, <2>2 DEF ValuesMean, S
<1>9. g # <<>> /\ Len(given) <= Len(g)
  <2> HIDE DEF g
  <2>. QED BY <1>5, <1>6
<1>10. Composed(given, rs, t, g, <<>>, <<>>)
  <2> HIDE DEF g
  <2>. QED BY <1>1, <1>4, <1>5, <1>6, <1>7, <1>8, <1>9 DEF Composed, S
<1>. QED BY <1>10 DEF t

-----------------------------------------------------------------------------
(* A row is what is read, of the values at a point, by the ids of a layout.  *)

(* Numbers with their derivatives are computed as the numbers are.           *)
LEMMA SmoothInterprets ==
  ASSUME CalculusLaws(Smooth), NEW B, Sound(B), NEW at, at \in PointFor(Scalars, B), NEW vals,
         vals = ValuesAt(Scalars, B, at)
  PROVE  /\ at \in PointFor(Smooth, B) /\ DOMAIN at = 1..Len(at) /\ Len(at) = Len(B.symbols)
         /\ ValuesAt(Smooth, B, at) = vals /\ Numbers(Smooth, B, at, vals)
         /\ vals \in Seq(Scalar) /\ Len(vals) = Len(B.nodes)
<1>1. at \in [1..Len(B.symbols) -> Scalar] /\ at \in PointFor(Smooth, B)
  BY AmongScalars, SmoothReads DEF PointFor
<1>2. Len(B.symbols) \in Nat /\ Len(B.nodes) \in Nat
  BY DEF Sound, Arenas
<1>3. Len(at) = Len(B.symbols) /\ DOMAIN at = 1..Len(at)
  BY <1>1, <1>2, FunctionIsSequence
<1>4. Interprets(Scalars, B, at, vals)
  BY ValuesAnswers, ScalarsConvert
<1> DEFINE ours == ValuesAt(Smooth, B, at)
<1>5. Interprets(Smooth, B, at, ours)
  BY <1>1, ValuesAnswers DEF CalculusLaws, NumberLaws
<1> HIDE DEF ours
<1>6. Interprets(Smooth, B, at, vals)
  <2>1. /\ Smooth.all = Scalars.all /\ Smooth.of = Scalars.of
        /\ Smooth.one = Scalars.one /\ Smooth.two = Scalars.two
    BY DEF Smooth
  <2>2. ASSUME NEW v \in Ids(B), NEW n, n = B.nodes[v]
        PROVE  NodeValue(Smooth, n, vals, at) = NodeValue(Scalars, n, vals, at)
    BY ONLY <2>1 DEF NodeValue, On1, On2
  <2>. QED BY <1>4, <2>1, <2>2 DEF Interprets
<1>7. \A u \in Ids(B) : ours[u] = vals[u]
  <2>1. Keeps(B, B)
    BY ExtendsRefl
  <2>. QED BY <1>5, <1>6, <2>1, ValuesKept
<1>8. vals \in Seq(Scalar) /\ Len(vals) = Len(B.nodes)
        /\ ours \in Seq(Scalar) /\ Len(ours) = Len(B.nodes)
  BY <1>5, <1>6, SmoothReads DEF Interprets
<1>9. ours = vals
  BY <1>2, <1>7, <1>8 DEF Ids
<1>. QED BY <1>1, <1>3, <1>6, <1>8, <1>9 DEF Numbers, ours

LEMMA ReadAllReads ==
  ASSUME NEW B, Sound(B), NEW vals, vals \in Seq(Scalar), Len(vals) = Len(B.nodes),
         NEW ids, ids \in Seq(Ids(B)), NEW all, all = ReadAll(vals, ids)
  PROVE  /\ all \in Seq(Scalar) /\ Len(all) = Len(ids) /\ DOMAIN all = DOMAIN ids
         /\ \A k \in DOMAIN ids : all[k] = vals[ids[k]]
<1>1. /\ Len(ids) \in Nat /\ DOMAIN ids = 1..Len(ids) /\ DOMAIN vals = Ids(B)
      /\ \A k \in 1..Len(ids) : ids[k] \in Ids(B)
      /\ \A v \in Ids(B) : vals[v] \in Scalar
  BY DEF Ids
<1>2. /\ DOMAIN all = 1..Len(ids) /\ all \in [1..Len(ids) -> Scalar]
      /\ \A k \in 1..Len(ids) : all[k] = vals[ids[k]]
  BY ONLY <1>1, all = ReadAll(vals, ids) DEF ReadAll, Read
<1>. QED BY <1>1, <1>2, FunctionIsSequence

LEMMA NothingRead == \A vals : ReadAll(vals, <<>>) = <<>>
<1> SUFFICES ASSUME NEW vals PROVE ReadAll(vals, <<>>) = <<>>
  OBVIOUS
<1> DEFINE all == ReadAll(vals, <<>>)
<1>1. DOMAIN <<>> = 1..0 /\ 1..0 = {}
  OBVIOUS
<1>2. all \in [1..0 -> {}]
  BY <1>1 DEF ReadAll
<1> HIDE DEF all
<1>3. all \in Seq({}) /\ Len(all) = 0
  BY <1>2, FunctionIsSequence
<1>4. all = <<>>
  BY <1>3
<1>. QED BY <1>4 DEF all

LEMMA ValuesRead ==
  ASSUME CalculusLaws(Smooth), NEW B, Sound(B), NEW at, at \in PointFor(Scalars, B), NEW vals,
         vals = ValuesAt(Scalars, B, at), NEW given,
         given \in Seq([e : Expr, poisoned : BOOLEAN]),
         NEW f, ValuesMean(B, given, f)
  PROVE  AreValues(B, given, ReadAll(vals, f), at)
<1>1. ValuesAt(Smooth, B, at) = vals /\ Numbers(Smooth, B, at, vals) /\ vals \in Seq(Scalar)
        /\ Len(vals) = Len(B.nodes) /\ Keeps(B, B)
  BY SmoothInterprets, ExtendsRefl
<1>2. f \in Seq(Ids(B))
  BY DEF ValuesMean
<1> DEFINE all == ReadAll(vals, f)
<1>3. DOMAIN all = DOMAIN f /\ \A k \in DOMAIN f : all[k] = vals[f[k]]
  BY <1>1, <1>2, ReadAllReads
<1> HIDE DEF all
<1>4. ASSUME NEW k \in DOMAIN f
      PROVE  all[k] = IF k \in DOMAIN given THEN Meant(given[k].e, vals) ELSE vals[1]
  <2>1. CASE k \in DOMAIN given
    <3>1. vals[f[k]] = ValueOf(Smooth, vals, given[k].e)
      BY <1>1, <2>1 DEF ValuesMean, MeansValue
    <3>2. given[k].e \in Expr
      <4> DEFINE T == [e : Expr, poisoned : BOOLEAN]
      <4>1. given \in Seq(T)
        OBVIOUS
      <4>2. given[k] \in T
        <5> HIDE DEF T
        <5>. QED BY ONLY <2>1, <4>1
      <4>. QED BY <4>2
    <3>3. Pending(given[k].e) => Smooth.of[given[k].e.lit] = given[k].e.lit
      BY <3>2, SmoothReads DEF Expr, Pending
    <3>4. ValueOf(Smooth, vals, given[k].e) = Meant(given[k].e, vals)
      BY ONLY <3>3 DEF ValueOf, Meant
    <3>. QED BY <1>3, <2>1, <3>1, <3>4
  <2>2. CASE k \notin DOMAIN given
    BY <1>3, <2>2 DEF ValuesMean
  <2>. QED BY <2>1, <2>2
<1>. QED BY <1>1, <1>3, <1>4 DEF AreValues, all

LEMMA PartialsRead ==
  ASSUME CalculusLaws(Smooth), NEW B, Sound(B), NEW at, at \in PointFor(Scalars, B), NEW vals,
         vals = ValuesAt(Scalars, B, at), NEW rs, NEW g, PartialsMean(B, rs, g)
  PROVE  ArePartials(B, rs, ReadAll(vals, g), at)
<1>1. /\ ValuesAt(Smooth, B, at) = vals /\ vals \in Seq(Scalar) /\ Len(vals) = Len(B.nodes)
      /\ at \in PointFor(Smooth, B) /\ Keeps(B, B)
      /\ Len(at) = Len(B.symbols) /\ DOMAIN at = 1..Len(at)
  BY SmoothInterprets, ExtendsRefl
<1>2. g \in Seq(Ids(B)) /\ rs \in Seq(Ids(B)) /\ Len(g) = Len(rs) * Len(at) /\ Len(at) \in Nat
  BY <1>1 DEF PartialsMean, Sound, Arenas
<1> DEFINE all == ReadAll(vals, g)
           m == Len(at)
<1>3. Len(all) = Len(g) /\ \A k \in DOMAIN g : all[k] = vals[g[k]]
  BY <1>1, <1>2, ReadAllReads
<1> HIDE DEF all, m
<1>4. ASSUME NEW k \in DOMAIN rs, NEW j \in 1..m
      PROVE  Agrees(all[(k - 1) * m + j], TangentsAt(Smooth, B, vals, j, rs[k])[rs[k]])
  <2> DEFINE r == rs[k]
             u == TangentsAt(Smooth, B, vals, j, r)
             i == (k - 1) * m + j
  <2>1. k \in 1..Len(rs) /\ Len(rs) \in Nat /\ m \in Nat /\ Len(g) = Len(rs) * m
          /\ r \in Ids(B)
    BY <1>2 DEF m
  <2>2. i \in 1..(Len(rs) * m)
    <3> HIDE DEF r, u
    <3>. QED BY <2>1, RowIndex
  <2>3. i \in DOMAIN g
    <3> HIDE DEF r, u, i
    <3>. QED BY <1>2, <2>1, <2>2
  <2>4. r \in 0..Len(B.nodes)
    BY <2>1 DEF Ids
  <2>5. Reads(Smooth, r, B, at, vals, j, u)
    <3> HIDE DEF r
    <3>1. Reads(Smooth, r, B, at, ValuesAt(Smooth, B, at), j,
                TangentsAt(Smooth, B, ValuesAt(Smooth, B, at), j, r))
      BY ONLY CalculusLaws(Smooth), Sound(B), <1>1, <2>4, OwnReads
    <3>. QED BY <1>1, <3>1
  <2>6. MeansSlope(B, r, j, g[i])
    BY <1>1 DEF PartialsMean, m
  <2> HIDE DEF r, u, i
  <2>7. u[r] # Smooth.none => vals[g[i]] = u[r]
    BY <1>1, <2>5, <2>6 DEF MeansSlope
  <2>8. Smooth.none = NaN
    BY SmoothReads
  <2>9. Agrees(all[i], u[r])
    BY <1>3, <2>3, <2>7, <2>8 DEF Agrees
  <2>. QED BY <2>9 DEF r, u, i
<1>. QED BY <1>1, <1>2, <1>3, <1>4 DEF ArePartials, all, m

(* An entry of a block, read at the point. *)
LEMMA BendRead ==
  ASSUME CalculusLaws(Smooth), NEW B, Sound(B), NEW at, at \in PointFor(Scalars, B), NEW vals,
         vals = ValuesAt(Scalars, B, at), NEW r, NEW i, NEW j, NEW v, v \in Ids(B),
         MeansBend(B, r, i, j, v)
  PROVE  Read(vals, v) = vals[v] /\ Agrees(vals[v], SecondDerivative(B, at, i, j, r))
<1>1. /\ ValuesAt(Smooth, B, at) = vals /\ vals \in Seq(Scalar) /\ Len(vals) = Len(B.nodes)
      /\ at \in PointFor(Smooth, B) /\ Keeps(B, B)
  BY SmoothInterprets, ExtendsRefl
<1>2. DOMAIN vals = Ids(B)
  BY <1>1 DEF Ids
<1>. QED BY <1>1, <1>2 DEF MeansBend, Agrees, Read

LEMMA SecondsRead ==
  ASSUME CalculusLaws(Smooth), NEW B, Sound(B), NEW at, at \in PointFor(Scalars, B),
         NEW rs, NEW blocks, BlocksMean(B, rs, blocks), DOMAIN blocks = DOMAIN rs,
         NEW cached, cached.arena = B, cached.blocks = blocks
  PROVE  AreSeconds(B, rs, HessianRow(cached, at).h, at)
<1> DEFINE vals == ValuesAt(Scalars, B, at)
           h == HessianRow(cached, at).h
<1>1. Len(at) = Len(B.symbols) /\ DOMAIN at = 1..Len(at)
  BY SmoothInterprets
<1>2. h = [k \in DOMAIN blocks |->
             [i \in 1..Len(at) |-> [j \in 1..Len(at) |-> Read(vals, Entry(blocks[k], i, j))]]]
  BY DEF HessianRow, NoRow
<1> HIDE DEF vals, h
<1>3. ASSUME NEW k \in DOMAIN rs, NEW i \in DOMAIN at, NEW j \in DOMAIN at
      PROVE  Agrees(h[k][i][j], SecondDerivative(B, at, i, j, rs[k]))
  <2> DEFINE v == Entry(blocks[k], i, j)
  <2>1. h[k][i][j] = Read(vals, v)
    BY <1>1, <1>2
  <2>2. v \in Ids(B) /\ MeansBend(B, rs[k], i, j, v)
    BY <1>1 DEF BlocksMean, BlockMeans
  <2> HIDE DEF v
  <2>3. Read(vals, v) = vals[v] /\ Agrees(vals[v], SecondDerivative(B, at, i, j, rs[k]))
    BY <2>2, BendRead DEF vals
  <2>. QED BY <2>1, <2>3
<1>. QED BY <1>3 DEF AreSeconds, h

LEMMA ColumnsRead ==
  ASSUME CalculusLaws(Smooth), NEW B, Sound(B), NEW at, at \in PointFor(Scalars, B), NEW vals,
         vals = ValuesAt(Scalars, B, at), NEW r, NEW s, ColumnsMean(B, r, s)
  PROVE  AreColumns(B, r, ReadAll(vals, s), at)
<1>1. /\ Numbers(Smooth, B, at, vals) /\ vals \in Seq(Scalar) /\ Len(vals) = Len(B.nodes)
      /\ Len(at) = Len(B.symbols) /\ DOMAIN at = 1..Len(at) /\ Keeps(B, B)
  BY SmoothInterprets, ExtendsRefl
<1>2. PICK h : Scatters(B, r, h, s)
  BY DEF ColumnsMean
<1> DEFINE all == ReadAll(vals, s)
           m == Len(at)
           k == Len(h.compressed)
           scattered(i, j) == IF Target(h.rows, h.color, h.color[j], i) = j
                              THEN all[(h.color[j] - 1) * m + i] ELSE Zero
<1>3. /\ s \in Seq(Ids(B)) /\ Stacked(m, h.compressed, k, s) /\ BlockMeans(B, r, h)
      /\ h.color \in [1..m -> 1..k] /\ k = ColorCount(h.color) /\ ZeroNamed(B, h.zero)
  BY <1>1, <1>2 DEF Scatters
<1>4. /\ Len(all) = Len(s) /\ Len(s) = k * m
      /\ \A i \in DOMAIN s : all[i] = vals[s[i]]
  BY <1>1, <1>3, ReadAllReads DEF Stacked
<1>5. m \in Nat /\ k \in Nat
  <2>1. m \in Nat
    BY <1>1 DEF Sound, Arenas
  <2>2. ColorCount(h.color) \in Nat
    <3> DEFINE color == h.color
    <3>1. color \in [1..m -> 1..k]
      BY <1>3
    <3>2. IsFiniteSet({color[j] : j \in DOMAIN color})
      <4> DEFINE S == 1..m
      <4>1. IsFiniteSet(S)
        BY <2>1, FS_Interval
      <4>2. DOMAIN color = S
        BY <3>1
      <4> HIDE DEF color, S
      <4> DEFINE T == {color[j] : j \in S}
      <4>3. color \in Surjection(S, T)
        BY <3>1, <4>2 DEF Surjection
      <4> HIDE DEF T
      <4>4. IsFiniteSet(T)
        BY <4>1, <4>3, FS_Surjection
      <4>. QED BY <4>2, <4>4 DEF T
    <3>. QED BY <3>2, FS_CardinalityType DEF ColorCount
  <2>. QED BY <1>3, <2>1, <2>2
<1>6. vals[h.zero] = Zero
  BY <1>1, <1>3 DEF ZeroNamed
<1> HIDE DEF all, m, k
<1>7. ASSUME NEW i \in 1..m, NEW j \in 1..m
      PROVE  Agrees(scattered(i, j), SecondDerivative(B, at, i, j, r))
  <2> DEFINE v == Entry(h, i, j)
  <2>1. v \in Ids(B) /\ MeansBend(B, r, i, j, v)
    BY <1>1, <1>3 DEF BlockMeans, m
  <2>2. scattered(i, j) = vals[v]
    <3>1. CASE Target(h.rows, h.color, h.color[j], i) = j
      <4> DEFINE c == h.color[j]
                 x == (c - 1) * m + i
      <4>1. v = h.compressed[c][i] /\ scattered(i, j) = all[x] /\ c \in 1..k
        BY <1>3, <3>1 DEF Entry
      <4> HIDE DEF v, c
      <4>2. x \in 1..(k * m)
        BY <1>5, <4>1, RowIndex
      <4>3. s[x] = h.compressed[c][i]
        BY <1>3, <4>1 DEF Stacked
      <4> HIDE DEF x
      <4>4. x \in DOMAIN s
        BY <1>3, <1>4, <4>2
      <4>. QED BY <1>4, <4>1, <4>3, <4>4
    <3>2. CASE Target(h.rows, h.color, h.color[j], i) # j
      BY <1>6, <3>2 DEF Entry
    <3>. QED BY <3>1, <3>2
  <2> HIDE DEF v, scattered
  <2>3. Agrees(vals[v], SecondDerivative(B, at, i, j, r))
    BY <2>1, BendRead
  <2>. QED BY <2>2, <2>3
<1>8. /\ h.rows = CouplingPattern(B, r)
      /\ h.color = GreedyColors(h.rows, [j \in DOMAIN h.rows |-> j])
  BY <1>2 DEF Scatters
<1>9. Len(all) = ColorCount(h.color) * Len(at)
  BY <1>3, <1>4 DEF m
<1>10. \A i, j \in DOMAIN at : Agrees(scattered(i, j), SecondDerivative(B, at, i, j, r))
  BY <1>1, <1>7 DEF m
<1>. QED BY <1>8, <1>9, <1>10 DEF AreColumns, all, m

(* What a layout stands for, a row of its columns says. *)
RowMeans(B, given, rs, row, at) ==
  /\ AreValues(B, given, row.f, at) /\ Len(given) <= Len(row.f)
  /\ ArePartials(B, rs, row.g, at)
  /\ row.h # <<>> => AreColumns(B, rs[1], row.h, at)

LEMMA LengthRead ==
  ASSUME NEW vals, NEW ids
  PROVE  Len(ReadAll(vals, ids)) = Len(ids)
  BY DEF ReadAll

LEMMA LayoutRead ==
  ASSUME CalculusLaws(Smooth), NEW B, Sound(B), NEW at, at \in PointFor(Scalars, B),
         NEW given, given \in Seq([e : Expr, poisoned : BOOLEAN]), NEW rs, NEW graph,
         LayoutMeans(B, given, rs, BlocksOf(graph))
  PROVE  /\ RowMeans(B, given, rs, InterpretRow(B, graph, at), at)
         /\ ColumnsMean(B, rs[1], BlocksOf(graph).h) =>
              AreColumns(B, rs[1], InterpretRow(B, graph, at).h, at)
<1> DEFINE vals == ValuesAt(Scalars, B, at)
           blocks == BlocksOf(graph)
           row == InterpretRow(B, graph, at)
<1>1. /\ row.f = ReadAll(vals, blocks.f) /\ row.g = ReadAll(vals, blocks.g)
      /\ row.h = ReadAll(vals, blocks.h)
  BY DEF InterpretRow, Stored
<1>2. LayoutMeans(B, given, rs, blocks) /\ vals \in Seq(Scalar) /\ Len(vals) = Len(B.nodes)
  BY SmoothInterprets
<1>3. ReadAll(vals, <<>>) = <<>>
  BY NothingRead
<1> HIDE DEF row, blocks
<1>4. AreValues(B, given, row.f, at) /\ Len(given) <= Len(row.f)
  <2>1. Len(row.f) = Len(blocks.f)
    BY <1>1, LengthRead
  <2>. QED BY <1>1, <1>2, <2>1, ValuesRead DEF LayoutMeans
<1>5. ArePartials(B, rs, row.g, at)
  BY <1>1, <1>2, PartialsRead DEF LayoutMeans
<1>6. ASSUME row.h # <<>> PROVE AreColumns(B, rs[1], row.h, at)
  <2>1. blocks.h # <<>>
    BY ONLY <1>1, <1>3, <1>6
  <2>. QED BY <1>1, <1>2, <2>1, ColumnsRead DEF LayoutMeans
<1>7. ASSUME ColumnsMean(B, rs[1], blocks.h) PROVE AreColumns(B, rs[1], row.h, at)
  BY <1>1, <1>2, <1>7, ColumnsRead
<1>. QED BY <1>4, <1>5, <1>6, <1>7 DEF RowMeans, row, blocks

-----------------------------------------------------------------------------
(* The points: whatever spells one, it is a scalar for every symbol. *)

LEMMA LastIsOne ==
  ASSUME NEW n \in Nat, NEW S, S \subseteq 1..n, S # {}
  PROVE  LastOf(S) \in S
<1> DEFINE Topped(T) == \E j \in T : \A i \in T : i <= j
           P == {k \in Nat : \A T \in SUBSET (1..k) : T # {} => Topped(T)}
<1>1. 0 \in P
  <2>1. 1..0 = {}
    OBVIOUS
  <2> HIDE DEF Topped
  <2>. QED BY <2>1
<1>2. ASSUME NEW k \in Nat, k \in P PROVE k + 1 \in P
  <2>1. ASSUME NEW T \in SUBSET (1..(k + 1)), T # {} PROVE Topped(T)
    <3>1. CASE k + 1 \in T
      BY <3>1
    <3>2. CASE k + 1 \notin T
      <4>1. T \in SUBSET (1..k)
        BY <3>2
      <4>. QED BY <1>2, <2>1, <4>1
    <3>. QED BY <3>1, <3>2
  <2> HIDE DEF Topped
  <2>. QED BY <2>1
<1>3. \A k \in Nat : k \in P
  <2> HIDE DEF P
  <2>. QED BY <1>1, <1>2, SetInduction
<1>4. Topped(S)
  <2> HIDE DEF Topped
  <2>. QED BY <1>3
<1>. QED BY <1>4 DEF LastOf

LEMMA SpeltPoint ==
  ASSUME Sound(arena), NEW spelt \in Positional, Len(spelt) = arity
  PROVE  spelt \in PointFor(Scalars, arena)
<1>1. spelt \in Seq(Scalar) /\ DOMAIN spelt = 1..Len(spelt)
  BY PointsAssumption
<1>2. spelt \in [1..Len(spelt) -> Scalar]
  BY <1>1
<1>. QED BY <1>2, AmongScalars DEF PointFor, arity

LEMMA GivenPoint ==
  ASSUME Sound(arena), NEW point \in GivenPoints, point.status = "ok"
  PROVE  point.at \in PointFor(Scalars, arena)
<1>1. ASSUME NEW spelt \in Positional, point = PointOf(spelt)
      PROVE point.at \in PointFor(Scalars, arena)
  <2>1. Len(spelt) = arity /\ point.at = spelt
    BY <1>1 DEF PointOf
  <2>. QED BY <2>1, SpeltPoint
<1>2. ASSUME NEW pairs \in Named, point = NamedPointOf(pairs)
      PROVE  point.at \in PointFor(Scalars, arena)
  <2> DEFINE T == [name : Name, value : Scalar]
  <2>1. point.at = [s \in Slots(arena) |-> GivenLast(pairs, arena.symbols[s])]
    BY <1>2 DEF NamedPointOf
  <2>2. pairs \in Seq(T)
    BY PointsAssumption
  <2>3. \A k \in DOMAIN pairs : pairs[k] \in T
    <3> HIDE DEF T
    <3>. QED BY <2>2
  <2>4. ASSUME NEW name PROVE GivenLast(pairs, name) \in Scalar
    <3> DEFINE given == {k \in DOMAIN pairs : pairs[k].name = name}
    <3>1. CASE given = {}
      BY <3>1, ScalarAssumption DEF GivenLast
    <3>2. CASE given # {}
      <4>1. Len(pairs) \in Nat /\ given \subseteq 1..Len(pairs)
        BY <2>2
      <4>2. LastOf(given) \in given
        <5> HIDE DEF given
        <5>. QED BY <3>2, <4>1, LastIsOne
      <4>3. pairs[LastOf(given)].value \in Scalar
        BY <2>3, <4>2
      <4>. QED BY <3>2, <4>3 DEF GivenLast
    <3>. QED BY <3>1, <3>2
  <2>5. point.at \in [Slots(arena) -> Scalar]
    BY <2>1, <2>4
  <2>. QED BY <2>5, AmongScalars DEF PointFor, Slots
<1>. QED BY <1>1, <1>2 DEF GivenPoints

-----------------------------------------------------------------------------
(* The invariant: whatever the equation keeps ids for, they stand for what   *)
(* create() was given, in the arena as it is now.                            *)
FunctionsMean ==
  roots # <<>> =>
    /\ Len(roots) = Len(args)
    /\ ValuesMean(arena, args, roots)
    /\ PartialsMean(arena, roots, derivative)
GraphMeans ==
  compiled.frozen =>
    /\ LayoutMeans(arena, args, roots, BlocksOf(compiled.graph))
    /\ compiled.hasHessian => ColumnsMean(arena, roots[1], BlocksOf(compiled.graph).h)
MeaningInv ==
  /\ FunctionsMean
  /\ BlocksMean(arena, roots, hessians)
  /\ GraphMeans

LEMMA InitMeaningInv == Init => MeaningInv
  BY DEF Init, MeaningInv, FunctionsMean, BlocksMean, GraphMeans, NotCompiled

LEMMA BlocksMeanStill ==
  ASSUME NEW B, Sound(B), NEW C, Keeps(B, C), NEW rs, NEW blocks, BlocksMean(B, rs, blocks)
  PROVE  BlocksMean(C, rs, blocks)
  BY BlockMeansStill DEF BlocksMean

LEMMA MeaningKept ==
  ASSUME MeaningInv, Sound(arena), Keeps(arena, arena'), UNCHANGED <<args, roots, derivative>>
  PROVE  /\ FunctionsMean'
         /\ UNCHANGED hessians => BlocksMean(arena', roots', hessians')
         /\ UNCHANGED compiled => GraphMeans'
<1>1. FunctionsMean'
  BY ValuesMeanStill, PartialsMeanStill DEF MeaningInv, FunctionsMean
<1>2. ASSUME UNCHANGED hessians PROVE BlocksMean(arena', roots', hessians')
  <2>1. BlocksMean(arena', roots, hessians)
    BY BlocksMeanStill DEF MeaningInv
  <2>. QED BY <1>2, <2>1
<1>3. ASSUME UNCHANGED compiled PROVE GraphMeans'
  <2> DEFINE blocks == BlocksOf(compiled.graph)
  <2>1. ASSUME compiled.frozen
        PROVE  LayoutMeans(arena', args, roots, blocks)
    BY <2>1, LayoutMeansStill DEF MeaningInv, GraphMeans
  <2>2. ASSUME compiled.frozen, compiled.hasHessian
        PROVE  ColumnsMean(arena', roots[1], blocks.h)
    BY <2>2, ColumnsMeanStill DEF MeaningInv, GraphMeans
  <2>. QED BY <1>3, <2>1, <2>2 DEF GraphMeans
<1>. QED BY <1>1, <1>2, <1>3

LEMMA CreateMeans ==
  ASSUME CalculusLaws(Smooth), EquationInv, BatchInv, TwiceInv, Create
  PROVE  MeaningInv'
<1>1. PICK pass \in {RootIds} : \E j \in {Jacobian(pass.arena, pass.ids)} :
         arena' = j.arena /\ roots' = pass.ids /\ derivative' = j.partial
  BY DEF Create
<1> DEFINE j == Jacobian(pass.arena, pass.ids)
<1>2. arena' = j.arena /\ roots' = pass.ids /\ derivative' = j.partial
  BY <1>1
<1>3. UNCHANGED <<args, hessians, compiled>> /\ hessians = <<>> /\ ~compiled.frozen
  BY DEF Create, EquationInv, BatchInv
<1>4. /\ Keeps(arena, pass.arena) /\ Sound(pass.arena) /\ Len(pass.ids) = Len(args)
      /\ pass.ids \in Seq(Ids(pass.arena)) /\ ValuesMean(pass.arena, args, pass.ids)
  BY <1>1, RootIdsAnswers, RootsMean DEF EquationInv, Handed, Rooted, Keeps
<1>5. NodesOnce(pass.arena)
  BY <1>4 DEF TwiceInv, Keeps
<1>6. Columns(pass.arena, j) /\ PartialsMean(j.arena, pass.ids, j.partial)
  BY <1>4, <1>5, JacobianAnswers, JacobianMeans
<1> HIDE DEF j
<1>7. ValuesMean(j.arena, args, pass.ids)
  BY <1>4, <1>6, ValuesMeanStill DEF Columns
<1>8. FunctionsMean'
  BY <1>2, <1>3, <1>4, <1>6, <1>7 DEF FunctionsMean
<1>9. BlocksMean(arena', roots', hessians') /\ GraphMeans'
  BY <1>3 DEF BlocksMean, GraphMeans
<1>. QED BY <1>8, <1>9 DEF MeaningInv

LEMMA HessiansMean ==
  ASSUME CalculusLaws(Smooth), CalculusLaws(Duals), EquationInv, TwiceInv, MeaningInv,
         roots # <<>>, arena' = CachedHessians.arena, hessians' = CachedHessians.blocks,
         UNCHANGED <<args, roots, derivative, compiled>>
  PROVE  MeaningInv'
<1>0. Sound(arena) /\ roots \in Seq(Ids(arena)) /\ NodesOnce(arena)
  BY DEF EquationInv, Handed, RootsInv, TwiceInv
<1>1. Keeps(arena, arena')
  BY CachedAnswers DEF Formed
<1>2. BlocksMean(arena', roots', hessians')
  <2>1. CASE hessians # <<>>
    <3>1. UNCHANGED hessians
      BY <2>1 DEF CachedHessians
    <3>. QED BY <1>0, <1>1, <3>1, MeaningKept
  <2>2. CASE hessians = <<>>
    <3>1. arena' = FormedHessians.arena /\ hessians' = FormedHessians.blocks
      BY <2>2 DEF CachedHessians
    <3>. QED BY <1>0, <3>1, FormedMeans
  <2>. QED BY <2>1, <2>2
<1>. QED BY <1>0, <1>1, <1>2, MeaningKept DEF MeaningInv

(* The graph that freeze() builds. *)
LEMMA FirstOrderComposed ==
  ASSUME EquationInv, TwiceInv, MeaningInv, roots # <<>>
  PROVE  /\ Composed(args, roots, OwnValues, roots, <<>>, <<>>)
         /\ Composed(args, roots, FirstOrder, roots, derivative, <<>>)
         /\ PartialsMean(FirstOrder.arena, roots, derivative)
<1>1. /\ Sound(arena) /\ NodesOnce(arena) /\ ValuesMean(arena, args, roots)
      /\ PartialsMean(arena, roots, derivative) /\ Len(roots) = Len(args)
      /\ args \in Seq([e : Expr, poisoned : BOOLEAN])
  BY DEF EquationInv, Handed, TwiceInv, MeaningInv, FunctionsMean
<1>2. Composed(args, roots, OwnValues, roots, <<>>, <<>>) /\ OwnValues.arena = arena
  BY <1>1, ComposedValues DEF OwnValues, ValuesFrom, GraphBuilder
<1>3. Keeps(OwnValues.arena, arena)
  BY <1>1, <1>2, ExtendsRefl
<1>4. FirstOrder = WithBlockOf(OwnValues, arena, derivative,
                               [OwnValues.layout EXCEPT !.jacobian = Len(derivative)])
  BY <1>2 DEF FirstOrder, JacobianFrom, OwnValues
<1> HIDE DEF OwnValues
<1>5. /\ Composed(args, roots, FirstOrder, roots, derivative, <<>>)
      /\ PartialsMean(FirstOrder.arena, roots, derivative)
  BY ONLY <1>1, <1>2, <1>3, <1>4, ComposedPartials
<1>. QED BY <1>2, <1>5

LEMMA CompiledGrows ==
  ASSUME EquationInv, roots # <<>>, NEW want \in BOOLEAN, want => Len(roots) = 1,
         NEW c \in Compiled(want), Keep(c, want)
  PROVE  Keeps(arena, arena')
<1>0. Sound(arena) /\ roots \in Seq(Ids(arena)) /\ derivative \in Seq(Ids(arena))
        /\ Keeps(arena, arena) /\ arena' = c.arena
  BY ExtendsRefl DEF EquationInv, Handed, RootsInv, Keep
<1>1. LaidOut(FirstOrder) /\ FirstOrder.arena = arena
  BY <1>0, FirstOrderLaidOut
<1>2. CASE MustFreeze(want) /\ want
  <2>1. FirstOrder.roots = roots /\ FirstOrder.layout.hessian = 0
    BY DEF FirstOrder, JacobianFrom, WithBlockOf, ValuesFrom, GraphBuilder, NoLayout
  <2>2. roots[1] \in Ids(arena)
    BY <1>0
  <2>3. Keeps(arena, GraphHessian(FirstOrder).arena)
    BY <1>1, <2>1, <2>2, HessianLaidOut
  <2>. QED BY <1>0, <1>2, <2>3 DEF Compiled, Freeze, FrozenFrom
<1>3. CASE MustFreeze(want) /\ ~want
  BY <1>0, <1>1, <1>3 DEF Compiled, Freeze, FrozenFrom
<1>4. CASE ~MustFreeze(want)
  BY <1>0, <1>4 DEF Compiled
<1>. QED BY <1>2, <1>3, <1>4

LEMMA CompiledMeans ==
  ASSUME CalculusLaws(Smooth), CalculusLaws(Duals), EquationInv, TwiceInv, MeaningInv,
         roots # <<>>, NEW want \in BOOLEAN, NEW c \in Compiled(want), Keep(c, want),
         Keeps(arena, arena'), UNCHANGED <<args, roots, derivative, hessians>>
  PROVE  MeaningInv'
<1>0. Sound(arena)
  BY DEF EquationInv, Handed
<1>1. arena' = c.arena /\ compiled' = c.compiled
  BY DEF Keep
<1>2. CASE MustFreeze(want)
  <2> DEFINE gb == IF want THEN GraphHessian(FirstOrder) ELSE FirstOrder
  <2>1. arena' = gb.arena /\ compiled'.graph = Build(gb) /\ compiled'.hasHessian = want
    BY <1>1, <1>2 DEF Compiled, Freeze, FrozenFrom
  <2>3. /\ LayoutMeans(gb.arena, args, roots, BlocksOf(Build(gb)))
        /\ want => ColumnsMean(gb.arena, roots[1], BlocksOf(Build(gb)).h)
    <3>1. /\ Composed(args, roots, FirstOrder, roots, derivative, <<>>)
          /\ PartialsMean(FirstOrder.arena, roots, derivative)
      BY FirstOrderComposed
    <3>2. CASE want
      <4>1. gb = GraphHessian(FirstOrder)
        BY <3>2
      <4> HIDE DEF gb
      <4>2. PICK h : /\ Composed(args, roots, gb, roots, derivative, h)
                     /\ PartialsMean(gb.arena, roots, derivative)
                     /\ ColumnsMean(gb.arena, roots[1], h)
        BY <3>1, <4>1, ComposedHessian
      <4>. QED BY <4>2, ComposedReads
    <3>3. CASE ~want
      <4>1. gb = FirstOrder
        BY <3>3
      <4> HIDE DEF gb
      <4>. QED BY <3>1, <3>3, <4>1, ComposedReads
    <3>. QED BY <3>2, <3>3
  <2> HIDE DEF gb
  <2>4. GraphMeans'
    BY <2>1, <2>3 DEF GraphMeans
  <2>. QED BY <1>0, <2>4, MeaningKept DEF MeaningInv
<1>3. CASE ~MustFreeze(want)
  <2>1. UNCHANGED compiled
    BY <1>1, <1>3 DEF Compiled
  <2>. QED BY <1>0, <2>1, MeaningKept DEF MeaningInv
<1>. QED BY <1>2, <1>3

LEMMA OwnKernelMeans ==
  ASSUME CalculusLaws(Smooth), CalculusLaws(Duals), EquationInv, TwiceInv, MeaningInv,
         roots # <<>>,
         NEW gb, gb \in {GraphJacobian(GraphOutput(OwnValues, At(1))),
                         GraphHessian(GraphJacobian(OwnValues))}
  PROVE  LaidOut(gb) /\ LayoutMeans(gb.arena, args, roots, BlocksOf(Build(gb)))
<1>1. /\ Composed(args, roots, OwnValues, roots, <<>>, <<>>) /\ Len(roots) = Len(args)
      /\ args \in Seq([e : Expr, poisoned : BOOLEAN])
  BY FirstOrderComposed DEF EquationInv, Handed, MeaningInv, FunctionsMean
<1>2. \E f, g, h : Composed(args, roots, gb, f, g, h) /\ PartialsMean(gb.arena, roots, g)
  <2>1. CASE gb = GraphJacobian(GraphOutput(OwnValues, At(1)))
    <3>1. PICK f : Composed(args, roots, GraphOutput(OwnValues, At(1)), f, <<>>, <<>>)
      BY <1>1, ComposedFirstNode
    <3> DEFINE t == GraphJacobian(GraphOutput(OwnValues, At(1)))
    <3>2. \E g : Composed(args, roots, t, f, g, <<>>) /\ PartialsMean(t.arena, roots, g)
      BY <3>1, ComposedJacobian
    <3>. QED BY <2>1, <3>2
  <2>2. CASE gb = GraphHessian(GraphJacobian(OwnValues))
    <3> DEFINE first == GraphJacobian(OwnValues)
               t == GraphHessian(first)
    <3>1. PICK g : Composed(args, roots, first, roots, g, <<>>)
            /\ PartialsMean(first.arena, roots, g)
      BY <1>1, ComposedJacobian
    <3>2. \E h : Composed(args, roots, t, roots, g, h) /\ PartialsMean(t.arena, roots, g)
      BY <3>1, ComposedHessian
    <3>. QED BY <2>2, <3>2
  <2>. QED BY <2>1, <2>2
<1>. QED BY <1>2, ComposedReads

LEMMA StepMeaningInv ==
  ASSUME CalculusLaws(Smooth), CalculusLaws(Duals),
         MeaningInv, EquationInv, BatchInv, TwiceInv, [Next]_vars
  PROVE  MeaningInv'
<1>0. Sound(arena) /\ Keeps(arena, arena)
  BY ExtendsRefl DEF EquationInv, Handed
<1>1. ASSUME Keeps(arena, arena'), UNCHANGED <<args, roots, derivative, hessians, compiled>>
      PROVE  MeaningInv'
  BY <1>0, <1>1, MeaningKept DEF MeaningInv
<1>2. ASSUME UNCHANGED <<arena, args, roots, derivative, hessians, compiled>>
      PROVE  MeaningInv'
  BY <1>0, <1>1, <1>2
<1>3. CASE UNCHANGED vars
  BY <1>2, <1>3 DEF vars
<1>4. CASE CreateFails
  BY <1>2, <1>4 DEF CreateFails, caches, fixed
<1>5. CASE Create
  BY <1>5, CreateMeans
<1>6. CASE Len(roots) > 0 /\ Use
  <2>0. roots # <<>>
    BY <1>6
  <2>1. ASSUME NEW point \in GivenPoints, Evaluate(point) \/ HarvestJacobian(point)
        PROVE  MeaningInv'
    BY <1>2, <2>1 DEF Evaluate, HarvestJacobian, caches, fixed
  <2>2. ASSUME HessianColors(CachedHessians)
        PROVE  MeaningInv'
    BY <2>0, <2>2, HessiansMean DEF HessianColors, fixed
  <2>3. ASSUME NEW point \in GivenPoints, HessianAtPoint(CachedHessians, point)
        PROVE  MeaningInv'
    <3>1. UNCHANGED <<args, roots, derivative, compiled>>
      BY <2>3 DEF HessianAtPoint, fixed
    <3>2. CASE point.status = "ok"
      BY <2>0, <2>3, <3>1, <3>2, HessiansMean DEF HessianAtPoint
    <3>3. CASE point.status # "ok"
      BY <1>2, <2>3, <3>1, <3>3 DEF HessianAtPoint
    <3>. QED BY <3>2, <3>3
  <2>4. ASSUME NEW want \in BOOLEAN, OnGraph(want)
        PROVE  MeaningInv'
    <3>1. PICK c \in Compiled(want) : Keep(c, want)
      BY <2>4 DEF OnGraph
    <3>2. UNCHANGED <<args, roots, derivative, hessians>> /\ (want => Len(roots) = 1)
      BY <2>4 DEF OnGraph, fixed
    <3>3. Keeps(arena, arena')
      BY <2>0, <3>1, <3>2, CompiledGrows
    <3>. QED BY <2>0, <3>1, <3>2, <3>3, CompiledMeans
  <2>5. ASSUME NEW x0, UnivariateDerivative(x0)
        PROVE  MeaningInv'
    BY <1>2, <2>5 DEF UnivariateDerivative, caches, fixed
  <2>6. ASSUME NEW gb \in {GraphJacobian(GraphOutput(OwnValues, At(1))),
                 GraphHessian(GraphJacobian(OwnValues))},
               OwnKernel(gb)
        PROVE  MeaningInv'
    <3>1. Keeps(arena, gb.arena)
      BY <2>0, OwnKernelGrows
    <3>. QED BY <1>1, <2>6, <3>1 DEF OwnKernel
  <2>7. ASSUME NEW op, NEW a, NEW b, Grow(op, a, b),
               \/ op \in UnaryOps /\ a = roots[1] /\ b = NoNode
               \/ op \in BinaryOps /\ a = roots[1] /\ b \in Handles
        PROVE  MeaningInv'
    <3>1. Keeps(arena, arena')
      BY <2>0, <2>7, GrowGrows
    <3>. QED BY <1>1, <2>7, <3>1 DEF Grow
  <2>. QED BY <1>6, <2>1, <2>2, <2>3, <2>4, <2>5, <2>6, <2>7 DEF Use
<1>. QED BY <1>3, <1>4, <1>5, <1>6 DEF Next

(* What an equation's ids stand for outlives every call and every growth of  *)
(* its arena: roots are the functions create() was given, partials and       *)
(* blocks their derivatives, and so are the columns of the compiled graph.   *)
THEOREM MeaningInvariant ==
  ASSUME CalculusLaws(Smooth), CalculusLaws(Duals)
  PROVE  Spec => []MeaningInv
<1>1. MeaningInv /\ EquationInv /\ BatchInv /\ TwiceInv /\ [Next]_vars => MeaningInv'
  BY StepMeaningInv
<1>. QED BY <1>1, InitMeaningInv, EquationInvariant, BatchInvariant, TwiceInvariant, PTL DEF Spec

-----------------------------------------------------------------------------
(* The answers: each row is read off the arena as the call leaves it.        *)
LEMMA EveryRow ==
  ASSUME \A k \in DOMAIN answer'.rows :
           RowCorrect(arena', args', roots', answer'.kind, answer'.rows[k], answer'.at[k])
  PROVE  AnswersCorrect'
  BY DEF AnswersCorrect

LEMMA NoRows ==
  ASSUME answer'.rows = <<>>
  PROVE  AnswersCorrect'
<1>1. DOMAIN answer'.rows = {}
  OBVIOUS
<1>. QED BY <1>1, EveryRow

LEMMA OneRow ==
  ASSUME NEW kind, NEW row, NEW at, answer' = Reply(kind, <<at>>, <<row>>),
         RowCorrect(arena', args', roots', kind, row, at)
  PROVE  AnswersCorrect'
<1>1. answer'.kind = kind /\ answer'.rows = <<row>> /\ answer'.at = <<at>>
  BY DEF Reply
<1>2. ASSUME NEW k \in DOMAIN answer'.rows
      PROVE  RowCorrect(arena', args', roots', answer'.kind, answer'.rows[k], answer'.at[k])
  <2>1. DOMAIN <<row>> = 1..1 /\ <<row>>[1] = row /\ <<at>>[1] = at
    OBVIOUS
  <2>2. k = 1
    BY <1>1, <2>1
  <2>. QED BY ONLY <1>1, <2>1, <2>2, RowCorrect(arena', args', roots', kind, row, at)
<1>. QED BY <1>2, EveryRow

(* A graph of the equation's, or of the caller's, at one point. *)
Serves(B, given, rs, graph) ==
  /\ given \in Seq([e : Expr, poisoned : BOOLEAN])
  /\ LayoutMeans(B, given, rs, BlocksOf(graph))
  /\ \E gb : LaidOut(gb) /\ Keeps(gb.arena, B) /\ graph = Build(gb)
LEMMA GraphRow ==
  ASSUME CalculusLaws(Smooth), NEW B, NEW given, NEW rs, NEW graph, Serves(B, given, rs, graph),
         NEW at, at \in PointFor(Scalars, B), NEW kind, kind # "hessian",
         kind = "batch hessian" => ColumnsMean(B, rs[1], BlocksOf(graph).h)
  PROVE  /\ KernelRow(graph, at) = InterpretRow(B, graph, at)
         /\ RowCorrect(B, given, rs, kind, InterpretRow(B, graph, at), at)
<1>1. PICK gb : LaidOut(gb) /\ Keeps(gb.arena, B) /\ graph = Build(gb)
  BY DEF Serves
<1>2. Sound(B) /\ given \in Seq([e : Expr, poisoned : BOOLEAN])
        /\ LayoutMeans(B, given, rs, BlocksOf(graph))
  BY <1>1 DEF Keeps, Serves
<1>3. /\ RowMeans(B, given, rs, InterpretRow(B, graph, at), at)
      /\ kind = "batch hessian" => AreColumns(B, rs[1], InterpretRow(B, graph, at).h, at)
  BY <1>2, LayoutRead
<1>. QED BY <1>1, <1>3, RowsAgree DEF RowMeans, RowCorrect

LEMMA DispatchedRows ==
  ASSUME CalculusLaws(Smooth), EquationInv', MeaningInv', arena'.symbols = arena.symbols,
         NEW c, arena' = c.arena, compiled' = c.compiled, c.compiled.frozen,
         NEW kind, kind # "hessian", kind = "batch hessian" => c.compiled.hasHessian,
         NEW table \in Tables, NEW nf, NEW ng, NEW nh, NEW right,
         answer' = Dispatched(kind, c, table, nf, ng, nh, right)
  PROVE  AnswersCorrect'
<1> DEFINE graph == c.compiled.graph
           rows == [k \in DOMAIN table.rows |-> RunRow(c, table.rows[k])]
           fits == Fits(graph, table.width, nf, ng, nh)
           reply == IF fits THEN Reply(kind, table.rows, rows)
             ELSE Refuse(kind, "wrong_column_count")
<1>1. answer'.kind = reply.kind /\ answer'.rows = reply.rows /\ answer'.at = reply.at
  BY DEF Dispatched, Reply, Refuse
<1>2. CASE ~fits
  <2>1. answer'.rows = <<>>
    BY <1>1, <1>2 DEF Refuse
  <2>. QED BY <2>1, NoRows
<1>3. CASE fits
  <2>1. answer'.kind = kind /\ answer'.rows = rows /\ answer'.at = table.rows
    BY <1>1, <1>3 DEF Reply
  <2>2. table.width = arity
    BY <1>3 DEF Fits
  <2>3. /\ Serves(arena', args', roots', graph)
        /\ kind = "batch hessian" => ColumnsMean(arena', roots'[1], BlocksOf(graph).h)
    BY DEF EquationInv, Handed, MeaningInv, GraphMeans, GraphInv, Serves
  <2> HIDE DEF graph, rows, fits, reply
  <2>4. ASSUME NEW k \in DOMAIN rows
        PROVE  RowCorrect(arena', args', roots', kind, rows[k], table.rows[k])
    <3> DEFINE at == table.rows[k]
    <3>1. at \in PointFor(Scalars, arena') /\ k \in DOMAIN table.rows
      BY <2>2, PointsAssumption, AmongScalars DEF PointFor, arity, rows
    <3>2. rows[k] = IF c.compiled.kernel THEN KernelRow(graph, at)
            ELSE InterpretRow(arena', graph, at)
      BY <3>1 DEF rows, RunRow, graph
    <3> HIDE DEF at
    <3>3. /\ KernelRow(graph, at) = InterpretRow(arena', graph, at)
          /\ RowCorrect(arena', args', roots', kind, InterpretRow(arena', graph, at), at)
      BY ONLY CalculusLaws(Smooth), kind # "hessian", <2>3, <3>1, GraphRow
    <3>. QED BY <3>2, <3>3 DEF at
  <2>. QED BY <2>1, <2>4, EveryRow
<1>. QED BY <1>2, <1>3

LEMMA PointAnswers ==
  ASSUME CalculusLaws(Smooth), EquationInv, MeaningInv, roots # <<>>, NEW point \in GivenPoints,
         Evaluate(point) \/ HarvestJacobian(point)
  PROVE  AnswersCorrect'
<1> DEFINE vals == ValuesAt(Scalars, arena, point.at)
           f == ReadAll(vals, roots)
           g == ReadAll(vals, derivative)
<1>0. /\ Sound(arena) /\ args \in Seq([e : Expr, poisoned : BOOLEAN])
      /\ ValuesMean(arena, args, roots) /\ PartialsMean(arena, roots, derivative)
      /\ Len(roots) = Len(args) /\ UNCHANGED <<arena, args, roots>>
  BY DEF EquationInv, Handed, MeaningInv, FunctionsMean, Evaluate, HarvestJacobian, caches, fixed
<1>1. CASE point.status # "ok"
  <2>1. answer'.rows = <<>>
    BY <1>1 DEF Evaluate, HarvestJacobian, Answered, Refuse
  <2>. QED BY <2>1, NoRows
<1>2. CASE point.status = "ok"
  <2>1. point.at \in PointFor(Scalars, arena)
    BY <1>0, <1>2, GivenPoint
  <2>2. CASE Evaluate(point)
    <3> DEFINE row == [NoRow EXCEPT !.f = f]
    <3>1. answer' = Reply("evaluate", <<point.at>>, <<row>>)
      BY <1>2, <2>2 DEF Evaluate, Answered
    <3>2. row.f = f /\ row.g = <<>> /\ row.h = <<>>
      BY DEF NoRow
    <3>3. AreValues(arena, args, f, point.at) /\ Len(args) <= Len(f)
      <4>1. Len(f) = Len(args) /\ AreValues(arena, args, f, point.at)
        BY <1>0, <2>1, LengthRead, ValuesRead
      <4>2. Len(args) \in Nat
        <5> DEFINE H == [e : Expr, poisoned : BOOLEAN]
        <5>1. args \in Seq(H)
          BY <1>0
        <5> HIDE DEF H
        <5>. QED BY ONLY <5>1
      <4> HIDE DEF f
      <4>. QED BY ONLY <4>1, <4>2
    <3> HIDE DEF row, f
    <3>4. RowCorrect(arena', args', roots', "evaluate", row, point.at)
      BY <1>0, <3>2, <3>3 DEF RowCorrect
    <3>. QED BY <3>1, <3>4, OneRow
  <2>3. CASE HarvestJacobian(point)
    <3> DEFINE row == [NoRow EXCEPT !.g = g]
    <3>1. answer' = Reply("jacobian", <<point.at>>, <<row>>)
      BY <1>2, <2>3 DEF HarvestJacobian, Answered
    <3>2. row.f = <<>> /\ row.g = g /\ row.h = <<>>
      BY DEF NoRow
    <3>3. ArePartials(arena, roots, g, point.at)
      BY <1>0, <2>1, PartialsRead
    <3>4. AreValues(arena, args, <<>>, point.at)
      BY DEF AreValues
    <3> HIDE DEF row, g
    <3>5. RowCorrect(arena', args', roots', "jacobian", row, point.at)
      BY <1>0, <3>2, <3>3, <3>4 DEF RowCorrect
    <3>. QED BY <3>1, <3>5, OneRow
  <2>. QED BY <2>2, <2>3
<1>. QED BY <1>1, <1>2

LEMMA HessianAnswersPoint ==
  ASSUME CalculusLaws(Smooth), EquationInv, EquationInv', MeaningInv', roots # <<>>,
         NEW point \in GivenPoints, HessianAtPoint(CachedHessians, point)
  PROVE  AnswersCorrect'
<1>1. CASE point.status # "ok"
  <2>1. answer'.rows = <<>>
    BY <1>1 DEF HessianAtPoint, Refuse
  <2>. QED BY <2>1, NoRows
<1>2. CASE point.status = "ok"
  <2> DEFINE cached == CachedHessians
             row == HessianRow(cached, point.at)
  <2>1. /\ arena' = cached.arena /\ hessians' = cached.blocks /\ roots' = roots
        /\ answer' = Reply("hessian", <<point.at>>, <<row>>)
    BY <1>2 DEF HessianAtPoint, fixed
  <2>2. Sound(arena) /\ Keeps(arena, cached.arena) /\ Len(cached.blocks) = Len(roots)
          /\ roots \in Seq(Ids(arena))
    BY CachedAnswers DEF EquationInv, Handed, Formed, RootsInv
  <2>3. hessians' \in Seq(Blocks(Len(arena'.symbols))) /\ BlocksMean(arena', roots', hessians')
    BY DEF EquationInv, BlocksInv, MeaningInv
  <2> HIDE DEF cached
  <2>4. point.at \in PointFor(Scalars, arena)
    BY <1>2, <2>2, GivenPoint
  <2>5. point.at \in PointFor(Scalars, arena') /\ Sound(arena')
    BY <2>1, <2>2, <2>4 DEF PointFor, Keeps
  <2>6. DOMAIN hessians' = DOMAIN roots'
    <3> DEFINE T == Blocks(Len(arena'.symbols))
               S == Ids(arena)
    <3>1. hessians' \in Seq(T) /\ roots' \in Seq(S) /\ Len(hessians') = Len(roots')
      BY <2>1, <2>2, <2>3
    <3> HIDE DEF T, S
    <3>. QED BY <3>1
  <2>7. AreSeconds(arena', roots', row.h, point.at)
    BY <2>1, <2>3, <2>5, <2>6, SecondsRead
  <2>8. row.f = <<>> /\ row.g = <<>>
    BY DEF HessianRow, NoRow
  <2> HIDE DEF row
  <2>9. AreValues(arena', args', <<>>, point.at)
    BY DEF AreValues
  <2>10. RowCorrect(arena', args', roots', "hessian", row, point.at)
    BY <2>7, <2>8, <2>9 DEF RowCorrect
  <2>. QED BY <2>1, <2>10, OneRow
<1>. QED BY <1>1, <1>2

LEMMA GraphAnswers ==
  ASSUME CalculusLaws(Smooth), EquationInv, BatchInv, EquationInv', MeaningInv', roots # <<>>,
         NEW want \in BOOLEAN, OnGraph(want)
  PROVE  AnswersCorrect'
<1>1. PICK c \in Compiled(want) :
        /\ Keep(c, want)
        /\ BatchJacobian(c) \/ (want /\ BatchHessian(c)) \/ AskColumns(want)
  BY DEF OnGraph
<1>2. /\ UNCHANGED <<roots, derivative>> /\ (want => Len(roots) = 1) /\ Len(roots) # 0
      /\ arena' = c.arena /\ compiled' = c.compiled
  BY <1>1 DEF OnGraph, fixed, Keep, EquationInv, RootsInv
<1>3. Keeps(arena, arena')
  BY <1>1, <1>2, CompiledGrows
<1>4. c.compiled.frozen
  BY <1>1, <1>2, KeepsBatchInv
<1>5. arena'.symbols = arena.symbols
  BY <1>3 DEF Keeps
<1>6. CASE BatchJacobian(c)
  <2>1. PICK table \in Tables, nf \in Sizes(Len(roots)), ng \in Sizes(Len(derivative)) :
          answer' = Dispatched("batch jacobian", c, table, nf, ng, 0, 0)
    BY ONLY <1>6 DEF BatchJacobian
  <2> DEFINE kind == "batch jacobian"
  <2>2. /\ answer' = Dispatched(kind, c, table, nf, ng, 0, 0)
        /\ kind # "hessian" /\ kind # "batch hessian"
    BY <2>1
  <2> HIDE DEF kind
  <2>. QED BY ONLY CalculusLaws(Smooth), EquationInv', MeaningInv', <1>2, <1>4, <1>5, <2>2,
                   DispatchedRows
<1>7. want => c.compiled.hasHessian
  BY <1>1 DEF Compiled, MustFreeze, Freeze, FrozenFrom
<1>8. CASE want /\ BatchHessian(c)
  <2> DEFINE size == c.compiled.graph.hessian
  <2>1. PICK table \in Tables, nf \in Sizes(1), ng \in Sizes(Len(derivative)),
        nh \in Sizes(size) :
          answer' = Dispatched("batch hessian", c, table, nf, ng, nh, size)
    BY ONLY <1>8 DEF BatchHessian
  <2> DEFINE kind == "batch hessian"
  <2>2. /\ answer' = Dispatched(kind, c, table, nf, ng, nh, size) /\ kind # "hessian"
        /\ c.compiled.hasHessian
    BY <1>7, <1>8, <2>1
  <2> HIDE DEF size, kind
  <2>. QED BY ONLY CalculusLaws(Smooth), EquationInv', MeaningInv', <1>2, <1>4, <1>5, <2>2,
                   DispatchedRows
<1>9. CASE AskColumns(want)
  <2>1. answer'.rows = <<>>
    BY <1>9 DEF AskColumns, Reply
  <2>. QED BY <2>1, NoRows
<1>. QED BY <1>1, <1>6, <1>8, <1>9

LEMMA OwnKernelAnswers ==
  ASSUME CalculusLaws(Smooth), CalculusLaws(Duals), EquationInv, TwiceInv, MeaningInv,
         roots # <<>>,
         NEW gb, gb \in {GraphJacobian(GraphOutput(OwnValues, At(1))),
                         GraphHessian(GraphJacobian(OwnValues))},
         OwnKernel(gb)
  PROVE  AnswersCorrect'
<1> DEFINE graph == Build(gb)
<1>1. PICK at \in Positional :
        Len(at) = arity /\ answer' = Reply("kernel", <<at>>, <<KernelRow(graph, at)>>)
  BY DEF OwnKernel
<1>2. arena' = gb.arena /\ UNCHANGED <<args, roots>> /\ Keeps(arena, gb.arena) /\ Sound(arena)
  BY OwnKernelGrows DEF OwnKernel, EquationInv, Handed
<1>3. at \in PointFor(Scalars, arena')
  <2>1. at \in PointFor(Scalars, arena)
    BY <1>1, <1>2, SpeltPoint
  <2>. QED BY <1>2, <2>1 DEF PointFor, Keeps
<1>4. LaidOut(gb) /\ LayoutMeans(gb.arena, args, roots, BlocksOf(graph))
  BY OwnKernelMeans
<1>5. Serves(arena', args', roots', graph)
  <2>1. Keeps(gb.arena, arena') /\ args \in Seq([e : Expr, poisoned : BOOLEAN])
    BY <1>2, ExtendsRefl DEF EquationInv, Handed, Keeps
  <2>2. \E b : LaidOut(b) /\ Keeps(b.arena, arena') /\ graph = Build(b)
    BY <1>4, <2>1
  <2> HIDE DEF graph
  <2>. QED BY <1>2, <1>4, <2>1, <2>2 DEF Serves
<1> HIDE DEF graph
<1> DEFINE kind == "kernel"
<1>6. /\ kind # "hessian" /\ kind # "batch hessian"
      /\ answer' = Reply(kind, <<at>>, <<KernelRow(graph, at)>>)
  BY <1>1
<1> HIDE DEF kind
<1>7. RowCorrect(arena', args', roots', kind, KernelRow(graph, at), at)
  BY <1>3, <1>5, <1>6, GraphRow
<1>. QED BY <1>6, <1>7, OneRow

LEMMA StepAnswers ==
  ASSUME CalculusLaws(Smooth), CalculusLaws(Duals), MeaningInv, EquationInv, BatchInv, TwiceInv,
         MeaningInv', EquationInv', AnswersCorrect, [Next]_vars
  PROVE  AnswersCorrect'
<1>1. CASE UNCHANGED vars
  BY <1>1 DEF vars, AnswersCorrect, RowCorrect
<1>2. CASE CreateFails
  BY <1>2, NoRows DEF CreateFails, Refuse
<1>3. CASE Create
  BY <1>3, NoRows DEF Create, Reply
<1>4. CASE Len(roots) > 0 /\ Use
  <2>0. roots # <<>>
    BY <1>4
  <2>1. ASSUME NEW point \in GivenPoints, Evaluate(point) \/ HarvestJacobian(point)
        PROVE  AnswersCorrect'
    BY <2>0, <2>1, PointAnswers
  <2>2. ASSUME HessianColors(CachedHessians)
        PROVE  AnswersCorrect'
    BY <2>2, NoRows DEF HessianColors, Reply
  <2>3. ASSUME NEW point \in GivenPoints, HessianAtPoint(CachedHessians, point)
        PROVE  AnswersCorrect'
    BY <2>0, <2>3, HessianAnswersPoint
  <2>4. ASSUME NEW want \in BOOLEAN, OnGraph(want)
        PROVE  AnswersCorrect'
    BY <2>0, <2>4, GraphAnswers
  <2>5. ASSUME NEW x0, UnivariateDerivative(x0)
        PROVE  AnswersCorrect'
    <3>1. answer'.kind = "univariate"
      BY <2>5 DEF UnivariateDerivative, Reply, Refuse
    <3>. QED BY <3>1 DEF AnswersCorrect
  <2>6. ASSUME NEW gb \in {GraphJacobian(GraphOutput(OwnValues, At(1))),
                 GraphHessian(GraphJacobian(OwnValues))},
               OwnKernel(gb)
        PROVE  AnswersCorrect'
    BY <2>0, <2>6, OwnKernelAnswers
  <2>7. ASSUME NEW op, NEW a, NEW b, Grow(op, a, b)
        PROVE  AnswersCorrect'
    BY <2>7, NoRows DEF Grow, Reply
  <2>. QED BY <1>4, <2>1, <2>2, <2>3, <2>4, <2>5, <2>6, <2>7 DEF Use
<1>. QED BY <1>1, <1>2, <1>3, <1>4 DEF Next

(* Every row that any call answers with has all it is asked for and is       *)
(* right, where the functions have the derivatives at all: the values are    *)
(* those of the functions create() was given, the partials are their         *)
(* tangents and the blocks, per point or compressed, their second            *)
(* derivatives, at whatever point and in whatever numbers; whatever the      *)
(* calls before cached, froze, compiled or, in a borrowed arena, formed; and *)
(* from the interpreter as from a kernel.                                    *)
THEOREM EveryAnswerIsCorrect ==
  ASSUME CalculusLaws(Smooth), CalculusLaws(Duals)
  PROVE  Spec => []AnswersCorrect
<1>1. Init => AnswersCorrect
  BY DEF Init, AnswersCorrect, Refuse
<1>2. /\ MeaningInv /\ EquationInv /\ BatchInv /\ TwiceInv /\ MeaningInv' /\ EquationInv'
      /\ AnswersCorrect /\ [Next]_vars
      => AnswersCorrect'
  BY StepAnswers
<1>. QED
  BY <1>1, <1>2, MeaningInvariant, EquationInvariant, BatchInvariant, TwiceInvariant, PTL DEF Spec
=============================================================================
