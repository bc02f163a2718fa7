---------------------------- MODULE HessianSweep ----------------------------
(***************************************************************************)
(* rt::hessian (rt/derivative.hpp): the gradient, the coupling pattern, a  *)
(* colouring, and then one reverse sweep per colour from the sum of that   *)
(* colour's partials, all over one builder.                                *)
(***************************************************************************)
EXTENDS Hessian, SecondOrder

CONSTANTS
  Models,  \* arenas; the function is the last node of each
  Points   \* where its second derivatives are read

ASSUME ModelsAssumption ==
  \A B \in Models : B \in Arenas /\ WellFormed(B) /\ NodesOnce(B) /\ B.nodes # <<>>

VARIABLES
  arena,       \* the builder
  pc,          \* "start", "color", "sweep" or "done"
  root,        \* f
  partial,     \* its gradient, by slot
  rows,        \* its coupling pattern
  color,       \* the colour of each column
  compressed,  \* a row of nodes for each colour swept so far
  zero         \* the node for what is structurally zero

vars == <<arena, pc, root, partial, rows, color, compressed, zero>>

Init ==
  /\ arena \in Models
  /\ root = Len(arena.nodes)
  /\ pc = "start"
  /\ partial = <<>> /\ rows = <<>> /\ color = <<>> /\ compressed = <<>>
  /\ zero = NoNode

Differentiate ==
  /\ pc = "start"
  /\ \E g \in {ReverseGradient(arena, root)} :
       LET z == Constant(g.arena, Zero)
       IN  /\ partial' = g.partial
           /\ rows' = CouplingPattern(g.arena, root)
           /\ arena' = z.arena
           /\ zero' = z.id
  /\ pc' = "color"
  /\ UNCHANGED <<root, color, compressed>>

ColorColumns(order) ==
  /\ pc = "color"
  /\ color' = GreedyColors(rows, order)
  /\ pc' = "sweep"
  /\ UNCHANGED <<arena, root, partial, rows, compressed, zero>>

SweepColor ==
  /\ pc = "sweep"
  /\ Len(compressed) < ColorCount(color)
  /\ \E row \in {ColorRow(arena, partial, color, Len(compressed) + 1)} :
       /\ arena' = row.arena
       /\ compressed' = Append(compressed, row.partial)
  /\ UNCHANGED <<pc, root, partial, rows, color, zero>>

Done ==
  /\ pc = "sweep"
  /\ Len(compressed) = ColorCount(color)
  /\ pc' = "done"
  /\ UNCHANGED <<arena, root, partial, rows, color, compressed, zero>>

Next ==
  \/ Differentiate
  \/ \E order \in Orders(Len(arena.symbols)) : ColorColumns(order)
  \/ SweepColor
  \/ Done

Spec == Init /\ [][Next]_vars

-----------------------------------------------------------------------------
(* What a caller reads at (i, j). *)
HessianAt(i, j) == Entry([rows |-> rows, color |-> color, compressed |-> compressed, zero |-> zero], i, j)

(* "Two columns share a colour only when no row couples them": a row of a    *)
(* compressed sweep is one second derivative and not the sum of two.         *)
ColumnsSeparate ==
  pc \in {"sweep", "done"} =>
    \A i \in DOMAIN rows : \A j, k \in rows[i] : color[j] = color[k] => j = k

(* at() never reads past the compressed rows: the colours are numbered       *)
(* without a gap, there is a row for each, and what it holds is a node.      *)
EntriesAreNodes ==
  pc = "done" =>
    \A i, j \in DOMAIN rows : color[j] \in DOMAIN compressed /\ HessianAt(i, j) \in Ids(arena)

-----------------------------------------------------------------------------
PointsHere == Points \cap PointFor(Smooth, arena)

(* A pair the coupling pattern leaves out has second derivative zero. *)
PatternConservative ==
  pc = "color" =>
    \A p \in PointsHere, i \in DOMAIN rows : \A j \in DOMAIN rows \ rows[i] :
      SecondDerivative(arena, p, i, j, root) \in {Zero, NaN}

(* Every entry a caller reads out of the compressed rows, structural zeros   *)
(* included, is the second derivative it stands for, whatever the colouring. *)
HessianCorrect ==
  pc = "done" =>
    \A p \in PointsHere :
      LET vals == ValuesAt(Smooth, arena, p)
      IN  \A i, j \in DOMAIN rows : \A d2 \in {SecondDerivative(arena, p, i, j, root)} :
            d2 # NaN => vals[HessianAt(i, j)] = d2
=============================================================================
