------------------------------- MODULE Hessian ------------------------------
(***************************************************************************)
(* rt::Hessian (rt/derivative.hpp): second derivatives stored a row of n   *)
(* nodes per colour, and scattered to n x n on read.                       *)
(***************************************************************************)
EXTENDS Derivative, Coupling

(* Mutant: the sweep starts from one partial of the colour. *)
SeedOf_First(B, partial, color, c) ==
  Start(B, At(partial[CHOOSE j \in DOMAIN color : color[j] = c]))

(* The sum of a colour's partials, from the literal 0 and in column order.   *)
WithColumn(stage, column, chosen) ==
  IF chosen THEN Then(stage, "Add", At(column)) ELSE stage
SeedOf(B, partial, color, c) ==
  LET after[j \in 0..Len(color)] ==
        IF j = 0 THEN Start(B, Lit(Zero))
        ELSE WithColumn(after[j - 1], partial[j], color[j] = c)
  IN  after[Len(color)]

(* One colour's row: the reverse sweep from its seed. *)
RowFrom(seed) == ReverseGradient(seed.arena, seed.id)
ColorRow(B, partial, color, c) == RowFrom(IdOf(SeedOf(B, partial, color, c)))

(* Hessian::at(): the entry's colour, if this column is the one that owns    *)
(* the row there, and the zero node if not.                                  *)
Entry(h, i, j) ==
  IF Target(h.rows, h.color, h.color[j], i) = j THEN h.compressed[h.color[j]][i] ELSE h.zero

(* hessian(): the whole call, with the columns coloured in slot order.       *)
Uncompressed(rows, color, z) ==
  [arena |-> z.arena, rows |-> rows, color |-> color, compressed |-> <<>>, zero |-> z.id]
WithColorRow(h, row) ==
  [arena |-> row.arena, rows |-> h.rows, color |-> h.color,
   compressed |-> Append(h.compressed, row.partial), zero |-> h.zero]
NextColor(h, partial, c) == WithColorRow(h, ColorRow(h.arena, partial, h.color, c))
Compressed(h0, partial) == Iterated(NextColor, partial, h0, ColorCount(h0.color))
Colored(rows, z) == Uncompressed(rows, GreedyColors(rows, [j \in DOMAIN rows |-> j]), z)
HessianFrom(g, root) ==
  Compressed(Colored(CouplingPattern(g.arena, root), Constant(g.arena, Zero)), g.partial)
HessianOf(B, root) == HessianFrom(ReverseGradient(B, root), root)
=============================================================================
