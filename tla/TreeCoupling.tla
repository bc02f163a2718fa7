---------------------------- MODULE TreeCoupling ----------------------------
(***************************************************************************)
(* The Hessian's sparsity as a property of a tree's type                   *)
(* (drivers/coupling.hpp): the coupled pairs of symbols, a colouring of    *)
(* the columns, and the compressed-column layout.  A pattern is a set of   *)
(* pairs of indices into the tree's symbols.                               *)
(***************************************************************************)
EXTENDS TreeDerivative, FiniteSetsExt

IndexIn(symbols, s) == CHOOSE i \in DOMAIN symbols : symbols[i] = s

(* couple: both ways. *)
Couple(a, b) == (a \X b) \cup (b \X a)

(* coupling_of.  Symbols: a frozen variable differentiates to zero.  Rows:   *)
(* sums and negations bend nothing, and what is not known bends it all.      *)
RECURSIVE LiveSymbols(_)
LiveSymbols(t) ==
  IF IsVariable(t) THEN {s \in {t.label} : ~t.frozen}
  ELSE UNION {LiveSymbols(t.kids[i]) : i \in DOMAIN t.kids}

(* Mutant: a quotient taken for a product. *)
X_OwnPairs(op, live) ==
  CASE op = "+" \/ op = "-" -> {}
    [] op \in {"*", "/"} -> Couple(live[1], live[2])
    [] OTHER -> LET all == UNION {live[i] : i \in DOMAIN live} IN Couple(all, all)

OwnPairs(op, live) ==       \* live: the symbols of each operand
  CASE op = "+" \/ op = "-" -> {}
    [] op = "*" -> Couple(live[1], live[2])
    [] op = "/" -> Couple(live[1], live[2]) \cup Couple(live[2], live[2])
    [] OTHER -> LET all == UNION {live[i] : i \in DOMAIN live} IN Couple(all, all)

RECURSIVE CouplingOf(_)
CouplingOf(t) ==
  IF t.kids = <<>> THEN {}
  ELSE OwnPairs(t.op, [i \in DOMAIN t.kids |-> LiveSymbols(t.kids[i])])
         \cup UNION {CouplingOf(t.kids[i]) : i \in DOMAIN t.kids}

HessianPattern(t) ==
  LET symbols == Symbols(t)
  IN  {<<IndexIn(symbols, p[1]), IndexIn(symbols, p[2])>> : p \in CouplingOf(t)}

-----------------------------------------------------------------------------
(* color_columns: greedy, in index order, the least colour no column before   *)
(* it that shares a row has.                                                  *)
ShareARow(rows, j, k) == \E i \in {p[1] : p \in rows} : <<i, j>> \in rows /\ <<i, k>> \in rows
ColorColumns(rows, n) ==
  LET color[j \in 1..n] ==
        Min(1..n \ {color[k] : k \in {k \in 1..(j - 1) : ShareARow(rows, j, k)}})
  IN  color

NoColumn == 0

(* scatter_targets: the column a colour's sweep writes in row i, the last one *)
(* of that colour if the colouring let in two.                                *)
ScatterTarget(rows, color, c, i) ==
  LET columns == {j \in DOMAIN color : color[j] = c /\ <<i, j>> \in rows}
  IN  IF columns = {} THEN NoColumn ELSE Max(columns)

(* sparse_layout: the entries column by column, the rows of each ascending.   *)
Nnz(rows) == Cardinality(rows)
RowsOf(rows, j, n) == SelectSeq([i \in 1..n |-> i], LAMBDA i : <<i, j>> \in rows)
Outer(rows, j) == Cardinality({p \in rows : p[2] < j})
Inner(rows, n) == FlattenSeq([j \in 1..n |-> RowsOf(rows, j, n)])

(* compressed_entries: (column, row) of each slot.                            *)
Columns(rows, n) == FlattenSeq([j \in 1..n |-> [k \in 1..Len(RowsOf(rows, j, n)) |-> j]])
SlotsOf(rows, n, j) == (Outer(rows, j) + 1)..Outer(rows, j + 1)

(* sparse_slots, and sparse_slot_table: a structural zero is the sink's.      *)
SparseSlot(rows, n, color, c, i) ==
  LET slots == {k \in 1..Nnz(rows) : color[Columns(rows, n)[k]] = c /\ Inner(rows, n)[k] = i}
  IN  IF slots = {} THEN NoColumn ELSE Max(slots)
Sink(rows) == Nnz(rows) + 1
SlotTable(rows, n, i, j) ==
  LET slots == {k \in SlotsOf(rows, n, j) : Inner(rows, n)[k] = i}
  IN  IF slots = {} THEN Sink(rows) ELSE Max(slots)

=============================================================================
