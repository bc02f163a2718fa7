------------------------------- MODULE Points -------------------------------
(***************************************************************************)
(* The spellings of a point (expr/bound.hpp, and make_values of            *)
(* drivers/symbolic.hpp), all reduced to one number a symbol in canonical  *)
(* order.  Named values are a sequence of pairs of a symbol and a number;  *)
(* a missing or a doubled name does not compile.                           *)
(***************************************************************************)
EXTENDS TreeCoupling

NamesOf(named) == {named[j][1] : j \in DOMAIN named}

(* Mutant: the permutation the wrong way round. *)
X_ArgOfCanonical(named) ==
  [j \in DOMAIN named |-> IndexIn(InOrder(NamesOf(named)), named[j][1])]

(* arg_of_canonical: which argument supplies each slot. *)
ArgOfCanonical(named) ==
  LET slot(j) == IndexIn(InOrder(NamesOf(named)), named[j][1])
  IN  [i \in DOMAIN named |-> CHOOSE j \in DOMAIN named : slot(j) = i]

(* values(named...): a ValueMap. *)
Values(named) ==
  [symbols |-> InOrder(NamesOf(named)),
   slots |-> [i \in DOMAIN named |-> named[ArgOfCanonical(named)[i]][2]]]
Slot(map, s) == map.slots[IndexIn(map.symbols, s)]
Set(map, s, v) == [map EXCEPT !.slots[IndexIn(map.symbols, s)] = v]

(* make_point: by name, the map may have more; by position; off a range, which *)
(* may be too long, and is refused if too short.                               *)
Short == "short_point"
NamedPoint(symbols, map) == [i \in DOMAIN symbols |-> Slot(map, symbols[i])]
RangePoint(symbols, range) ==
  IF Len(range) < Len(symbols) THEN Short ELSE SubSeq(range, 1, Len(symbols))

(* Bound: where the map has each symbol of the expression. *)
SymbolPermutation(symbols, map) == [i \in DOMAIN symbols |-> IndexIn(map.symbols, symbols[i])]
BoundPoint(symbols, map) ==
  [i \in DOMAIN symbols |-> map.slots[SymbolPermutation(symbols, map)[i]]]

(* make_values: exactly the symbols, each filed where the list has it. *)
MakeValues(symbols, named) ==
  [i \in DOMAIN symbols |->
     named[CHOOSE j \in DOMAIN named : IndexIn(symbols, named[j][1]) = i][2]]

=============================================================================
