-------------------------------- MODULE Tree --------------------------------
(***************************************************************************)
(* The expression trees of expr/expressions.hpp and the operators of       *)
(* expr/values.hpp that build them, folded as simplify.hpp folds, for an   *)
(* arithmetic scalar.  A tree is an empty object and its type is all there *)
(* is of it, but for the numbers its stored constants hold.                *)
(***************************************************************************)
EXTENDS Integers, Sequences, SequencesExt

CONSTANTS
  Alphabet, Signs,          \* the labels, and the names of operations, in string order
  SAdd(_, _), SSub(_, _), SMul(_, _), SDiv(_, _), SNeg(_),   \* of scalars
  SEq(_, _),                                    \* == of scalars
  S(_)                                          \* the scalar an integer is

Lit(v) == [op |-> "Lit", value |-> v, kids |-> <<>>]
Constant(v) == [op |-> "Constant", value |-> v, kids |-> <<>>]
Variable(s, frozen) == [op |-> "Variable", label |-> s, frozen |-> frozen, kids |-> <<>>]
Node(op, kids) == [op |-> op, kids |-> kids]

IsLit(t) == t.op = "Lit"
IsConstant(t) == t.op \in {"Lit", "Constant"}
IsVariable(t) == t.op = "Variable"

(* Lit<T>, the storing form, holds its number outside its type. *)
RECURSIVE Type(_)
Type(t) ==
  IF t.op = "Constant" THEN [op |-> "Constant", kids |-> <<>>]
  ELSE [t EXCEPT !.kids = [i \in DOMAIN @ |-> Type(@[i])]]

RECURSIVE NodeCount(_)
NodeCount(t) == FoldSeq(LAMBDA kid, n : n + NodeCount(kid), 1, t.kids)

-----------------------------------------------------------------------------
LitEquals(t, n) == IsLit(t) /\ SEq(t.value, S(n))
IsZero(t) == LitEquals(t, 0)
IsOne(t) == LitEquals(t, 1)

(* Mutant: the operation below is compared and not its tree. *)
X_IsOver(q, x) == q.op = "/" /\ q.kids[2].op = x.op

(* is_over_v: the quotient q has exactly the tree x below. *)
IsOver(q, x) == q.op = "/" /\ Type(q.kids[2]) = Type(x)

(* simplify_node. *)
Product(a, b) ==
  IF IsZero(a) \/ IsZero(b) THEN Lit(S(0))
  ELSE IF IsOne(a) THEN b
  ELSE IF IsOne(b) THEN a
  ELSE IF IsOver(a, b) THEN a.kids[1]
  ELSE IF IsOver(b, a) THEN b.kids[1]
  ELSE Node("*", <<a, b>>)
Total(a, b) == IF IsZero(a) THEN b ELSE IF IsZero(b) THEN a ELSE Node("+", <<a, b>>)
Quotient(a, b) == IF IsZero(a) THEN Lit(S(0)) ELSE IF IsOne(b) THEN a ELSE Node("/", <<a, b>>)
Power(a, b) == IF IsZero(b) THEN Lit(S(1)) ELSE IF IsOne(b) THEN a ELSE Node("pow", <<a, b>>)
SimplifyNode(op, a, b) ==
  CASE op = "*" -> Product(a, b)
    [] op = "+" -> Total(a, b)
    [] op = "/" -> Quotient(a, b)
    [] op = "pow" -> Power(a, b)
    [] OTHER -> Node(op, <<a, b>>)

(* simplify_mono: -(-x) is x. *)
SimplifyMono(op, a) == IF op = "-" /\ a.op = "-" THEN a.kids[1] ELSE Node(op, <<a>>)

-----------------------------------------------------------------------------
(* The operators.  Two literals make a literal, two constants a constant. *)
Folded(op, v, w) ==
  CASE op = "+" -> SAdd(v, w)
    [] op = "-" -> SSub(v, w)
    [] op = "*" -> SMul(v, w)
    [] op = "/" -> SDiv(v, w)
Negated(a) == IF IsLit(a) THEN Lit(SNeg(a.value)) ELSE SimplifyMono("-", a)
Operated(op, a, b) ==
  CASE IsLit(a) /\ IsLit(b) -> Lit(Folded(op, a.value, b.value))
    [] IsConstant(a) /\ IsConstant(b) /\ ~(IsLit(a) /\ IsLit(b)) ->
         Constant(Folded(op, a.value, b.value))
    [] OTHER -> IF op = "-" THEN SimplifyNode("+", a, Negated(b)) ELSE SimplifyNode(op, a, b)

Plus(a, b) == Operated("+", a, b)
Minus(a, b) == Operated("-", a, b)
Times(a, b) == Operated("*", a, b)
Over(a, b) == Operated("/", a, b)

(* A function of one or two arguments is a node whatever they are. *)
Called(op, kids) == Node(op, kids)
Scalar(v) == Constant(v)        \* promote_scalar

Arithmetic == {"+", "-", "*", "/"}
Built(op, kids) ==
  CASE op \in Arithmetic /\ Len(kids) = 2 -> Operated(op, kids[1], kids[2])
    [] op = "-" /\ Len(kids) = 1 -> Negated(kids[1])
    [] OTHER -> Called(op, kids)

-----------------------------------------------------------------------------
(* order_key: constants, then symbols by name, then branches by size and op. *)
Kind(t) == IF IsVariable(t) THEN 1 ELSE IF t.kids = <<>> THEN 0 ELSE 2
Name(t) ==
  CASE Kind(t) = 0 -> 0
    [] Kind(t) = 1 -> CHOOSE i \in DOMAIN Alphabet : Alphabet[i] = t.label
    [] OTHER -> CHOOSE i \in DOMAIN Signs : Signs[i] = t.op
Before(a, b) ==
  \/ Kind(a) < Kind(b)
  \/ Kind(a) = Kind(b) /\ NodeCount(a) < NodeCount(b)
  \/ Kind(a) = Kind(b) /\ NodeCount(a) = NodeCount(b) /\ Name(a) < Name(b)

OrderedNode(op, kids) ==
  CASE Len(kids) = 1 -> SimplifyMono(op, kids[1])
    [] Len(kids) = 2 /\ op \in {"+", "*"} /\ Before(kids[2], kids[1]) ->
         SimplifyNode(op, kids[2], kids[1])
    [] OTHER -> SimplifyNode(op, kids[1], kids[2])

(* Mutant: top-down, so that a fold can bring up a redex already passed. *)
RECURSIVE X_Canonicalise(_)
X_Canonicalise(t) ==
  IF t.kids = <<>> THEN t
  ELSE LET u == OrderedNode(t.op, t.kids)
       IN  [u EXCEPT !.kids = [i \in DOMAIN @ |-> X_Canonicalise(@[i])]]

RECURSIVE Canonicalise(_)
Canonicalise(t) ==
  IF t.kids = <<>> THEN t
  ELSE OrderedNode(t.op, [i \in DOMAIN t.kids |-> Canonicalise(t.kids[i])])

=============================================================================
