--------------------------- MODULE TreeDerivative ---------------------------
(***************************************************************************)
(* The derivative rules of expr/operations.hpp, the freezing of symbols in *)
(* expr/traits.hpp, and the Jacobian row that Equation makes of the two.   *)
(***************************************************************************)
EXTENDS Tree

CONSTANTS SLn10, STwoInvSqrtPi

FunctionOf(op, u) == Called(op, <<u>>)
U == INSTANCE UnaryMath WITH
  UAdd <- Plus, USub <- Minus, UMul <- Times, UDiv <- Over, UNeg <- Negated,
  UFn <- FunctionOf, UNum <- Scalar,
  UInt <- S, ULn10 <- SLn10, UTwoInvSqrtPi <- STwoInvSqrtPi

Sign(u) == Called("sign", <<u>>)
Hypot(l, r) == Called("hypot", <<l, r>>)
Pow(l, r) == Called("pow", <<l, r>>)

(* UnaryOp::derivative. *)
Rule1(op, u, du) ==
  CASE op = "-" -> Negated(du)
    [] op = "sign" -> Lit(S(0))
    [] op = "abs" -> Times(Sign(u), du)
    [] OTHER -> Times(U!Deriv(op, u), du)

(* max and min: half the sum of the slopes, and half their gap to a side. *)
Halves(op, l, r, dl, dr) ==
  Over(Operated(op, Plus(dl, dr), Times(Sign(Minus(l, r)), Minus(dl, dr))), Lit(S(2)))

PowerRule(l, r, dl, dr) ==
  Plus(Times(Times(dr, Called("log", <<l>>)), Pow(l, r)),
       Times(Times(r, Pow(l, Minus(r, Lit(S(1))))), dl))

(* BinaryOp::derivative. *)
Rule2(op, l, r, dl, dr) ==
  CASE op = "+" -> Plus(dl, dr)
    [] op = "*" -> Plus(Times(dl, r), Times(l, dr))
    [] op = "/" -> Over(Minus(Times(dl, r), Times(l, dr)), Times(r, r))
    [] op = "pow" -> PowerRule(l, r, dl, dr)
    [] op = "atan2" -> Over(Over(Minus(Times(r, dl), Times(l, dr)), Hypot(l, r)), Hypot(l, r))
    [] op = "hypot" -> Over(Plus(Times(l, dl), Times(r, dr)), Hypot(l, r))
    [] op = "max" -> Halves("+", l, r, dl, dr)
    [] op = "min" -> Halves("-", l, r, dl, dr)

RECURSIVE Derivative(_)
Derivative(t) ==
  CASE IsConstant(t) -> Lit(S(0))
    [] IsVariable(t) -> Lit(S(IF t.frozen THEN 0 ELSE 1))
    [] Len(t.kids) = 1 -> Rule1(t.op, t.kids[1], Derivative(t.kids[1]))
    [] OTHER -> Rule2(t.op, t.kids[1], t.kids[2], Derivative(t.kids[1]), Derivative(t.kids[2]))

-----------------------------------------------------------------------------
(* frozen_variable: the same leaf, with a derivative of zero. *)
RECURSIVE Frozen(_, _)
Frozen(t, labels) ==
  IF IsVariable(t) THEN Variable(t.label, t.frozen \/ t.label \in labels)
  ELSE [t EXCEPT !.kids = [i \in DOMAIN @ |-> Frozen(@[i], labels)]]

(* extract_symbols: every label, frozen or not. *)
RECURSIVE Labels(_)
Labels(t) ==
  IF IsVariable(t) THEN {t.label} ELSE UNION {Labels(t.kids[i]) : i \in DOMAIN t.kids}

(* Canonical order: alphabetical by name. *)
InOrder(labels) == SelectSeq(Alphabet, LAMBDA s : s \in labels)
Symbols(t) == InOrder(Labels(t))

MakeConstVariable(s, t) == Frozen(t, {s})
AsConst(t) == Frozen(t, Labels(t))
MakeAllConstantExcept(s, t) == Frozen(t, Labels(t) \ {s})

(* canonical_t, and make_derivatives: the tree an Equation keeps, and the     *)
(* partial it makes of it by symbol s.                                        *)
Partial(t, s) == Canonicalise(Derivative(MakeAllConstantExcept(s, t)))

=============================================================================
