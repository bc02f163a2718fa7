------------------------------ MODULE MCBuilder -----------------------------
(***************************************************************************)
(* The builder over two small algebras with an absorbing NaN: GF(3), and   *)
(* the upper triangular 2 x 2 matrices over GF(2), whose product does not  *)
(* commute.                                                                *)
(***************************************************************************)
EXTENDS BuilderCalls

MCEq(v, w) == v = w /\ v # NaN

(* GF(3): what a rewrite must respect is the field's laws, and 1/0 = NaN.    *)
Power(x, e) == CASE e = 0 -> 1 [] e = 1 -> x [] e = 2 -> (x * x) % 3

FieldApply1(op, u) == IF u = NaN THEN NaN ELSE (3 - u) % 3
FieldApply2(op, l, r) ==
  IF NaN \in {l, r} THEN NaN
  ELSE CASE op = "Add" -> (l + r) % 3
         [] op = "Mul" -> (l * r) % 3
         [] op = "Div" -> IF r = 0 THEN NaN ELSE (l * r) % 3
         [] op = "Pow" -> Power(l, r)
         [] op = "Max" -> IF l < r THEN r ELSE l

(* The matrix <<a, b; 0, c>> over GF(2) is 4a + 2b + c. *)
Entries(m) == [a |-> m \div 4, b |-> (m \div 2) % 2, c |-> m % 2]
Encode(a, b, c) == 4 * (a % 2) + 2 * (b % 2) + (c % 2)
Times(m, k) ==
  LET x == Entries(m)  y == Entries(k)
  IN  Encode(x.a * y.a, x.a * y.b + x.b * y.c, x.c * y.c)
Invertible(m) == Entries(m).a = 1 /\ Entries(m).c = 1

RingApply1(op, u) == u  \* negation in characteristic 2
RingApply2(op, l, r) ==
  IF NaN \in {l, r} THEN NaN
  ELSE LET x == Entries(l)  y == Entries(r)
       IN  CASE op = "Add" -> Encode(x.a + y.a, x.b + y.b, x.c + y.c)
             [] op = "Mul" -> Times(l, r)
             [] op = "Div" -> IF Invertible(r) THEN Times(l, r) ELSE NaN

-----------------------------------------------------------------------------
(* Both algebras are what the rewrites take a scalar for. *)
ASSUME LawsAssumption == NumberLaws(Scalars)
=============================================================================
