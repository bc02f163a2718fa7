------------------------------ MODULE Formula ------------------------------
(***************************************************************************)
(* A program that writes an expression a step at a time, with the          *)
(* overloads of expr/values.hpp and the members of Equation that give      *)
(* trees back.  expr is what the library holds, folded as it went;         *)
(* written is the same formula as it was put down, operation by operation. *)
(***************************************************************************)
EXTENDS TreeDrivers, Points

CONSTANTS
  Leaves,       \* where a formula starts
  Palette       \* what each step may do: its functions, operators and operands

VARIABLES expr, written, steps
vars == <<expr, written, steps>>

Init ==
  /\ expr \in Leaves
  /\ written = expr
  /\ steps = 0

Step == Palette[steps + 1]

(* A function of one argument, or the negation. *)
Apply(op) ==
  /\ op \in Step.functions
  /\ expr' = Built(op, <<expr>>)
  /\ written' = Node(op, <<written>>)

(* An operator or a function of two, the other operand on either side. *)
Combine(op, other) ==
  /\ op \in Step.operators
  /\ other \in Step.operands
  /\ \/ expr' = Built(op, <<expr, other>>) /\ written' = Node(op, <<written, other>>)
     \/ expr' = Built(op, <<other, expr>>) /\ written' = Node(op, <<other, written>>)

Square ==
  /\ "*" \in Step.operators
  /\ expr' = Built("*", <<expr, expr>>)
  /\ written' = Node("*", <<written, written>>)

(* eq[idx<k>()]: slot 0 is the function, slot k the partial by symbol k. *)
Subscript(k) ==
  LET eq == NewEquation(<<expr>>)
  IN  /\ k \in 0..Len(eq.symbols)
      /\ expr' = IF k = 0 THEN eq.expressions[1] ELSE JacobianRow(eq, 1)[k]
      /\ written' = IF k = 0 THEN written ELSE expr'

(* make_const_variable. *)
Freeze(s) ==
  /\ s \in LiveSymbols(expr)
  /\ expr' = MakeConstVariable(s, expr)
  /\ written' = MakeConstVariable(s, written)

Next ==
  /\ steps < Len(Palette)
  /\ steps' = steps + 1
  /\ \/ \E op \in Step.functions : Apply(op)
     \/ \E op \in Step.operators, other \in Step.operands : Combine(op, other)
     \/ Square
     \/ \E k \in 0..Cardinality(Labels(expr)) : Subscript(k)
     \/ \E s \in Labels(expr) : Freeze(s)

Spec == Init /\ [][Next]_vars

=============================================================================
