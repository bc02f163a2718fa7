---------------------------- MODULE BuilderCalls ----------------------------
(***************************************************************************)
(* A client forming expressions in one arena: any sequence of constant(),  *)
(* variable() and make() calls, on any nodes formed so far.                *)
(***************************************************************************)
EXTENDS Interpreter

CONSTANT MaxNodes  \* bound on the size of the arena

ASSUME MaxNodesAssumption == MaxNodes \in Nat

VARIABLE arena

HasRoom == Len(arena.nodes) < MaxNodes

Init == arena = EmptyArena

CallConstant(v) == HasRoom /\ arena' = Constant(arena, v).arena
CallVariable(name) == HasRoom /\ arena' = Variable(arena, name).arena
CallUnary(op, a) == HasRoom /\ arena' = Make(arena, op, a, NoNode).arena
CallBinary(op, a, b) == HasRoom /\ arena' = Make(arena, op, a, b).arena

Next ==
  \/ \E v \in Scalar : CallConstant(v)
  \/ \E name \in Name : CallVariable(name)
  \/ \E op \in UnaryOps, a \in Ids(arena) : CallUnary(op, a)
  \/ \E op \in BinaryOps, a, b \in Ids(arena) : CallBinary(op, a, b)

Spec == Init /\ [][Next]_arena

-----------------------------------------------------------------------------
TypeOK == arena \in Arenas

(* Ids are topological and fit for evaluation. *)
Topological == TypeOK /\ WellFormed(arena)

(* An id is the identity of a subexpression, and each symbol has one leaf. *)
IdIsIdentity == NodesOnce(arena) /\ SymbolsOnce(arena) /\ LeafEach(arena)

(* No call disturbs what a caller that holds an id was given. *)
AppendOnly == [][Extends(arena', arena)]_arena

(* Forming a node again from its own parts finds it and adds nothing: no     *)
(* rewrite applies to a node once it has been made, whatever has been formed *)
(* since.                                                                    *)
Rebuilds ==
  \A v \in Ids(arena) :
    LET n == arena.nodes[v]
    IN  n.op \in UnaryOps \cup BinaryOps => Make(arena, n.op, n.a, n.b) = Existing(arena, v)

(* The order of commuting operands is not part of an expression's identity.  *)
OperandOrderIrrelevant ==
  \A op \in {o \in BinaryOps : IsCommutative(o)}, a, b \in Ids(arena) :
    Make(arena, op, a, b) = Make(arena, op, b, a)

-----------------------------------------------------------------------------
Points == [1..Len(arena.symbols) -> Scalar \ {NaN}]

(* A rewrite never changes a function: the node that make() answers has, at  *)
(* every point where the expression it stands for has a value, that value.   *)
BinaryRewritesSound ==
  \A p \in Points :
    LET vals == ValuesAt(Scalars, arena, p)
    IN  \A op \in BinaryOps, a, b \in Ids(arena) :
          LET meant == Apply2(op, vals[a], vals[b])
          IN  meant # NaN => ReplyValue(Scalars, Make(arena, op, a, b), vals, p) = meant
UnaryRewritesSound ==
  \A p \in Points :
    LET vals == ValuesAt(Scalars, arena, p)
    IN  \A op \in UnaryOps, a \in Ids(arena) :
          ReplyValue(Scalars, Make(arena, op, a, NoNode), vals, p) = Apply1(op, vals[a])
RewritesSound == BinaryRewritesSound /\ UnaryRewritesSound
=============================================================================
