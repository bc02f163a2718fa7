-------------------------------- MODULE Sweep -------------------------------
(***************************************************************************)
(* reverse_gradient() of rt/derivative.hpp running on one builder, a step  *)
(* for each iteration of its loop, and run again from its own results: the *)
(* rows of jacobian() share one builder, and hessian() sweeps from a       *)
(* partial.  The builder is read and appended to by the same loop.         *)
(***************************************************************************)
EXTENDS Calculus

CONSTANTS
  Models,    \* the arenas clients have formed their expressions in
  Points,    \* where the nodes formed are read as numbers
  MaxSweeps  \* bound on the sweeps run over one builder

ASSUME MaxSweepsAssumption == MaxSweeps \in Nat
ASSUME ModelsAssumption == \A B \in Models : B \in Arenas /\ WellFormed(B) /\ NodesOnce(B)

VARIABLES
  arena,    \* the builder
  pc,       \* "ready" between sweeps, else "sweeping"
  root,     \* the node being differentiated
  adj,      \* the adjoint node of each node of the snapshot, or NoNode
  cursor,   \* the nodes not visited yet are 1..cursor
  partial,  \* what the last sweep answered, by slot
  sweeps    \* how many have begun

vars == <<arena, pc, root, adj, cursor, partial, sweeps>>

Init ==
  /\ arena \in Models
  /\ pc = "ready"
  /\ root = NoNode
  /\ adj = <<>>
  /\ cursor = 0
  /\ partial = <<>>
  /\ sweeps = 0

(* Between sweeps a caller knows the roots it formed and the partials it got. *)
Roots == IF sweeps = 0 THEN Ids(arena) ELSE {partial[s] : s \in DOMAIN partial}

Begin(r) ==
  /\ pc = "ready"
  /\ sweeps < MaxSweeps
  /\ LET sweep == BeginSweep(arena, r)
     IN  arena' = sweep.arena /\ adj' = sweep.adj
  /\ root' = r
  /\ cursor' = Len(arena.nodes)
  /\ pc' = "sweeping"
  /\ sweeps' = sweeps + 1
  /\ partial' = <<>>

Visit ==
  /\ pc = "sweeping"
  /\ cursor > 0
  /\ \E sweep \in {SweepAt([arena |-> arena, adj |-> adj], cursor)} :
       arena' = sweep.arena /\ adj' = sweep.adj
  /\ cursor' = cursor - 1
  /\ UNCHANGED <<pc, root, partial, sweeps>>

Finish ==
  /\ pc = "sweeping"
  /\ cursor = 0
  /\ LET answer == Collect([arena |-> arena, adj |-> adj])
     IN  arena' = answer.arena /\ partial' = answer.partial
  /\ pc' = "ready"
  /\ UNCHANGED <<root, adj, cursor, sweeps>>

Next == (\E r \in Roots : Begin(r)) \/ Visit \/ Finish

Spec == Init /\ [][Next]_vars

-----------------------------------------------------------------------------
(* An adjoint, and in the end every partial, is a node of the arena. *)
TypeOK ==
  /\ arena \in Arenas
  /\ pc \in {"ready", "sweeping"}
  /\ root \in Ids(arena) \cup {NoNode}
  /\ cursor \in 0..Len(adj)
  /\ \A v \in DOMAIN adj : adj[v] \in Ids(arena) \cup {NoNode}
  /\ \A s \in DOMAIN partial : partial[s] \in Ids(arena)
  /\ sweeps \in 0..MaxSweeps

-----------------------------------------------------------------------------
PointsHere == Points \cap PointFor(Smooth, arena)
SlotsHere == 1..Len(arena.symbols)

(* Loop invariant of the sweep: the adjoints of the nodes still to be visited *)
(* and of the leaves, each times its node's tangent, add up to the root's     *)
(* tangent, at every point where that has a value.                            *)
AdjointsAddUp ==
  pc = "sweeping" =>
    \A p \in PointsHere :
      LET vals == ValuesAt(Smooth, arena, p)
      IN  \A s \in SlotsHere :
            AddsUp(Smooth, [arena |-> arena, adj |-> adj], cursor, root, vals,
                   TangentsAt(Smooth, arena, vals, s, Len(adj)))

(* What the caller gets is the gradient of the root. *)
GradientCorrect ==
  pc = "ready" /\ sweeps > 0 => \A p \in PointsHere : IsGradient(Smooth, arena, partial, root, p)

(* The partials of a root are the same nodes whenever they are asked for:    *)
(* the sweep made again, over a longer snapshot that holds its own nodes and *)
(* those of a sweep from any other root, answers the same ids and forms      *)
(* nothing.  So the rows of a Jacobian do not depend on the rows formed in   *)
(* between, unless a constant is a NaN, which is found again by nobody.      *)
SweepRepeats ==
  pc = "ready" /\ sweeps > 0 =>
    \A q \in Roots \cup {root} :
      \A grown \in {ReverseGradient(arena, q).arena} :
        Regular(grown) => ReverseGradient(grown, root) = [arena |-> grown, partial |-> partial]

(* Forward accumulation of nodes, which the code keeps "to check Reverse     *)
(* against", says the same of every node of a model.                         *)
SymbolicCorrect ==
  sweeps = 0 =>
    \A r \in Ids(arena) :
      \A g \in {SymbolicGradient(arena, r)}, p \in PointsHere :
        IsGradient(Smooth, g.arena, g.partial, r, p)
=============================================================================
