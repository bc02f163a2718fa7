------------------------------ MODULE Interner ------------------------------
(***************************************************************************)
(* What the intern table of rt/builder.hpp promises, with no table: nodes  *)
(* are kept in the order they were first formed, an id is a position in    *)
(* that order, and asking for a node returns the id of one that is `same`, *)
(* or appends it when there is none.                                       *)
(*                                                                         *)
(* A node is an opaque key here.  Same(k, l) is Builder::same, which need  *)
(* not be reflexive: a NaN constant is not `same` as itself.               *)
(***************************************************************************)
EXTENDS Naturals, Sequences

CONSTANTS
  Key,         \* what may be interned: the contents of a node
  Same(_, _),  \* Builder::same
  MaxNodes     \* bound on the number of nodes, standing for the range of NodeId

VARIABLES
  nodes,  \* the node of each id, ids counted from 1
  given   \* given[k]: the id most recently returned for k, 0 before the first

vars == <<nodes, given>>

Ids == 1..Len(nodes)

TypeOK ==
  /\ nodes \in Seq(Key)
  /\ Len(nodes) <= MaxNodes
  /\ given \in [Key -> 0..MaxNodes]

Init ==
  /\ nodes = <<>>
  /\ given = [k \in Key |-> 0]

(* Some node is the same as k: its id comes back and nothing is added. *)
Hit(k) ==
  /\ Len(nodes) < MaxNodes
  /\ \E v \in Ids : Same(nodes[v], k) /\ given' = [given EXCEPT ![k] = v]
  /\ UNCHANGED nodes

(* No node is the same as k: it takes the next id. *)
Miss(k) ==
  /\ Len(nodes) < MaxNodes
  /\ \A v \in Ids : ~Same(nodes[v], k)
  /\ nodes' = Append(nodes, k)
  /\ given' = [given EXCEPT ![k] = Len(nodes) + 1]

Next == \E k \in Key : Hit(k) \/ Miss(k)

Spec == Init /\ [][Next]_vars
=============================================================================
