-------------------------------- MODULE Graph -------------------------------
(***************************************************************************)
(* The static graph (rt/graph.hpp): an arena frozen into properties and    *)
(* rows of operand edges, with the columns it is wanted for, and the       *)
(* kernel compiled from it (jit/codegen.cpp), which walks the live nodes   *)
(* of the graph where the interpreter walks all of an arena that may have  *)
(* grown since.                                                            *)
(***************************************************************************)
EXTENDS Hessian, Interpreter, Functions

CONSTANT Undefined   \* an element read outside a vector, or of no value

(* values[id], where the id may come from a later arena than the values do.  *)
Read(vals, id) == IF id \in DOMAIN vals THEN vals[id] ELSE Undefined
ReadAll(vals, ids) == [k \in DOMAIN ids |-> Read(vals, ids[k])]

-----------------------------------------------------------------------------
(* Graph::freeze().  A row is a set of edges, each with its operand's slot.  *)

Edges(n) ==
  (IF n.a = NoNode THEN {} ELSE {[to |-> n.a, slot |-> 0]}) \cup
  (IF n.b = NoNode THEN {} ELSE {[to |-> n.b, slot |-> 1]})

(* mark_live() *)
Targets(row) == {e.to : e \in row}
LiveNodes(children, outputs) ==
  Marked([v \in DOMAIN children |-> Targets(children[v])], Range(outputs))

FreezeGraph(B, outputs, layout) ==
  LET children == [v \in Ids(B) |-> Edges(B.nodes[v])]
      counts == IF layout.values = 0
                THEN [values |-> Len(outputs), jacobian |-> 0, hessian |-> 0] ELSE layout
  IN  [properties |-> [v \in Ids(B) |-> [op |-> B.nodes[v].op, value |-> B.nodes[v].value,
                                         slot |-> B.nodes[v].slot]],
       children |-> children, live |-> LiveNodes(children, outputs),
       outputs |-> outputs, values |-> counts.values, jacobian |-> counts.jacobian,
       hessian |-> counts.hessian, symbols |-> Len(B.symbols)]

(* Mutant: the operands in the order their ids have in the row. *)
GraphOperands_InRowOrder(graph, v) ==
  LET row == Targets(graph.children[v])
  IN  CASE row = {} -> <<NoNode, NoNode>>
        [] Cardinality(graph.children[v]) = 1 -> <<FirstOf(row), NoNode>>
        [] OTHER -> <<FirstOf(row), LastOf(row)>>

(* operands(): a pair in slot order. *)
GraphOperands(graph, v) ==
  LET Operand(slot) ==
        IF \E e \in graph.children[v] : e.slot = slot
        THEN (CHOOSE e \in graph.children[v] : e.slot = slot).to ELSE NoNode
  IN  <<Operand(0), Operand(1)>>

(* output_blocks() *)
BlocksOf(graph) ==
  LET g0 == graph.values
      h0 == graph.values + graph.jacobian
  IN  [f |-> SubSeq(graph.outputs, 1, g0),
       g |-> SubSeq(graph.outputs, g0 + 1, h0),
       h |-> SubSeq(graph.outputs, h0 + 1, h0 + graph.hessian)]

-----------------------------------------------------------------------------
(* GraphBuilder: every member answers the builder it was called on, with     *)
(* the outputs and the layout it has by then and the arena as it is by then. *)

NoLayout == [values |-> 0, jacobian |-> 0, hessian |-> 0]
GraphBuilder(B) == [arena |-> B, roots |-> <<>>, outputs |-> <<>>, layout |-> NoLayout]

(* A block of columns, laid out behind those there are. *)
WithBlockOf(gb, B, ids, layout) ==
  [arena |-> B, roots |-> gb.roots, outputs |-> gb.outputs \o ids, layout |-> layout]

ValuesFrom(gb, roots) ==
  [arena |-> gb.arena, roots |-> roots, outputs |-> roots,
   layout |-> [gb.layout EXCEPT !.values = Len(roots)]]
JacobianFrom(gb, partial) ==
  WithBlockOf(gb, gb.arena, partial, [gb.layout EXCEPT !.jacobian = Len(partial)])
GraphJacobian(gb) ==
  LET j == Jacobian(gb.arena, gb.roots)
  IN  WithBlockOf(gb, j.arena, j.partial, [gb.layout EXCEPT !.jacobian = Len(j.partial)])

(* Its rows, one colour's after another's. *)
Flattened(h) ==
  LET after[c \in 0..Len(h.compressed)] ==
        IF c = 0 THEN <<>> ELSE after[c - 1] \o h.compressed[c]
  IN  after[Len(h.compressed)]
GraphHessian(gb) ==
  LET h == HessianOf(gb.arena, gb.roots[1])
      block == Flattened(h)
  IN  WithBlockOf(gb, h.arena, block, [gb.layout EXCEPT !.hessian = Len(block)])

(* output(): "anything else worth a column of its own; counted as a value".  *)
GraphOutput(gb, e) ==
  LET m == Materialise(gb.arena, e)
  IN  WithBlockOf(gb, m.arena, <<m.id>>, [gb.layout EXCEPT !.values = @ + 1])

Build(gb) == FreezeGraph(gb.arena, gb.outputs, gb.layout)

-----------------------------------------------------------------------------
(* What interpret() and a kernel store for one row of columns.               *)
Stored(graph, vals) ==
  LET blocks == BlocksOf(graph)
  IN  [f |-> ReadAll(vals, blocks.f), g |-> ReadAll(vals, blocks.g), h |-> ReadAll(vals, blocks.h)]

InterpretRow(B, graph, at) == Stored(graph, ValuesAt(Scalars, B, at))

(* emit_nodes: a value per live node, from its operands' by slot. *)
EmittedNode(p, operands) ==
  [op |-> p.op, value |-> p.value, slot |-> p.slot, a |-> operands[1], b |-> operands[2]]
Emit(graph, vals, v, at) ==
  Append(vals, IF v \notin graph.live THEN Undefined
               ELSE NodeValue(Scalars, EmittedNode(graph.properties[v], GraphOperands(graph, v)),
                              vals, at))
KernelValues(graph, at) ==
  LET after[v \in 0..Len(graph.properties)] ==
        IF v = 0 THEN <<>> ELSE Emit(graph, after[v - 1], v, at)
  IN  after[Len(graph.properties)]
KernelRow(graph, at) == Stored(graph, KernelValues(graph, at))
=============================================================================
