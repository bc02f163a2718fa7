--------------------------- MODULE NumericDriver ---------------------------
(***************************************************************************)
(* drivers/numeric.hpp: a callable and a buffer of duals.  gradient seeds  *)
(* one number at a time, hessian two, which may be the same; each seed is  *)
(* held by a scoped guard, and the callable may throw while guards are     *)
(* held.  drivers/hessian.hpp decides whether a call runs at all.          *)
(*                                                                         *)
(* Indices are counted from 1.                                             *)
(***************************************************************************)
EXTENDS Integers, Sequences

CONSTANTS
  Calls,              \* [order, f, x, every, active, room, reuse] each:
                      \* order 1 or 2, of all or the active indices; room, the
                      \* cells of a gradient's span; reuse, the writing form
  Arity(_),           \* of a callable that advertises one, else 0
  Energy(_, _, _),    \* Energy(order, f, dof): f(dof), on dual or dual2nd
  Value(_, _), FirstAt(_, _, _), SecondAt(_, _, _, _),
                      \* what analysis says of f at x: its value, a partial
                      \* derivative, a second one
  Undefined,          \* ... where it says nothing
  Scalars, Zero, One,
  Unwritten,          \* what a cell of an output holds until it is written
  InlineCapacity,     \* numbers a workspace's inline block holds
  MaxCalls            \* bounds the run

VARIABLES
  ws,                 \* of each order, the storages seeds are written to
  call,               \* the call being answered, or the last one
  held,               \* the guards alive, outermost first
  j, i,               \* the loops' counters
  out,                \* outcome, value, and the cells of both buffers
  pc, calls

vars == <<ws, call, held, j, i, out, pc, calls>>

-----------------------------------------------------------------------------
(* Numbers.  A dual is [v, d] of scalars, a dual2nd [v, d] of those.  A      *)
(* seed goes into one scalar of a number, its part.                          *)
DualOf(T) == [v : T, d : T]
Number(order) == IF order = 1 THEN DualOf(Scalars) ELSE DualOf(DualOf(Scalars))

Plain(s) == [v |-> s, d |-> Zero]
Lifted(order, s) == IF order = 1 THEN Plain(s) ELSE [v |-> Plain(s), d |-> Plain(Zero)]

PartOf(x, part) ==
  CASE part = "deriv" -> x.d
    [] part = "inner" -> x.v.d
    [] part = "outer" -> x.d.v

(* Mutant: the outer guard is over the enclosing number, inner seed and all. *)
WithPart_Whole(x, part, s) ==
  CASE part = "deriv" -> [x EXCEPT !.d = s]
    [] part = "inner" -> [x EXCEPT !.v.d = s]
    [] part = "outer" -> [x EXCEPT !.d.v = s, !.v.d = s]

WithPart(x, part, s) ==
  CASE part = "deriv" -> [x EXCEPT !.d = s]
    [] part = "inner" -> [x EXCEPT !.v.d = s]
    [] part = "outer" -> [x EXCEPT !.d.v = s]

-----------------------------------------------------------------------------
(* SweepWorkspace::seed_with.  A short point goes into the inline block and  *)
(* a longer one into the heap vector, which never shrinks: both may hold     *)
(* numbers of earlier points past the end of this one.  The owning forms and *)
(* hessian_static bring storage of their own.                                *)
Places == {"block", "heap", "local"}
StorageOf(c) ==
  IF ~c.reuse THEN "local" ELSE IF Len(c.x) <= InlineCapacity THEN "block" ELSE "heap"

Seeds(c) == [k \in 1..Len(c.x) |-> Lifted(c.order, c.x[k])]
Written(old, new) == new \o SubSeq(old, Len(new) + 1, Len(old))

(* Storage of an owning call is gone once the next call begins. *)
Kept == [order \in {1, 2} |-> [ws[order] EXCEPT !["local"] = <<>>]]
Seeded(c) == [Kept EXCEPT ![c.order][StorageOf(c)] = Written(@, Seeds(c))]

Dof == ws[call.order][StorageOf(call)]

(* all_indices(x.size()), or the caller's. *)
Active(c) == IF c.every THEN [k \in 1..Len(c.x) |-> k] ELSE c.active

(* How many columns are swept.  A gradient's output is a span of the         *)
(* caller's, and zip ends with the shorter of it and the active indices.     *)
Width(c) == IF c.order = 1 /\ c.room < Len(Active(c)) THEN c.room ELSE Len(Active(c))

-----------------------------------------------------------------------------
(* check_target, in the owning Hessian entry points.  The gradients and the  *)
(* writing forms have no such check, and a callable that advertises no arity *)
(* has nothing to check against.                                             *)
Unchecked(c) == c.order = 1 \/ c.reuse \/ Arity(c.f) = 0
OutOfRange(c, n) == \E k \in 1..Len(c.active) : c.active[k] > n

Checked(c, n) ==
  CASE c.every /\ Len(c.x) # n -> "wrong_arity"
    [] ~c.every /\ Len(c.x) < n -> "short_point"
    [] ~c.every /\ Len(c.x) >= n /\ OutOfRange(c, n) -> "index_out_of_range"
    [] OTHER -> "ok"
Refusal(c) == IF Unchecked(c) THEN "ok" ELSE Checked(c, Arity(c.f))

Cells(c) == IF c.order = 1 THEN {} ELSE (1..Width(c)) \X (1..Width(c))
Fresh(c, outcome) ==
  [outcome |-> outcome, value |-> Zero,
   gradient |-> [k \in 1..(IF c.order = 1 THEN c.room ELSE Width(c)) |-> Unwritten],
   hessian |-> [cell \in Cells(c) |-> Unwritten]]

-----------------------------------------------------------------------------
Init ==
  /\ ws = [order \in {1, 2} |-> [where \in Places |-> <<>>]]
  /\ call = CHOOSE c \in Calls : TRUE
  /\ held = <<>> /\ j = 1 /\ i = 1
  /\ out = Fresh(call, "none") /\ pc = "idle" /\ calls = 0

(* A call that is refused touches no workspace. *)
Refuse(c) ==
  /\ pc = "idle" /\ calls < MaxCalls /\ Refusal(c) # "ok"
  /\ call' = c /\ out' = Fresh(c, Refusal(c)) /\ calls' = calls + 1
  /\ UNCHANGED <<ws, held, j, i, pc>>

Begin(c) ==
  /\ pc = "idle" /\ calls < MaxCalls /\ Refusal(c) = "ok"
  /\ call' = c /\ ws' = Seeded(c)
  /\ j' = 1 /\ out' = Fresh(c, "none") /\ pc' = "column" /\ calls' = calls + 1
  /\ UNCHANGED <<held, i>>

(* scoped_value: save what the slot holds and put the seed there; and back. *)
Hold(slot, part) ==
  /\ held' = Append(held, [slot |-> slot, part |-> part, saved |-> PartOf(Dof[slot], part)])
  /\ ws' = [ws EXCEPT ![call.order][StorageOf(call)][slot] = WithPart(@, part, One)]

Top == held[Len(held)]
Release ==
  /\ held' = SubSeq(held, 1, Len(held) - 1)
  /\ ws' = [ws EXCEPT ![call.order][StorageOf(call)][Top.slot] = WithPart(@, Top.part, Top.saved)]

-----------------------------------------------------------------------------
(* gradient_into. *)
HoldDeriv ==
  /\ pc = "column" /\ call.order = 1 /\ j <= Width(call)
  /\ Hold(Active(call)[j], "deriv") /\ pc' = "probe"
  /\ UNCHANGED <<call, j, i, out, calls>>

WithPartial(r) ==
  [outcome |-> out.outcome, value |-> out.value,
   gradient |-> [out.gradient EXCEPT ![j] = r.d], hessian |-> out.hessian]

ProbeGradient ==
  /\ pc = "probe" /\ call.order = 1
  /\ out' = WithPartial(Energy(1, call.f, Dof)) /\ pc' = "closing"
  /\ UNCHANGED <<ws, call, held, j, i, calls>>

ReleaseDeriv ==
  /\ pc = "closing" /\ call.order = 1
  /\ Release /\ j' = j + 1 /\ pc' = "column"
  /\ UNCHANGED <<call, i, out, calls>>

-----------------------------------------------------------------------------
(* hessian_into. *)
HoldInner ==
  /\ pc = "column" /\ call.order = 2 /\ j <= Width(call)
  /\ Hold(Active(call)[j], "inner") /\ i' = 1 /\ pc' = "row"
  /\ UNCHANGED <<call, j, out, calls>>

(* Mutant: i < j, the rows above the diagonal. *)
InTriangle_Strict(row, column) == row < column

InTriangle(row, column) == row <= column

HoldOuter ==
  /\ pc = "row" /\ InTriangle(i, j)
  /\ Hold(Active(call)[i], "outer") /\ pc' = "probe"
  /\ UNCHANGED <<call, j, i, out, calls>>

(* Mutant: the two first derivatives exchanged. *)
Harvested_Exchanged(r) ==
  [outcome |-> out.outcome, value |-> r.v.v,
   gradient |-> [out.gradient EXCEPT ![i] = r.v.d, ![j] = r.d.v],
   hessian |-> [out.hessian EXCEPT ![<<i, j>>] = r.d.d, ![<<j, i>>] = r.d.d]]

(* The probe's four components; on the diagonal the later write stands. *)
Harvested(r) ==
  [outcome |-> out.outcome, value |-> r.v.v,
   gradient |-> [out.gradient EXCEPT ![i] = r.d.v, ![j] = r.v.d],
   hessian |-> [out.hessian EXCEPT ![<<i, j>>] = r.d.d, ![<<j, i>>] = r.d.d]]

ProbeHessian ==
  /\ pc = "probe" /\ call.order = 2
  /\ out' = Harvested(Energy(2, call.f, Dof)) /\ pc' = "closing"
  /\ UNCHANGED <<ws, call, held, j, i, calls>>

ReleaseOuter ==
  /\ pc = "closing" /\ call.order = 2
  /\ Release /\ i' = i + 1 /\ pc' = "row"
  /\ UNCHANGED <<call, j, out, calls>>

ReleaseInner ==
  /\ pc = "row" /\ ~InTriangle(i, j)
  /\ Release /\ j' = j + 1 /\ pc' = "column"
  /\ UNCHANGED <<call, i, out, calls>>

-----------------------------------------------------------------------------
Return ==
  /\ pc = "column" /\ j > Width(call)
  /\ out' = [out EXCEPT !.outcome = "returned"] /\ pc' = "idle"
  /\ UNCHANGED <<ws, call, held, j, i, calls>>

(* The callable throws: the guards alive are destroyed, the last first. *)
Throw ==
  /\ pc = "probe" /\ pc' = "unwinding"
  /\ UNCHANGED <<ws, call, held, j, i, out, calls>>

(* Mutant: only the innermost guard is destroyed. *)
Unwound_Innermost == Len(held) < 2

Unwound == held = <<>>

Unwind ==
  /\ pc = "unwinding" /\ ~Unwound /\ Release
  /\ UNCHANGED <<call, j, i, out, pc, calls>>

Escape ==
  /\ pc = "unwinding" /\ Unwound
  /\ out' = [out EXCEPT !.outcome = "thrown"] /\ pc' = "idle"
  /\ UNCHANGED <<ws, call, held, j, i, calls>>

Next ==
  \/ \E c \in Calls : Refuse(c) \/ Begin(c)
  \/ HoldDeriv \/ ProbeGradient \/ ReleaseDeriv
  \/ HoldInner \/ HoldOuter \/ ProbeHessian \/ ReleaseOuter \/ ReleaseInner
  \/ Return \/ Throw \/ Unwind \/ Escape

Spec == Init /\ [][Next]_vars

-----------------------------------------------------------------------------
(* The number a point's scalar should be in the buffer, under these seeds.   *)
SeedAt(k, slot) == IF k = slot THEN One ELSE Zero
SeededAs(order, s, inner, outer) ==
  IF order = 1 THEN [v |-> s, d |-> outer]
  ELSE [v |-> [v |-> s, d |-> inner], d |-> Plain(outer)]

(* gradient_into and hessian_into: whenever the callable runs, the buffer is *)
(* the point, seeded in the outer slot at active[i] and in the inner slot at *)
(* active[j] (a gradient's only seed at active[j]) and nowhere else, however *)
(* the indices coincide and whatever ran before.                             *)
ProbeSeedsExact ==
  pc = "probe" =>
    \A k \in 1..Len(call.x) :
      Dof[k] = SeededAs(call.order, call.x[k], SeedAt(k, Active(call)[j]),
                        SeedAt(k, Active(call)[IF call.order = 1 THEN j ELSE i]))

(* scoped_value: between calls no number of any workspace carries a seed,    *)
(* also after a callable threw with both guards held.                        *)
IsClean(order, x) == \E s \in Scalars : x = Lifted(order, s)
LeftClean ==
  pc = "idle" =>
    \A order \in {1, 2}, where \in Places :
      \A k \in 1..Len(ws[order][where]) : IsClean(order, ws[order][where][k])

(* "Writes every cell of both outputs", when it returns. *)
EveryCellWritten ==
  out.outcome = "returned" =>
    /\ \A k \in 1..Width(call) : out.gradient[k] # Unwritten
    /\ \A cell \in Cells(call) : out.hessian[cell] # Unwritten

Agrees(got, want) == want = Undefined \/ got = want
Column(k) == Active(call)[k]

(* The cells a call fills hold what they are for: every cell a probe has     *)
(* written, whether or not a later one threw, is the partial derivative of   *)
(* its own columns, a checked call writes none of a symbol its callable does *)
(* not have, and a Hessian's value is the callable's once anything was       *)
(* probed.  Where analysis gives no value the code may give any.             *)
WrittenIsRight ==
  /\ \A k \in DOMAIN out.gradient : out.gradient[k] # Unwritten =>
       /\ ~Unchecked(call) => Column(k) <= Arity(call.f)
       /\ Agrees(out.gradient[k], FirstAt(call.f, call.x, Column(k)))
  /\ \A cell \in DOMAIN out.hessian : out.hessian[cell] # Unwritten =>
       Agrees(out.hessian[cell], SecondAt(call.f, call.x, Column(cell[1]), Column(cell[2])))
  /\ call.order = 2 /\ out.outcome = "returned" /\ Active(call) # <<>> =>
       Agrees(out.value, Value(call.f, call.x))

(* The callable is right on duals: seeded at two symbols it answers the      *)
(* derivatives there, whatever the buffer holds past the point; and the      *)
(* order two symbols are taken in does not matter.                           *)
SeededPoint(c, inner, outer) ==
  [k \in 1..Len(c.x) |-> SeededAs(c.order, c.x[k], SeedAt(k, inner), SeedAt(k, outer))]

Differentiated(c, inner, outer, r) ==
  /\ c.order = 1 => Agrees(r.d, FirstAt(c.f, c.x, outer))
  /\ c.order = 2 =>
       /\ Agrees(r.v.v, Value(c.f, c.x))
       /\ Agrees(r.v.d, FirstAt(c.f, c.x, inner)) /\ Agrees(r.d.v, FirstAt(c.f, c.x, outer))
       /\ Agrees(r.d.d, SecondAt(c.f, c.x, outer, inner))
       /\ SecondAt(c.f, c.x, inner, outer) = SecondAt(c.f, c.x, outer, inner)

(* A first-order probe has one seed, which is both. *)
Slots(c) == {s \in (1..Len(c.x)) \X (1..Len(c.x)) : c.order = 1 => s[1] = s[2]}

DifferentiatesOver(tails) ==
  \A c \in Calls : Refusal(c) = "ok" =>
    \A slots \in Slots(c), tail \in tails[c.order] :
      Differentiated(c, slots[1], slots[2],
                     Energy(c.order, c.f, SeededPoint(c, slots[1], slots[2]) \o tail))

-----------------------------------------------------------------------------
(* What an unchecked caller owes: indices of the point it passes. *)
ValidCall(c) ==
  /\ c.order \in {1, 2} /\ c.x \in Seq(Scalars) /\ c.active \in Seq(Nat \ {0})
  /\ c.every \in BOOLEAN /\ c.reuse \in BOOLEAN /\ c.room \in Nat
  /\ Unchecked(c) => \A k \in 1..Len(c.active) : c.active[k] <= Len(c.x)

ASSUME DriverAssumption ==
  /\ Zero \in Scalars /\ One \in Scalars
  /\ Calls # {} /\ \A c \in Calls : ValidCall(c) /\ Arity(c.f) \in Nat

(* The guards alive are the loops' own, and the buffer carries their seeds.  *)
Guard(slot, part) == [slot |-> slot, part |-> part, saved |-> Zero]
ColumnGuard == Guard(Active(call)[j], IF call.order = 1 THEN "deriv" ELSE "inner")
RowGuard == Guard(Active(call)[i], "outer")

GuardsInv ==
  /\ pc \in {"idle", "column"} => held = <<>>
  /\ pc = "row" => call.order = 2 /\ held = <<ColumnGuard>>
  /\ pc \in {"probe", "closing"} =>
       held = IF call.order = 1 THEN <<ColumnGuard>> ELSE <<ColumnGuard, RowGuard>>
  /\ pc = "unwinding" =>
       \/ held = <<>> \/ held = <<ColumnGuard>>
       \/ call.order = 2 /\ held = <<ColumnGuard, RowGuard>>

CountersInv ==
  /\ j \in Nat \ {0} /\ i \in Nat \ {0}
  /\ pc \in {"row", "probe", "closing", "unwinding"} => j <= Width(call)
  /\ pc \in {"probe", "closing", "unwinding"} /\ call.order = 2 => i <= j

(* Which seeds the k-th number carries while those guards are alive. *)
Inner(k) == IF Len(held) >= 1 THEN SeedAt(k, Active(call)[j]) ELSE Zero
Outer(k) ==
  CASE call.order = 1 -> Inner(k)
    [] call.order # 1 /\ Len(held) = 2 -> SeedAt(k, Active(call)[i])
    [] call.order # 1 /\ Len(held) # 2 -> Zero

BufferInv ==
  pc # "idle" =>
    /\ Len(Dof) >= Len(call.x)
    /\ \A k \in 1..Len(call.x) : Dof[k] = SeededAs(call.order, call.x[k], Inner(k), Outer(k))
    /\ \A k \in Len(call.x) + 1..Len(Dof) : IsClean(call.order, Dof[k])

IsBuffer(order, where) == pc # "idle" /\ order = call.order /\ where = StorageOf(call)

StorageInv ==
  /\ ws = [order \in {1, 2} |-> ws[order]]
  /\ \A order \in {1, 2} : ws[order] \in [Places -> Seq(Number(order))]
  /\ \A order \in {1, 2}, where \in Places : ~IsBuffer(order, where) =>
       \A k \in 1..Len(ws[order][where]) : IsClean(order, ws[order][where][k])

(* The inductive invariant. *)
DriverInv ==
  /\ call \in Calls /\ (pc # "idle" => Refusal(call) = "ok")
  /\ pc \in {"idle", "column", "row", "probe", "closing", "unwinding"}
  /\ GuardsInv /\ CountersInv /\ BufferInv /\ StorageInv

=============================================================================
