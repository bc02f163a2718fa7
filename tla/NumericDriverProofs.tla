------------------------- MODULE NumericDriverProofs -------------------------
(***************************************************************************)
(* The seeds of the numeric drivers are exact at every probe and gone      *)
(* after every call, for every callable, point, active set and storage.    *)
(***************************************************************************)
EXTENDS NumericDriver, SequenceTheorems, TLAPS

(* A number of the point, as it is seeded: its parts, and how they change.   *)
LEMMA UnseededIsLifted ==
  ASSUME NEW order \in {1, 2}, NEW s
  PROVE  SeededAs(order, s, Zero, Zero) = Lifted(order, s)
BY DEF SeededAs, Lifted, Plain

LEMMA SeededIsNumber ==
  ASSUME NEW order \in {1, 2}, NEW s \in Scalars, NEW p \in Scalars, NEW q \in Scalars
  PROVE  SeededAs(order, s, p, q) \in Number(order)
BY DriverAssumption DEF SeededAs, Plain, Number, DualOf

LEMMA LiftedIsNumber ==
  ASSUME NEW order \in {1, 2}, NEW s \in Scalars
  PROVE  Lifted(order, s) \in Number(order)
BY UnseededIsLifted, SeededIsNumber, DriverAssumption

LEMMA SeedDeriv ==
  ASSUME NEW s, NEW p, NEW q, NEW t, NEW r
  PROVE  /\ PartOf(SeededAs(1, s, p, q), "deriv") = q
         /\ WithPart(SeededAs(1, s, p, q), "deriv", t) = SeededAs(1, s, r, t)
BY DEF SeededAs, PartOf, WithPart

LEMMA SeedInner ==
  ASSUME NEW s, NEW p, NEW q, NEW t
  PROVE  /\ PartOf(SeededAs(2, s, p, q), "inner") = p
         /\ WithPart(SeededAs(2, s, p, q), "inner", t) = SeededAs(2, s, t, q)
BY DEF SeededAs, PartOf, WithPart, Plain

LEMMA SeedOuter ==
  ASSUME NEW s, NEW p, NEW q, NEW t
  PROVE  /\ PartOf(SeededAs(2, s, p, q), "outer") = q
         /\ WithPart(SeededAs(2, s, p, q), "outer", t) = SeededAs(2, s, p, t)
BY DEF SeededAs, PartOf, WithPart, Plain

-----------------------------------------------------------------------------
(* What a call that is not refused may index. *)
LEMMA ActiveInPoint ==
  ASSUME NEW c \in Calls, Refusal(c) = "ok"
  PROVE  /\ Active(c) \in Seq(Nat \ {0})
         /\ Width(c) \in Nat /\ Width(c) <= Len(Active(c))
         /\ \A k \in 1..Width(c) : Active(c)[k] \in 1..Len(c.x)
<1>1. ValidCall(c) /\ Arity(c.f) \in Nat
  BY DriverAssumption
<1>2. c.x \in Seq(Scalars) /\ Len(c.x) \in Nat /\ c.active \in Seq(Nat \ {0}) /\ c.room \in Nat
  BY <1>1 DEF ValidCall
<1>3. CASE c.every
  <2>1. Active(c) = [k \in 1..Len(c.x) |-> k]
    BY <1>3 DEF Active
  <2>2. Active(c) \in Seq(Nat \ {0}) /\ Len(Active(c)) = Len(c.x)
    BY <2>1, <1>2
  <2> QED BY <2>1, <2>2, <1>2 DEF Width
<1>4. CASE ~c.every
  <2>1. Active(c) = c.active
    BY <1>4 DEF Active
  <2>2. \A k \in 1..Len(c.active) : c.active[k] <= Len(c.x)
    <3>1. CASE Unchecked(c)
      BY <3>1, <1>1 DEF ValidCall
    <3>2. CASE ~Unchecked(c)
      <4>1. Checked(c, Arity(c.f)) = "ok"
        BY <3>2 DEF Refusal
      <4>2. Len(c.x) >= Arity(c.f) /\ ~OutOfRange(c, Arity(c.f))
        BY <4>1, <1>4, <1>1, <1>2 DEF Checked
      <4> QED BY <4>2, <1>1, <1>2 DEF OutOfRange
    <3> QED BY <3>1, <3>2
  <2> QED BY <2>1, <2>2, <1>2 DEF Width
<1> QED BY <1>3, <1>4

LEMMA PlaceOfCall ==
  ASSUME NEW c
  PROVE  StorageOf(c) \in Places
BY DEF StorageOf, Places

(* A step that moves one seed keeps the buffer and the storages.             *)
SeedPut(slot, inner, outer) ==
  /\ ws' = [ws EXCEPT ![call.order][StorageOf(call)][slot]
              = SeededAs(call.order, call.x[slot], inner, outer)]
  /\ \A k \in 1..Len(call.x) :
       /\ Inner(k)' = (IF k = slot THEN inner ELSE Inner(k))
       /\ Outer(k)' = (IF k = slot THEN outer ELSE Outer(k))

LEMMA SeedMoves ==
  ASSUME DriverInv, pc # "idle", pc' # "idle", call' = call,
         NEW slot \in 1..Len(call.x), NEW a \in Scalars, NEW b \in Scalars, SeedPut(slot, a, b)
  PROVE  BufferInv' /\ StorageInv'
<1> DEFINE n == SeededAs(call.order, call.x[slot], a, b)
<1>1. ValidCall(call) /\ StorageOf(call) \in Places /\ StorageInv /\ BufferInv
  BY DriverAssumption, PlaceOfCall DEF DriverInv
<1>2. call.order \in {1, 2} /\ call.x \in Seq(Scalars) /\ Len(call.x) \in Nat
  BY <1>1 DEF ValidCall
<1>3. Dof \in Seq(Number(call.order)) /\ Len(Dof) >= Len(call.x) /\ Len(Dof) \in Nat
  BY <1>1, <1>2 DEF StorageInv, BufferInv, Dof
<1>4. slot \in 1..Len(ws[call.order][StorageOf(call)])
  BY <1>2, <1>3 DEF Dof
<1>5. n \in Number(call.order)
  BY <1>2, SeededIsNumber
<1>6. /\ ws' = [o \in {1, 2} |-> ws'[o]]
      /\ \A o \in {1, 2} : ws'[o] \in [Places -> Seq(Number(o))]
      /\ ws'[call.order][StorageOf(call)] = [ws[call.order][StorageOf(call)] EXCEPT ![slot] = n]
      /\ \A o \in {1, 2}, p \in Places :
           ~(o = call.order /\ p = StorageOf(call)) => ws'[o][p] = ws[o][p]
  <2> DEFINE buffer == [ws[call.order][StorageOf(call)] EXCEPT ![slot] = n]
  <2>1. /\ ws = [o \in {1, 2} |-> ws[o]]
        /\ \A o \in {1, 2} : ws[o] \in [Places -> Seq(Number(o))]
    BY <1>1 DEF StorageInv
  <2>2. buffer \in Seq(Number(call.order))
    <3> HIDE DEF n
    <3> QED BY <1>3, <1>4, <1>5 DEF Dof
  <2>3. ws'[call.order] = [ws[call.order] EXCEPT ![StorageOf(call)] = buffer]
    <3> HIDE DEF n
    <3>1. ws' = [ws EXCEPT ![call.order] = [ws[call.order] EXCEPT ![StorageOf(call)] = buffer]]
      BY DEF n, SeedPut
    <3> QED BY <3>1, <2>1, <1>2
  <2>4. ws' = [o \in {1, 2} |-> ws'[o]] /\ \A o \in {1, 2} : o # call.order => ws'[o] = ws[o]
    <3> HIDE DEF n
    <3>1. ws' = [ws EXCEPT ![call.order] = [ws[call.order] EXCEPT ![StorageOf(call)] = buffer]]
      BY DEF n, SeedPut
    <3> HIDE DEF buffer
    <3> QED BY <3>1, <2>1, <1>2
  <2> HIDE DEF buffer
  <2>5. ws'[call.order] \in [Places -> Seq(Number(call.order))]
    <3>1. ws[call.order] \in [Places -> Seq(Number(call.order))]
      BY <2>1, <1>2
    <3> QED BY <3>1, <2>2, <2>3
  <2>6. /\ ws'[call.order][StorageOf(call)] = buffer
        /\ \A p \in Places : p # StorageOf(call) => ws'[call.order][p] = ws[call.order][p]
    BY <2>1, <2>3, <1>1, <1>2
  <2> QED BY <2>1, <2>4, <2>5, <2>6, <1>2 DEF buffer
<1>7. Dof' = [Dof EXCEPT ![slot] = n]
  <2> HIDE DEF n
  <2> QED BY <1>6 DEF Dof
<1>8. Len(Dof') = Len(Dof) /\ \A k \in 1..Len(Dof) : Dof'[k] = IF k = slot THEN n ELSE Dof[k]
  <2> HIDE DEF n
  <2> QED BY <1>3, <1>4, <1>5, <1>7
<1>9. BufferInv'
  <2>1. Len(Dof') >= Len(call'.x)
    BY <1>3, <1>8
  <2>2. ASSUME NEW k \in 1..Len(call.x)
        PROVE  Dof'[k] = SeededAs(call.order, call.x[k], Inner(k)', Outer(k)')
    <3>1. k \in 1..Len(Dof)
      BY <1>2, <1>3
    <3>2. CASE k = slot
      BY <3>1, <3>2, <1>8 DEF SeedPut
    <3>3. CASE k # slot
      <4>1. Dof[k] = SeededAs(call.order, call.x[k], Inner(k), Outer(k))
        BY <1>1 DEF BufferInv
      <4>2. Dof'[k] = Dof[k] /\ Inner(k)' = Inner(k) /\ Outer(k)' = Outer(k)
        BY <3>1, <3>3, <1>8 DEF SeedPut
      <4> QED BY <4>1, <4>2
    <3> QED BY <3>2, <3>3
  <2>3. \A k \in Len(call.x) + 1..Len(Dof') : IsClean(call.order, Dof'[k])
    <3> HIDE DEF n
    <3> QED BY <1>1, <1>2, <1>3, <1>8 DEF BufferInv
  <2> QED BY <2>1, <2>2, <2>3 DEF BufferInv
<1>10. StorageInv'
  <2>1. ASSUME NEW o \in {1, 2}, NEW p \in Places, ~IsBuffer(o, p)'
        PROVE  \A k \in 1..Len(ws'[o][p]) : IsClean(o, ws'[o][p][k])
    <3>1. ~(o = call.order /\ p = StorageOf(call)) /\ ~IsBuffer(o, p)
      BY <2>1 DEF IsBuffer
    <3> QED BY <3>1, <1>1, <1>6 DEF StorageInv
  <2> QED BY <2>1, <1>6 DEF StorageInv
<1> QED BY <1>9, <1>10

-----------------------------------------------------------------------------
(* What the invariant says of the guards' slots and of the buffer there.     *)
LEMMA Facts ==
  ASSUME DriverInv, pc # "idle"
  PROVE  /\ call \in Calls /\ ValidCall(call) /\ call.order \in {1, 2} /\ Len(call.x) \in Nat
         /\ Width(call) \in Nat /\ i \in Nat \ {0} /\ j \in Nat \ {0}
         /\ \A k \in 1..Width(call) : Active(call)[k] \in 1..Len(call.x)
         /\ \A k \in 1..Len(call.x) : Dof[k] = SeededAs(call.order, call.x[k], Inner(k), Outer(k))
         /\ Len(Dof) >= Len(call.x)
<1>1. call \in Calls /\ Refusal(call) = "ok" /\ CountersInv /\ BufferInv
  BY DEF DriverInv
<1>2. ValidCall(call) /\ call.order \in {1, 2} /\ Len(call.x) \in Nat
  BY <1>1, DriverAssumption DEF ValidCall
<1> QED BY <1>1, <1>2, ActiveInPoint DEF CountersInv, BufferInv

(* Each hold and each release, as the move of one seed.                      *)
LEMMA HoldDerivMoves ==
  ASSUME DriverInv, HoldDeriv
  PROVE  DriverInv'
<1> DEFINE slot == Active(call)[j]
<1>1. /\ pc = "column" /\ pc' = "probe" /\ call.order = 1 /\ j \in 1..Width(call)
      /\ slot \in 1..Len(call.x) /\ held = <<>>
      /\ call' = call /\ j' = j /\ i' = i
  BY Facts DEF HoldDeriv, DriverInv, GuardsInv
<1>2. Dof[slot] = SeededAs(1, call.x[slot], Zero, Zero)
  BY <1>1, Facts DEF Inner, Outer
<1>3. PartOf(Dof[slot], "deriv") = Zero
  BY <1>2, SeedDeriv
<1>4. held' = <<Guard(slot, "deriv")>>
  BY <1>1, <1>3 DEF HoldDeriv, Hold, Guard
<1>5. ws' = [ws EXCEPT ![call.order][StorageOf(call)][slot] =
        SeededAs(call.order, call.x[slot], One, One)]
  <2>1. WithPart(Dof[slot], "deriv", One) = SeededAs(1, call.x[slot], One, One)
    BY <1>2, SeedDeriv
  <2> QED BY <2>1, <1>1 DEF HoldDeriv, Hold, Dof
<1>6. \A k \in 1..Len(call.x) :
        /\ Inner(k)' = (IF k = slot THEN One ELSE Inner(k))
        /\ Outer(k)' = (IF k = slot THEN One ELSE Outer(k))
  BY <1>1, <1>4 DEF Inner, Outer, SeedAt
<1>7. BufferInv' /\ StorageInv'
  <2>1. SeedPut(slot, One, One)
    BY <1>5, <1>6 DEF SeedPut
  <2> HIDE DEF slot
  <2> QED BY <2>1, <1>1, SeedMoves, DriverAssumption
<1> QED BY <1>1, <1>4, <1>7 DEF DriverInv, GuardsInv, CountersInv, ColumnGuard

LEMMA AppendedToOne ==
  ASSUME NEW g, NEW h
  PROVE  Append(<<g>>, h) = <<g, h>>
<1> DEFINE S == {g, h}
           s == Append(<<g>>, h)
<1>1. <<g>> \in Seq(S) /\ <<g, h>> \in Seq(S) /\ h \in S
  OBVIOUS
<1>2. s \in Seq(S) /\ Len(s) = 2 /\ s[1] = g /\ s[2] = h
  BY <1>1, AppendProperties
<1>3. Len(<<g, h>>) = 2 /\ \A k \in 1..2 : <<g, h>>[k] = s[k]
  BY <1>2
<1> HIDE DEF s, S
<1>4. s = <<g, h>>
  BY <1>1, <1>2, <1>3, SeqEqual
<1> QED BY <1>4 DEF s

LEMMA OneDropped ==
  ASSUME NEW g
  PROVE  SubSeq(<<g>>, 1, Len(<<g>>) - 1) = <<>> /\ <<g>>[Len(<<g>>)] = g
<1>1. <<g>> \in Seq({g}) /\ Len(<<g>>) = 1
  OBVIOUS
<1>2. SubSeq(<<g>>, 1, 0) = <<>>
  BY <1>1
<1> QED BY <1>1, <1>2

LEMMA TwoDropped ==
  ASSUME NEW g, NEW h
  PROVE  SubSeq(<<g, h>>, 1, Len(<<g, h>>) - 1) = <<g>> /\ <<g, h>>[Len(<<g, h>>)] = h
<1>1. <<g, h>> \in Seq({g, h}) /\ Len(<<g, h>>) = 2
  OBVIOUS
<1>2. SubSeq(<<g, h>>, 1, 1) = <<g>>
  <2> DEFINE S == {g, h}
             s == SubSeq(<<g, h>>, 1, 1)
  <2>1. \A k \in 1..1 : <<g, h>>[k] \in S
    OBVIOUS
  <2>2. s \in Seq(S) /\ Len(s) = 1 /\ s[1] = <<g, h>>[1]
    BY <2>1, SubSeqProperties
  <2>3. <<g>> \in Seq(S) /\ Len(<<g>>) = 1 /\ \A k \in 1..1 : <<g>>[k] = s[k]
    BY <2>2
  <2> HIDE DEF s, S
  <2>4. s = <<g>>
    BY <2>2, <2>3, SeqEqual
  <2> QED BY <2>4 DEF s
<1> QED BY <1>1, <1>2

LEMMA HoldInnerMoves ==
  ASSUME DriverInv, HoldInner
  PROVE  DriverInv'
<1> DEFINE slot == Active(call)[j]
<1>1. /\ pc = "column" /\ pc' = "row" /\ call.order = 2 /\ j \in 1..Width(call)
      /\ slot \in 1..Len(call.x) /\ held = <<>>
      /\ call' = call /\ j' = j /\ i' = 1
  BY Facts DEF HoldInner, DriverInv, GuardsInv
<1>2. Dof[slot] = SeededAs(2, call.x[slot], Zero, Zero)
  BY <1>1, Facts DEF Inner, Outer
<1>3. PartOf(Dof[slot], "inner") = Zero
  BY <1>2, SeedInner
<1>4. held' = <<Guard(slot, "inner")>>
  BY <1>1, <1>3 DEF HoldInner, Hold, Guard
<1>5. SeedPut(slot, One, Zero)
  <2>1. WithPart(Dof[slot], "inner", One) = SeededAs(2, call.x[slot], One, Zero)
    BY <1>2, SeedInner
  <2>2. ws' = [ws EXCEPT ![call.order][StorageOf(call)][slot]
                 = SeededAs(call.order, call.x[slot], One, Zero)]
    BY <2>1, <1>1 DEF HoldInner, Hold, Dof
  <2>3. \A k \in 1..Len(call.x) :
          /\ Inner(k)' = (IF k = slot THEN One ELSE Inner(k))
          /\ Outer(k)' = (IF k = slot THEN Zero ELSE Outer(k))
    BY <1>1, <1>4 DEF Inner, Outer, SeedAt
  <2> QED BY <2>2, <2>3 DEF SeedPut
<1>6. BufferInv' /\ StorageInv'
  <2> HIDE DEF slot
  <2> QED BY <1>1, <1>5, SeedMoves, DriverAssumption
<1> QED BY <1>1, <1>4, <1>6 DEF DriverInv, GuardsInv, CountersInv, ColumnGuard

LEMMA HoldOuterMoves ==
  ASSUME DriverInv, HoldOuter
  PROVE  DriverInv'
<1> DEFINE slot == Active(call)[i]
<1>1. /\ pc = "row" /\ pc' = "probe" /\ call.order = 2 /\ i \in 1..j /\ j \in 1..Width(call)
      /\ held = <<ColumnGuard>> /\ call' = call /\ j' = j /\ i' = i
  BY Facts DEF HoldOuter, InTriangle, DriverInv, GuardsInv, CountersInv
<1>2. slot \in 1..Len(call.x)
  BY <1>1, Facts
<1>3. Dof[slot] = SeededAs(2, call.x[slot], Inner(slot), Zero)
  BY <1>1, <1>2, Facts DEF Outer
<1>4. PartOf(Dof[slot], "outer") = Zero
  BY <1>3, SeedOuter
<1>5. held' = <<ColumnGuard, Guard(slot, "outer")>>
  <2>1. held' = Append(<<ColumnGuard>>, Guard(slot, "outer"))
    BY <1>1, <1>4 DEF HoldOuter, Hold, Guard
  <2> QED BY <2>1, AppendedToOne
<1>6. SeedPut(slot, Inner(slot), One)
  <2>1. WithPart(Dof[slot], "outer", One) = SeededAs(2, call.x[slot], Inner(slot), One)
    BY <1>3, SeedOuter
  <2>2. ws' = [ws EXCEPT ![call.order][StorageOf(call)][slot]
                 = SeededAs(call.order, call.x[slot], Inner(slot), One)]
    BY <2>1, <1>1 DEF HoldOuter, Hold, Dof
  <2>3. \A k \in 1..Len(call.x) :
          /\ Inner(k)' = (IF k = slot THEN Inner(slot) ELSE Inner(k))
          /\ Outer(k)' = (IF k = slot THEN One ELSE Outer(k))
    BY <1>1, <1>5 DEF Inner, Outer, SeedAt
  <2> QED BY <2>2, <2>3 DEF SeedPut
<1>7. BufferInv' /\ StorageInv'
  <2> DEFINE inner == Inner(slot)
  <2>1. inner \in Scalars
    BY DriverAssumption DEF Inner, SeedAt
  <2>2. SeedPut(slot, inner, One)
    BY <1>6
  <2> HIDE DEF slot, inner
  <2> QED BY <1>1, <1>2, <2>1, <2>2, SeedMoves, DriverAssumption
<1> QED BY <1>1, <1>5, <1>7 DEF DriverInv, GuardsInv, CountersInv, ColumnGuard, RowGuard

(* The last guard of a column, released: no seed is left. *)
LEMMA ColumnReleased ==
  ASSUME DriverInv, pc # "idle", pc' # "idle", call' = call, Release,
         held = <<ColumnGuard>>, j <= Width(call)
  PROVE  held' = <<>> /\ BufferInv' /\ StorageInv'
<1> DEFINE slot == Active(call)[j]
<1>1. Top = ColumnGuard /\ held' = <<>>
  BY OneDropped DEF Release, Top
<1>2. slot \in 1..Len(call.x) /\ call.order \in {1, 2}
  BY Facts
<1>3. Dof[slot] = SeededAs(call.order, call.x[slot], Inner(slot), Outer(slot))
  BY <1>2, Facts
<1>4. ColumnGuard.slot = slot /\ ColumnGuard.saved = Zero
      /\ ColumnGuard.part = IF call.order = 1 THEN "deriv" ELSE "inner"
  BY DEF ColumnGuard, Guard
<1>5. WithPart(Dof[slot], Top.part, Top.saved) = SeededAs(call.order, call.x[slot], Zero, Zero)
  <2>1. CASE call.order = 1
    <3>1. WithPart(Dof[slot], "deriv", Zero) = SeededAs(1, call.x[slot], Zero, Zero)
      BY <2>1, <1>3, SeedDeriv
    <3> QED BY <3>1, <2>1, <1>1, <1>4
  <2>2. CASE call.order = 2
    <3>1. Outer(slot) = Zero
      BY <2>2 DEF Outer
    <3>2. WithPart(Dof[slot], "inner", Zero) = SeededAs(2, call.x[slot], Zero, Zero)
      BY <2>2, <3>1, <1>3, SeedInner
    <3> QED BY <3>2, <2>2, <1>1, <1>4
  <2> QED BY <1>2, <2>1, <2>2
<1>6. SeedPut(slot, Zero, Zero)
  <2>1. ws' = [ws EXCEPT ![call.order][StorageOf(call)][slot]
                 = SeededAs(call.order, call.x[slot], Zero, Zero)]
    BY <1>1, <1>4, <1>5 DEF Release, Dof
  <2>2. \A k \in 1..Len(call.x) :
          /\ Inner(k)' = (IF k = slot THEN Zero ELSE Inner(k))
          /\ Outer(k)' = (IF k = slot THEN Zero ELSE Outer(k))
    BY <1>1, <1>2 DEF Inner, Outer, SeedAt
  <2> QED BY <2>1, <2>2 DEF SeedPut
<1> HIDE DEF slot
<1> QED BY <1>1, <1>2, <1>6, SeedMoves, DriverAssumption

(* A row's guard, released: the column's seed stays, also in the same number. *)
LEMMA RowReleased ==
  ASSUME DriverInv, pc # "idle", pc' # "idle", call' = call, j' = j, Release,
         call.order = 2, held = <<ColumnGuard, RowGuard>>, i <= j, j <= Width(call)
  PROVE  held' = <<ColumnGuard>> /\ BufferInv' /\ StorageInv'
<1> DEFINE slot == Active(call)[i]
<1>1. Top = RowGuard /\ held' = <<ColumnGuard>>
  BY TwoDropped DEF Release, Top
<1>2. slot \in 1..Len(call.x)
  BY Facts
<1>3. Dof[slot] = SeededAs(2, call.x[slot], Inner(slot), Outer(slot))
  BY <1>2, Facts
<1>4. RowGuard.slot = slot /\ RowGuard.saved = Zero /\ RowGuard.part = "outer"
  BY DEF RowGuard, Guard
<1>5. WithPart(Dof[slot], "outer", Zero) = SeededAs(2, call.x[slot], Inner(slot), Zero)
  BY <1>3, SeedOuter
<1>6. SeedPut(slot, Inner(slot), Zero)
  <2>1. ws' = [ws EXCEPT ![call.order][StorageOf(call)][slot]
                 = SeededAs(call.order, call.x[slot], Inner(slot), Zero)]
    BY <1>1, <1>4, <1>5 DEF Release, Dof
  <2>2. \A k \in 1..Len(call.x) :
          /\ Inner(k)' = (IF k = slot THEN Inner(slot) ELSE Inner(k))
          /\ Outer(k)' = (IF k = slot THEN Zero ELSE Outer(k))
    BY <1>1, <1>2 DEF Inner, Outer, SeedAt
  <2> QED BY <2>1, <2>2 DEF SeedPut
<1>7. BufferInv' /\ StorageInv'
  <2> DEFINE inner == Inner(slot)
  <2>1. inner \in Scalars
    BY DriverAssumption DEF Inner, SeedAt
  <2>2. SeedPut(slot, inner, Zero)
    BY <1>6
  <2> HIDE DEF slot, inner
  <2> QED BY <1>2, <2>1, <2>2, SeedMoves, DriverAssumption
<1> QED BY <1>1, <1>7

-----------------------------------------------------------------------------
LEMMA TailOf ==
  ASSUME NEW S, NEW s \in Seq(S), NEW n \in Nat
  PROVE  /\ SubSeq(s, n + 1, Len(s)) \in Seq(S)
         /\ Len(SubSeq(s, n + 1, Len(s))) = IF n + 1 <= Len(s) THEN Len(s) - n ELSE 0
         /\ \A k \in 1..Len(s) - n : SubSeq(s, n + 1, Len(s))[k] = s[n + k]
<1> DEFINE from == n + 1
           to == Len(s)
<1>1. from \in Int /\ to \in Int /\ \A k \in from..to : s[k] \in S
  OBVIOUS
<1>2. /\ SubSeq(s, from, to) \in Seq(S)
      /\ Len(SubSeq(s, from, to)) = (IF from <= to THEN to - from + 1 ELSE 0)
      /\ \A k \in 1..to - from + 1 : SubSeq(s, from, to)[k] = s[from + k - 1]
  <2> HIDE DEF from, to
  <2> QED BY <1>1, SubSeqProperties
<1>3. to - from + 1 = Len(s) - n /\ \A k \in 1..Len(s) - n : from + k - 1 = n + k
  OBVIOUS
<1> QED BY <1>2, <1>3

LEMMA SplitAt ==
  ASSUME NEW S, NEW s \in Seq(S), NEW n \in Nat, n <= Len(s)
  PROVE  /\ SubSeq(s, n + 1, Len(s)) \in Seq(S)
         /\ s = [k \in 1..n |-> s[k]] \o SubSeq(s, n + 1, Len(s))
<1> DEFINE head == [k \in 1..n |-> s[k]]
           tail == SubSeq(s, n + 1, Len(s))
<1>1. Len(s) \in Nat /\ \A k \in 1..Len(s) : s[k] \in S
  OBVIOUS
<1>2. head \in Seq(S) /\ Len(head) = n
  BY <1>1
<1>3. tail \in Seq(S) /\ Len(tail) = Len(s) - n /\ \A k \in 1..Len(s) - n : tail[k] = s[n + k]
  BY <1>1, TailOf
<1>4. \A k \in 1..n : head[k] = s[k]
  OBVIOUS
<1> DEFINE whole == head \o tail
<1> HIDE DEF head, tail
<1>5. /\ whole \in Seq(S) /\ Len(whole) = Len(s)
      /\ \A k \in 1..Len(s) : whole[k] = IF k <= n THEN head[k] ELSE tail[k - n]
  BY <1>1, <1>2, <1>3, ConcatProperties
<1> HIDE DEF whole
<1>6. ASSUME NEW k \in 1..Len(s)
      PROVE  whole[k] = s[k]
  <2>1. CASE k <= n
    <3>1. k \in 1..n
      BY <1>1, <2>1
    <3> QED BY <1>4, <1>5, <2>1, <3>1
  <2>2. CASE ~(k <= n)
    <3>1. k - n \in 1..Len(s) - n /\ n + (k - n) = k
      BY <1>1, <2>2
    <3>2. tail[k - n] = s[n + (k - n)]
      BY <1>3, <3>1
    <3> QED BY <1>5, <2>2, <3>1, <3>2
  <2> QED BY <2>1, <2>2
<1>7. whole = s
  BY <1>5, <1>6, SeqEqual
<1> QED BY <1>3, <1>7 DEF whole, head, tail

(* Seeding a point: the storage holds it, unseeded, before what was there.   *)
LEMMA PointSeeded ==
  ASSUME StorageInv, pc = "idle", NEW c \in Calls, Refusal(c) = "ok",
         call' = c, ws' = Seeded(c), held' = <<>>, pc' = "column"
  PROVE  BufferInv' /\ StorageInv'
<1> DEFINE new == Seeds(c)
           old == Kept[c.order][StorageOf(c)]
           buffer == Written(old, new)
<1>1. c.order \in {1, 2} /\ c.x \in Seq(Scalars) /\ Len(c.x) \in Nat /\ StorageOf(c) \in Places
  BY DriverAssumption, PlaceOfCall DEF ValidCall
<1>2. /\ \A o \in {1, 2} : ws[o] \in [Places -> Seq(Number(o))]
      /\ \A o \in {1, 2}, p \in Places : \A k \in 1..Len(ws[o][p]) : IsClean(o, ws[o][p][k])
  BY DEF StorageInv, IsBuffer
<1>3. /\ Kept = [o \in {1, 2} |-> Kept[o]]
      /\ \A o \in {1, 2} : Kept[o] \in [Places -> Seq(Number(o))]
      /\ \A o \in {1, 2}, p \in Places : Kept[o][p] = IF p = "local" THEN <<>> ELSE ws[o][p]
  BY <1>2 DEF Kept, Places
<1>4. \A o \in {1, 2}, p \in Places : \A k \in 1..Len(Kept[o][p]) : IsClean(o, Kept[o][p][k])
  BY <1>2, <1>3
<1>5. new \in Seq(Number(c.order)) /\ Len(new) = Len(c.x)
      /\ \A k \in 1..Len(c.x) : new[k] = Lifted(c.order, c.x[k])
  <2>1. \A k \in 1..Len(c.x) : Lifted(c.order, c.x[k]) \in Number(c.order)
    BY <1>1, LiftedIsNumber
  <2> QED BY <1>1, <2>1 DEF Seeds
<1>6. old \in Seq(Number(c.order)) /\ Len(old) \in Nat
  BY <1>1, <1>3
<1> DEFINE rest == SubSeq(old, Len(new) + 1, Len(old))
<1>7. rest \in Seq(Number(c.order)) /\ Len(rest) \in Nat
      /\ \A k \in 1..Len(rest) : IsClean(c.order, rest[k])
  <2>1. Len(new) \in Nat /\ \A k \in 1..Len(old) : IsClean(c.order, old[k])
    BY <1>1, <1>4, <1>5
  <2>2. /\ rest \in Seq(Number(c.order))
        /\ Len(rest) = (IF Len(new) + 1 <= Len(old) THEN Len(old) - Len(new) ELSE 0)
        /\ \A k \in 1..Len(old) - Len(new) : rest[k] = old[Len(new) + k]
    <3> HIDE DEF new, old
    <3> QED BY <2>1, <1>6, TailOf
  <2> HIDE DEF rest, new, old
  <2>3. ASSUME NEW k \in 1..Len(rest)
        PROVE  IsClean(c.order, rest[k])
    <3>1. k \in 1..Len(old) - Len(new) /\ Len(new) + k \in 1..Len(old)
      BY <1>6, <2>1, <2>2
    <3> QED BY <3>1, <2>1, <2>2
  <2> QED BY <2>2, <2>3
<1>8. /\ buffer \in Seq(Number(c.order)) /\ Len(buffer) = Len(c.x) + Len(rest)
      /\ \A k \in 1..Len(c.x) : buffer[k] = Lifted(c.order, c.x[k])
      /\ \A k \in Len(c.x) + 1..Len(buffer) : IsClean(c.order, buffer[k])
  <2>1. buffer = new \o rest
    BY DEF Written
  <2> HIDE DEF new, rest, buffer
  <2>2. /\ buffer \in Seq(Number(c.order)) /\ Len(buffer) = Len(new) + Len(rest)
        /\ \A k \in 1..Len(new) + Len(rest) :
             buffer[k] = IF k <= Len(new) THEN new[k] ELSE rest[k - Len(new)]
    BY <2>1, <1>5, <1>7, ConcatProperties
  <2>3. ASSUME NEW k \in 1..Len(c.x)
        PROVE  buffer[k] = Lifted(c.order, c.x[k])
    <3>1. k \in 1..Len(new) + Len(rest) /\ k <= Len(new)
      BY <1>1, <1>5, <1>7
    <3>2. buffer[k] = new[k]
      BY <3>1, <2>2
    <3> QED BY <3>2, <1>5
  <2>4. ASSUME NEW k \in Len(c.x) + 1..Len(buffer)
        PROVE  IsClean(c.order, buffer[k])
    <3>1. k - Len(new) \in 1..Len(rest) /\ buffer[k] = rest[k - Len(new)]
      BY <2>2, <1>1, <1>5, <1>7
    <3> QED BY <3>1, <1>7
  <2> QED BY <2>2, <2>3, <2>4, <1>5
<1>9. /\ ws' = [o \in {1, 2} |-> ws'[o]]
      /\ \A o \in {1, 2} : ws'[o] \in [Places -> Seq(Number(o))]
      /\ ws'[c.order][StorageOf(c)] = buffer
      /\ \A o \in {1, 2}, p \in Places :
           ~(o = c.order /\ p = StorageOf(c)) => ws'[o][p] = Kept[o][p]
  <2>1. ws' = [Kept EXCEPT ![c.order] = [Kept[c.order] EXCEPT ![StorageOf(c)] = buffer]]
    BY DEF Seeded
  <2> HIDE DEF buffer
  <2>2. ws'[c.order] = [Kept[c.order] EXCEPT ![StorageOf(c)] = buffer]
    BY <2>1, <1>1, <1>3
  <2>3. ws' = [o \in {1, 2} |-> ws'[o]] /\ \A o \in {1, 2} : o # c.order => ws'[o] = Kept[o]
    BY <2>1, <1>1, <1>3
  <2>4. ws'[c.order] \in [Places -> Seq(Number(c.order))]
    <3>1. Kept[c.order] \in [Places -> Seq(Number(c.order))]
      BY <1>1, <1>3
    <3> QED BY <3>1, <2>2, <1>8
  <2>5. /\ ws'[c.order][StorageOf(c)] = buffer
        /\ \A p \in Places : p # StorageOf(c) => ws'[c.order][p] = Kept[c.order][p]
    BY <2>2, <1>1, <1>3
  <2> QED BY <2>3, <2>4, <2>5, <1>3
<1> HIDE DEF buffer, rest, new, old
<1>10. Dof' = buffer
  BY <1>9 DEF Dof
<1>11. \A k \in 1..Len(c.x) : Inner(k)' = Zero /\ Outer(k)' = Zero
  BY DEF Inner, Outer
<1>12. BufferInv'
  <2>1. \A k \in 1..Len(c.x) : Dof'[k] = SeededAs(c.order, c.x[k], Inner(k)', Outer(k)')
    BY <1>1, <1>8, <1>10, <1>11, UnseededIsLifted
  <2>2. Len(Dof') >= Len(c.x)
    BY <1>1, <1>7, <1>8, <1>10
  <2> QED BY <2>1, <2>2, <1>8, <1>10 DEF BufferInv
<1>13. StorageInv'
  <2>1. ASSUME NEW o \in {1, 2}, NEW p \in Places, ~IsBuffer(o, p)'
        PROVE  \A k \in 1..Len(ws'[o][p]) : IsClean(o, ws'[o][p][k])
    <3>1. ~(o = c.order /\ p = StorageOf(c))
      BY <2>1 DEF IsBuffer
    <3> QED BY <3>1, <1>4, <1>9
  <2> QED BY <2>1, <1>9 DEF StorageInv
<1> QED BY <1>12, <1>13

LEMMA BeginSeeds ==
  ASSUME DriverInv, NEW c \in Calls, Begin(c)
  PROVE  DriverInv'
<1>1. /\ pc = "idle" /\ Refusal(c) = "ok" /\ call' = c /\ ws' = Seeded(c) /\ pc' = "column"
      /\ held = <<>> /\ held' = <<>> /\ j' = 1 /\ i' = i /\ i \in Nat \ {0} /\ StorageInv
  BY DEF Begin, DriverInv, GuardsInv, CountersInv
<1>2. BufferInv' /\ StorageInv'
  BY <1>1, PointSeeded
<1> QED BY <1>1, <1>2 DEF DriverInv, GuardsInv, CountersInv

(* A step that leaves the seeds, the guards and the call alone. *)
LEMMA SeedsUntouched ==
  ASSUME DriverInv, pc # "idle", pc' # "idle", UNCHANGED <<ws, call, held, j, i>>
  PROVE  BufferInv' /\ StorageInv'
BY DEF DriverInv, BufferInv, StorageInv, IsBuffer, Inner, Outer, Dof

(* The call is over: with no guard alive the buffer is clean like the rest.  *)
LEMMA CallOver ==
  ASSUME DriverInv, pc # "idle", pc' = "idle", held = <<>>, UNCHANGED <<ws, call, held, j, i>>
  PROVE  DriverInv'
<1>1. /\ ValidCall(call) /\ call.order \in {1, 2} /\ call.x \in Seq(Scalars)
      /\ StorageInv /\ BufferInv /\ Len(call.x) \in Nat
  <2>1. call \in Calls /\ StorageInv /\ BufferInv
    BY DEF DriverInv
  <2>2. ValidCall(call)
    BY <2>1, DriverAssumption
  <2> QED BY <2>1, <2>2 DEF ValidCall
<1>2. ASSUME NEW k \in 1..Len(Dof)
      PROVE  IsClean(call.order, Dof[k])
  <2>1. CASE k \in 1..Len(call.x)
    <3>1. Inner(k) = Zero /\ Outer(k) = Zero
      BY DEF Inner, Outer
    <3>2. Dof[k] = SeededAs(call.order, call.x[k], Inner(k), Outer(k))
      BY <2>1, <1>1 DEF BufferInv
    <3>3. Dof[k] = Lifted(call.order, call.x[k]) /\ call.x[k] \in Scalars
      BY <3>1, <3>2, <2>1, <1>1, UnseededIsLifted
    <3> QED BY <3>3 DEF IsClean
  <2>2. CASE k \in Len(call.x) + 1..Len(Dof)
    BY <2>2, <1>1 DEF BufferInv
  <2> QED BY <2>1, <2>2, <1>1
<1>3. \A o \in {1, 2}, p \in Places : \A k \in 1..Len(ws[o][p]) : IsClean(o, ws[o][p][k])
  <2>1. ASSUME NEW o \in {1, 2}, NEW p \in Places
        PROVE  \A k \in 1..Len(ws[o][p]) : IsClean(o, ws[o][p][k])
    <3>1. CASE IsBuffer(o, p)
      BY <3>1, <1>2 DEF IsBuffer, Dof
    <3>2. CASE ~IsBuffer(o, p)
      BY <3>2, <1>1 DEF StorageInv
    <3> QED BY <3>1, <3>2
  <2> QED BY <2>1
<1>4. StorageInv'
  BY <1>1, <1>3 DEF StorageInv
<1> QED BY <1>4 DEF DriverInv, GuardsInv, CountersInv, BufferInv

LEMMA ReleaseDerivMoves ==
  ASSUME DriverInv, ReleaseDeriv
  PROVE  DriverInv'
<1>1. j \in Nat \ {0} /\ i \in Nat \ {0}
  BY DEF DriverInv, CountersInv
<1>2. /\ pc = "closing" /\ pc' = "column" /\ call' = call /\ call.order = 1
      /\ j' = j + 1 /\ i' = i
  BY <1>1 DEF ReleaseDeriv
<1>3. Release
  BY DEF ReleaseDeriv
<1>4. j <= Width(call) /\ Width(call) \in Nat /\ call \in Calls /\ Refusal(call) = "ok"
  BY <1>1, <1>2, Facts DEF DriverInv, CountersInv
<1>5. held = <<ColumnGuard>>
  BY <1>2 DEF DriverInv, GuardsInv
<1>6. held' = <<>> /\ BufferInv' /\ StorageInv'
  BY <1>1, <1>2, <1>3, <1>4, <1>5, ColumnReleased
<1>7. GuardsInv'
  BY <1>1, <1>2, <1>6 DEF GuardsInv, ColumnGuard
<1>8. CountersInv'
  BY <1>1, <1>2, <1>4 DEF CountersInv
<1> QED BY <1>2, <1>4, <1>6, <1>7, <1>8 DEF DriverInv

LEMMA ReleaseInnerMoves ==
  ASSUME DriverInv, ReleaseInner
  PROVE  DriverInv'
<1>1. j \in Nat \ {0} /\ i \in Nat \ {0}
  BY DEF DriverInv, CountersInv
<1>2. /\ pc = "row" /\ pc' = "column" /\ call' = call /\ call.order = 2
      /\ j' = j + 1 /\ i' = i
  BY <1>1 DEF ReleaseInner, DriverInv, GuardsInv
<1>3. Release
  BY DEF ReleaseInner
<1>4. j <= Width(call) /\ Width(call) \in Nat /\ call \in Calls /\ Refusal(call) = "ok"
  BY <1>1, <1>2, Facts DEF DriverInv, CountersInv
<1>5. held = <<ColumnGuard>>
  BY <1>2 DEF DriverInv, GuardsInv
<1>6. held' = <<>> /\ BufferInv' /\ StorageInv'
  BY <1>1, <1>2, <1>3, <1>4, <1>5, ColumnReleased
<1>7. GuardsInv'
  BY <1>1, <1>2, <1>6 DEF GuardsInv, ColumnGuard
<1>8. CountersInv'
  BY <1>1, <1>2, <1>4 DEF CountersInv
<1> QED BY <1>2, <1>4, <1>6, <1>7, <1>8 DEF DriverInv

LEMMA ReleaseOuterMoves ==
  ASSUME DriverInv, ReleaseOuter
  PROVE  DriverInv'
<1>1. j \in Nat \ {0} /\ i \in Nat \ {0}
  BY DEF DriverInv, CountersInv
<1>2. /\ pc = "closing" /\ pc' = "row" /\ call' = call /\ call.order = 2
      /\ j' = j /\ i' = i + 1
  BY <1>1 DEF ReleaseOuter
<1>3. Release
  BY DEF ReleaseOuter
<1>4. i <= j /\ j <= Width(call) /\ Width(call) \in Nat /\ call \in Calls /\ Refusal(call) = "ok"
  BY <1>1, <1>2, Facts DEF DriverInv, CountersInv
<1>5. held = <<ColumnGuard, RowGuard>>
  <2>1. call.order # 1 /\ pc \in {"probe", "closing"}
    BY <1>2
  <2> QED BY <2>1 DEF DriverInv, GuardsInv
<1>6. held' = <<ColumnGuard>> /\ BufferInv' /\ StorageInv'
  BY <1>1, <1>2, <1>3, <1>4, <1>5, RowReleased
<1>7. GuardsInv'
  BY <1>1, <1>2, <1>6 DEF GuardsInv, ColumnGuard
<1>8. CountersInv'
  BY <1>1, <1>2, <1>4 DEF CountersInv
<1> QED BY <1>2, <1>4, <1>6, <1>7, <1>8 DEF DriverInv

LEMMA UnwindMoves ==
  ASSUME DriverInv, Unwind
  PROVE  DriverInv'
<1>1. /\ pc = "unwinding" /\ pc' = pc /\ Release /\ UNCHANGED <<call, j, i>>
      /\ j <= Width(call) /\ (call.order = 2 => i <= j)
      /\ \/ held = <<ColumnGuard>>
         \/ call.order = 2 /\ held = <<ColumnGuard, RowGuard>>
  BY DEF Unwind, Unwound, DriverInv, GuardsInv, CountersInv
<1>2. CASE held = <<ColumnGuard>>
  <2>1. held' = <<>> /\ BufferInv' /\ StorageInv'
    BY <1>1, <1>2, ColumnReleased
  <2> QED BY <1>1, <2>1 DEF DriverInv, GuardsInv, CountersInv
<1>3. CASE call.order = 2 /\ held = <<ColumnGuard, RowGuard>>
  <2>1. held' = <<ColumnGuard>> /\ BufferInv' /\ StorageInv'
    BY <1>1, <1>3, RowReleased
  <2> QED BY <1>1, <2>1 DEF DriverInv, GuardsInv, CountersInv, ColumnGuard
<1> QED BY <1>1, <1>2, <1>3

-----------------------------------------------------------------------------
LEMMA DriverInvInit == Init => DriverInv
<1> SUFFICES ASSUME Init
             PROVE  DriverInv
  OBVIOUS
<1>1. call \in Calls
  BY DriverAssumption DEF Init
<1>2. ws = [order \in {1, 2} |-> [where \in Places |-> <<>>]] /\ pc = "idle"
  BY DEF Init
<1>3. StorageInv
  <2>1. \A order \in {1, 2}, where \in Places : ws[order][where] = <<>>
    BY <1>2
  <2>2. \A order \in {1, 2} : ws[order] \in [Places -> Seq(Number(order))]
    BY <1>2
  <2>3. ws = [order \in {1, 2} |-> ws[order]]
    BY <1>2
  <2> QED BY <2>1, <2>2, <2>3 DEF StorageInv
<1> QED BY <1>1, <1>2, <1>3 DEF Init, DriverInv, GuardsInv, CountersInv, BufferInv

LEMMA DriverInvStep == DriverInv /\ [Next]_vars => DriverInv'
<1> SUFFICES ASSUME DriverInv, [Next]_vars
             PROVE  DriverInv'
  OBVIOUS
<1>1. ASSUME NEW c \in Calls, Refuse(c)
      PROVE  DriverInv'
  <2>1. /\ pc = "idle" /\ pc' = "idle" /\ call' = c /\ UNCHANGED <<ws, held, j, i>> /\ StorageInv
        /\ held = <<>> /\ j \in Nat \ {0} /\ i \in Nat \ {0}
    BY <1>1 DEF Refuse, DriverInv, GuardsInv, CountersInv
  <2>2. StorageInv'
    BY <2>1 DEF StorageInv, IsBuffer
  <2> QED BY <2>1, <2>2 DEF DriverInv, GuardsInv, CountersInv, BufferInv
<1>2. ASSUME NEW c \in Calls, Begin(c)
      PROVE  DriverInv'
  BY <1>2, BeginSeeds
<1>3. CASE HoldDeriv
  BY <1>3, HoldDerivMoves
<1>4. CASE ProbeGradient
  <2>1. BufferInv' /\ StorageInv'
    BY <1>4, SeedsUntouched DEF ProbeGradient
  <2> QED BY <1>4, <2>1 DEF ProbeGradient, DriverInv, GuardsInv, CountersInv, ColumnGuard
<1>5. CASE ReleaseDeriv
  BY <1>5, ReleaseDerivMoves
<1>6. CASE HoldInner
  BY <1>6, HoldInnerMoves
<1>7. CASE HoldOuter
  BY <1>7, HoldOuterMoves
<1>8. CASE ProbeHessian
  <2>1. BufferInv' /\ StorageInv'
    BY <1>8, SeedsUntouched DEF ProbeHessian
  <2> QED BY <1>8, <2>1 DEF ProbeHessian, DriverInv, GuardsInv, CountersInv, ColumnGuard, RowGuard
<1>9. CASE ReleaseOuter
  BY <1>9, ReleaseOuterMoves
<1>10. CASE ReleaseInner
  BY <1>10, ReleaseInnerMoves
<1>11. CASE Return
  BY <1>11, CallOver DEF Return, DriverInv, GuardsInv
<1>12. CASE Throw
  <2>1. BufferInv' /\ StorageInv'
    BY <1>12, SeedsUntouched DEF Throw
  <2>2. call.order \in {1, 2}
    BY <1>12, Facts DEF Throw
  <2> QED BY <1>12, <2>1, <2>2 DEF Throw, DriverInv, GuardsInv, CountersInv, ColumnGuard, RowGuard
<1>13. CASE Unwind
  BY <1>13, UnwindMoves
<1>14. CASE Escape
  BY <1>14, CallOver DEF Escape, Unwound
<1>15. CASE UNCHANGED vars
  BY <1>15 DEF vars, DriverInv, GuardsInv, CountersInv, BufferInv, StorageInv, IsBuffer,
               ColumnGuard, RowGuard, Inner, Outer, Dof
<1> QED BY <1>1, <1>2, <1>3, <1>4, <1>5, <1>6, <1>7, <1>8, <1>9, <1>10, <1>11, <1>12, <1>13,
           <1>14, <1>15 DEF Next

(* scope_guard.hpp, numeric.hpp: the guards alive are the loops' own, and    *)
(* the buffer is the point carrying exactly their seeds.                     *)
THEOREM DriverInvariant == Spec => []DriverInv
<1> QED BY DriverInvInit, DriverInvStep, PTL DEF Spec

(* The guards alive are the column's and the row's. *)
LEMMA ProbesExactlySeeded ==
  ASSUME DriverInv
  PROVE  ProbeSeedsExact
<1> SUFFICES ASSUME pc = "probe", NEW k \in 1..Len(call.x)
             PROVE  Dof[k] = SeededAs(call.order, call.x[k], SeedAt(k, Active(call)[j]),
                        SeedAt(k, Active(call)[IF call.order = 1 THEN j ELSE i]))
  BY DEF ProbeSeedsExact
<1>1. Dof[k] = SeededAs(call.order, call.x[k], Inner(k), Outer(k)) /\ call.order \in {1, 2}
  BY Facts
<1>2. held = IF call.order = 1 THEN <<ColumnGuard>> ELSE <<ColumnGuard, RowGuard>>
  BY DEF DriverInv, GuardsInv
<1>3. Inner(k) = SeedAt(k, Active(call)[j])
  BY <1>1, <1>2 DEF Inner
<1>4. Outer(k) = SeedAt(k, Active(call)[IF call.order = 1 THEN j ELSE i])
  BY <1>1, <1>2, <1>3 DEF Outer
<1> QED BY <1>1, <1>3, <1>4

(* Every probe of every callable sees the seeds its counters name, and no    *)
(* others, also when two of them meet in one number.                         *)
THEOREM SeedsAreExact == Spec => []ProbeSeedsExact
<1>1. DriverInv => ProbeSeedsExact
  BY ProbesExactlySeeded
<1> QED BY <1>1, DriverInvariant, PTL

(* No workspace is left seeded, whether calls return or throw.               *)
THEOREM WorkspacesLeftClean == Spec => []LeftClean
<1>1. DriverInv => LeftClean
  BY DEF DriverInv, StorageInv, LeftClean, IsBuffer
<1> QED BY <1>1, DriverInvariant, PTL

-----------------------------------------------------------------------------
(* What the callable answers is never the mark of a cell nobody wrote.       *)
EnergyWrites ==
  \A c \in Calls : \A dof \in Seq(Number(c.order)) :
    LET r == Energy(c.order, c.f, dof)
    IN  IF c.order = 1 THEN r.d # Unwritten
        ELSE r.d.v # Unwritten /\ r.v.d # Unwritten /\ r.d.d # Unwritten

(* The cells of the probes that are over by now. *)
Probed(row, column) ==
  \/ column < j
  \/ /\ column = j
     /\ pc = "closing" \/ (call.order = 2 /\ pc \in {"row", "probe"})
     /\ row < i \/ call.order = 1 \/ (pc = "closing" /\ row = i)

GradientCells == 1..(IF call.order = 1 THEN call.room ELSE Width(call))
Shaped ==
  /\ DOMAIN out.gradient = GradientCells /\ DOMAIN out.hessian = Cells(call)
  /\ pc # "idle" => out.outcome = "none"
PartialsWritten ==
  call.order = 1 /\ pc \notin {"idle", "unwinding"} =>
    \A k \in 1..Width(call) : Probed(k, k) => out.gradient[k] # Unwritten
EntriesWritten ==
  call.order = 2 /\ pc \notin {"idle", "unwinding"} =>
    \A column \in 1..Width(call) : \A row \in 1..column : Probed(row, column) =>
      /\ out.hessian[<<row, column>>] # Unwritten /\ out.hessian[<<column, row>>] # Unwritten
      /\ row = column => out.gradient[row] # Unwritten
WrittenInv == Shaped /\ PartialsWritten /\ EntriesWritten /\ EveryCellWritten

LEMMA FreshShape ==
  ASSUME NEW c \in Calls, NEW outcome
  PROVE  /\ Fresh(c, outcome).outcome = outcome
         /\ DOMAIN Fresh(c, outcome).gradient = 1..(IF c.order = 1 THEN c.room ELSE Width(c))
         /\ DOMAIN Fresh(c, outcome).hessian = Cells(c)
BY DEF Fresh

LEMMA NumbersInBuffer ==
  ASSUME DriverInv, pc # "idle"
  PROVE  Dof \in Seq(Number(call.order))
BY Facts, PlaceOfCall DEF DriverInv, StorageInv, Dof

(* A gradient's span has a cell for every column swept. *)
LEMMA RoomEnough ==
  ASSUME NEW c \in Calls, c.order = 1, Refusal(c) = "ok"
  PROVE  Width(c) <= c.room
BY DriverAssumption, ActiveInPoint DEF ValidCall, Width

(* No probe is over when a call begins. *)
LEMMA BeginWritten ==
  ASSUME DriverInv, NEW c \in Calls, Begin(c)
  PROVE  WrittenInv'
<1>1. call' = c /\ pc' = "column" /\ j' = 1 /\ out' = Fresh(c, "none")
  BY DEF Begin
<1>2. Shaped'
  BY <1>1, FreshShape DEF Shaped, GradientCells
<1>3. \A column \in 1..Width(c) : \A row \in 1..column : ~Probed(row, column)'
  BY <1>1 DEF Probed
<1>4. PartialsWritten' /\ EntriesWritten'
  BY <1>1, <1>3 DEF PartialsWritten, EntriesWritten, Probed
<1> QED BY <1>1, <1>2, <1>4, FreshShape DEF WrittenInv, EveryCellWritten

(* A step that ends no probe writes nothing; the counters leave no cell out. *)
LEMMA SameCells ==
  ASSUME DriverInv, WrittenInv, pc # "idle", pc' # "idle", UNCHANGED <<call, out>>,
         pc' \notin {"idle", "unwinding"} =>
           /\ pc # "unwinding"
           /\ \A column \in 1..Width(call) : \A row \in 1..column :
                Probed(row, column)' => Probed(row, column)
  PROVE  WrittenInv'
<1>1. Shaped'
  BY DEF WrittenInv, Shaped, GradientCells
<1>2. Width(call) \in Nat
  BY Facts
<1>3. PartialsWritten' /\ EntriesWritten'
  BY <1>2 DEF WrittenInv, PartialsWritten, EntriesWritten
<1> QED BY <1>1, <1>3 DEF WrittenInv, EveryCellWritten, Shaped

LEMMA ProbeGradientWrites ==
  ASSUME EnergyWrites, DriverInv, WrittenInv, ProbeGradient
  PROVE  WrittenInv'
<1> DEFINE r == Energy(1, call.f, Dof)
<1>1. pc = "probe" /\ pc' = "closing" /\ call.order = 1 /\ out' = WithPartial(r)
      /\ UNCHANGED <<call, j, i>>
  BY DEF ProbeGradient
<1>2. /\ call \in Calls /\ Width(call) \in Nat /\ j \in Nat /\ j <= Width(call)
      /\ Dof \in Seq(Number(call.order))
  BY <1>1, Facts, NumbersInBuffer DEF DriverInv, CountersInv
<1>3. r.d # Unwritten
  BY <1>1, <1>2 DEF EnergyWrites
<1> HIDE DEF r
<1>4. /\ out'.outcome = out.outcome /\ out'.hessian = out.hessian
      /\ out'.gradient = [out.gradient EXCEPT ![j] = r.d]
  BY <1>1 DEF WithPartial
<1>5. Shaped /\ DOMAIN out.gradient = GradientCells
  BY DEF WrittenInv, Shaped
<1>6. Shaped'
  BY <1>1, <1>4, <1>5 DEF Shaped, GradientCells
<1>7. PartialsWritten'
  <2> SUFFICES ASSUME NEW k \in 1..Width(call), Probed(k, k)'
               PROVE  out'.gradient[k] # Unwritten
    BY <1>1 DEF PartialsWritten
  <2>1. k < j \/ k = j
    BY <1>1 DEF Probed
  <2>2. k \in DOMAIN out.gradient
    <3>1. call.room \in Nat /\ Refusal(call) = "ok"
      BY <1>1, <1>2, DriverAssumption DEF ValidCall, DriverInv
    <3> QED BY <3>1, <1>1, <1>2, <1>5, RoomEnough DEF GradientCells
  <2>3. CASE k = j
    BY <1>3, <1>4, <2>2, <2>3
  <2>4. CASE k < j
    <3>1. out.gradient[k] # Unwritten
      BY <1>1, <2>4 DEF WrittenInv, PartialsWritten, Probed
    <3> QED BY <1>4, <1>2, <2>4, <3>1
  <2> QED BY <2>1, <2>3, <2>4
<1> QED BY <1>1, <1>5, <1>6, <1>7 DEF WrittenInv, EntriesWritten, EveryCellWritten, Shaped

LEMMA ProbeHessianWrites ==
  ASSUME EnergyWrites, DriverInv, WrittenInv, ProbeHessian
  PROVE  WrittenInv'
<1> DEFINE r == Energy(2, call.f, Dof)
<1>1. pc = "probe" /\ pc' = "closing" /\ call.order = 2 /\ out' = Harvested(r)
      /\ UNCHANGED <<call, j, i>>
  BY DEF ProbeHessian
<1>2. /\ call \in Calls /\ Width(call) \in Nat /\ j \in Nat /\ j <= Width(call)
      /\ i \in Nat \ {0} /\ i <= j /\ Dof \in Seq(Number(call.order))
  BY <1>1, Facts, NumbersInBuffer DEF DriverInv, CountersInv
<1>3. r.d.v # Unwritten /\ r.v.d # Unwritten /\ r.d.d # Unwritten
  <2>1. LET e == Energy(call.order, call.f, Dof)
        IN  IF call.order = 1 THEN e.d # Unwritten
            ELSE e.d.v # Unwritten /\ e.v.d # Unwritten /\ e.d.d # Unwritten
    BY <1>2 DEF EnergyWrites
  <2> QED BY <1>1, <2>1
<1> HIDE DEF r
<1> DEFINE g == [out.gradient EXCEPT ![i] = r.d.v]
           h == [out.hessian EXCEPT ![<<i, j>>] = r.d.d]
<1>4. /\ out'.outcome = out.outcome /\ out'.gradient = [g EXCEPT ![j] = r.v.d]
      /\ out'.hessian = [h EXCEPT ![<<j, i>>] = r.d.d]
  BY <1>1 DEF Harvested
<1>5. /\ Shaped /\ DOMAIN out.gradient = 1..Width(call)
      /\ DOMAIN out.hessian = (1..Width(call)) \X (1..Width(call))
  BY <1>1 DEF WrittenInv, Shaped, GradientCells, Cells
<1>6. DOMAIN g = 1..Width(call) /\ DOMAIN h = (1..Width(call)) \X (1..Width(call))
  BY <1>5
<1>7. /\ \A k \in 1..Width(call) :
           out'.gradient[k] = IF k = j THEN r.v.d ELSE IF k = i THEN r.d.v ELSE out.gradient[k]
      /\ DOMAIN out'.gradient = 1..Width(call)
  BY <1>4, <1>5, <1>6
<1>8. /\ \A cell \in (1..Width(call)) \X (1..Width(call)) :
           out'.hessian[cell] = IF cell \in {<<i, j>>, <<j, i>>} THEN r.d.d ELSE out.hessian[cell]
      /\ DOMAIN out'.hessian = (1..Width(call)) \X (1..Width(call))
  BY <1>4, <1>5, <1>6
<1> HIDE DEF g, h
<1>9. Shaped'
  BY <1>1, <1>4, <1>5, <1>7, <1>8 DEF Shaped, GradientCells, Cells
<1>10. EntriesWritten'
  <2> SUFFICES ASSUME NEW column \in 1..Width(call), NEW row \in 1..column, Probed(row, column)'
               PROVE  /\ out'.hessian[<<row, column>>] # Unwritten
                      /\ out'.hessian[<<column, row>>] # Unwritten
                      /\ row = column => out'.gradient[row] # Unwritten
    BY <1>1 DEF EntriesWritten
  <2>1. /\ row \in 1..Width(call)
        /\ <<row, column>> \in (1..Width(call)) \X (1..Width(call))
        /\ <<column, row>> \in (1..Width(call)) \X (1..Width(call))
    BY <1>2
  <2>2. CASE row = i /\ column = j
    BY <1>3, <1>7, <1>8, <2>1, <2>2
  <2>3. CASE ~(row = i /\ column = j)
    <3>1. Probed(row, column)
      BY <1>1, <2>3 DEF Probed
    <3>2. /\ out.hessian[<<row, column>>] # Unwritten /\ out.hessian[<<column, row>>] # Unwritten
          /\ row = column => out.gradient[row] # Unwritten
      BY <1>1, <3>1 DEF WrittenInv, EntriesWritten
    <3> QED BY <1>3, <1>7, <1>8, <2>1, <3>2
  <2> QED BY <2>2, <2>3
<1>11. out'.outcome = "none"
  BY <1>1, <1>4, <1>5 DEF Shaped
<1> QED BY <1>1, <1>9, <1>10, <1>11 DEF WrittenInv, PartialsWritten, EveryCellWritten

(* The loops have been over every column when the call returns. *)
LEMMA ReturnWritten ==
  ASSUME DriverInv, WrittenInv, Return
  PROVE  WrittenInv'
<1>1. /\ pc = "column" /\ pc' = "idle" /\ j > Width(call) /\ call' = call
      /\ out'.gradient = out.gradient /\ out'.hessian = out.hessian
  BY DEF Return
<1>2. call.order \in {1, 2} /\ Width(call) \in Nat /\ j \in Nat
  BY <1>1, Facts
<1>3. \A column \in 1..Width(call) : \A row \in 1..column : Probed(row, column)
  BY <1>1, <1>2 DEF Probed
<1>4. ASSUME NEW k \in 1..Width(call) PROVE out.gradient[k] # Unwritten
  <2>1. k \in 1..k /\ Probed(k, k)
    BY <1>2, <1>3
  <2>2. CASE call.order = 1
    BY <1>1, <2>1, <2>2 DEF WrittenInv, PartialsWritten
  <2>3. CASE call.order = 2
    BY <1>1, <2>1, <2>3 DEF WrittenInv, EntriesWritten
  <2> QED BY <1>2, <2>2, <2>3
<1>5. ASSUME NEW cell \in Cells(call) PROVE out.hessian[cell] # Unwritten
  <2>1. call.order = 2
    BY <1>2 DEF Cells
  <2>2. PICK u \in 1..Width(call), w \in 1..Width(call) : cell = <<u, w>>
    BY <2>1 DEF Cells
  <2>3. CASE u <= w
    <3>1. u \in 1..w /\ Probed(u, w)
      BY <2>3, <1>2, <1>3
    <3> QED BY <1>1, <2>1, <2>2, <3>1 DEF WrittenInv, EntriesWritten
  <2>4. CASE w < u
    <3>1. w \in 1..u /\ Probed(w, u)
      BY <2>4, <1>2, <1>3
    <3> QED BY <1>1, <2>1, <2>2, <3>1 DEF WrittenInv, EntriesWritten
  <2> QED BY <2>3, <2>4, <1>2
<1> QED BY <1>1, <1>4, <1>5
    DEF WrittenInv, EveryCellWritten, Shaped, GradientCells, PartialsWritten, EntriesWritten

LEMMA WrittenInvStep ==
  ASSUME EnergyWrites, DriverInv, WrittenInv, [Next]_vars
  PROVE  WrittenInv'
<1>1. ASSUME NEW c \in Calls, Refuse(c)
      PROVE  WrittenInv'
  <2>1. pc = "idle" /\ pc' = "idle" /\ call' = c /\ out' = Fresh(c, Refusal(c))
    BY <1>1 DEF Refuse
  <2>2. Refusal(c) # "returned"
    BY DEF Refusal, Checked
  <2> QED BY <2>1, <2>2, FreshShape DEF WrittenInv, Shaped, GradientCells, PartialsWritten,
             EntriesWritten, EveryCellWritten
<1>2. ASSUME NEW c \in Calls, Begin(c)
      PROVE  WrittenInv'
  BY <1>2, BeginWritten
<1>3. CASE HoldDeriv
  BY <1>3, SameCells DEF HoldDeriv, Probed
<1>4. CASE ProbeGradient
  BY <1>4, ProbeGradientWrites
<1>5. CASE ReleaseDeriv
  <2>1. /\ pc = "closing" /\ call.order = 1 /\ pc' = "column" /\ UNCHANGED <<call, out>>
        /\ j' = j + 1 /\ j \in Nat /\ Width(call) \in Nat
    BY <1>5, Facts DEF ReleaseDeriv
  <2>2. \A column \in 1..Width(call) : \A row \in 1..column :
          Probed(row, column)' => Probed(row, column)
    <3> SUFFICES ASSUME NEW column \in 1..Width(call), NEW row \in 1..column, Probed(row, column)'
                 PROVE  Probed(row, column)
      OBVIOUS
    <3>1. column < j' \/ column = j'
      BY <2>1 DEF Probed
    <3>2. column # j'
      BY <2>1 DEF Probed
    <3>3. column < j \/ column = j
      BY <2>1, <3>1, <3>2
    <3> QED BY <2>1, <3>3 DEF Probed
  <2> QED BY <2>1, <2>2, SameCells
<1>6. CASE HoldInner
  <2>1. pc = "column" /\ call.order = 2 /\ pc' = "row" /\ i' = 1 /\ UNCHANGED <<call, out, j>>
        /\ j \in Nat /\ Width(call) \in Nat
    BY <1>6, Facts DEF HoldInner
  <2>2. \A column \in 1..Width(call) : \A row \in 1..column :
          Probed(row, column)' => Probed(row, column)
    <3> SUFFICES ASSUME NEW column \in 1..Width(call), NEW row \in 1..column, Probed(row, column)'
                 PROVE  Probed(row, column)
      OBVIOUS
    <3>1. column < j \/ (column = j /\ row < i')
      BY <2>1 DEF Probed
    <3>2. column < j \/ (column = j /\ (row < i \/ row = i))
      BY <2>1, <3>1
    <3>3. CASE column < j
      BY <3>3 DEF Probed
    <3>4. CASE column = j /\ (row < i \/ row = i)
      BY <2>1, <3>4 DEF Probed
    <3> QED BY <3>2, <3>3, <3>4
  <2> QED BY <2>1, <2>2, SameCells
<1>7. CASE HoldOuter
  BY <1>7, SameCells DEF HoldOuter, Probed
<1>8. CASE ProbeHessian
  BY <1>8, ProbeHessianWrites
<1>9. CASE ReleaseOuter
  <2>1. /\ pc = "closing" /\ call.order = 2 /\ pc' = "row" /\ UNCHANGED <<call, out, j>>
        /\ i' = i + 1 /\ i \in Nat /\ j \in Nat /\ Width(call) \in Nat
    BY <1>9, Facts DEF ReleaseOuter
  <2>2. \A column \in 1..Width(call) : \A row \in 1..column :
          Probed(row, column)' => Probed(row, column)
    <3> SUFFICES ASSUME NEW column \in 1..Width(call), NEW row \in 1..column, Probed(row, column)'
                 PROVE  Probed(row, column)
      OBVIOUS
    <3>1. column < j \/ (column = j /\ row < i')
      BY <2>1 DEF Probed
    <3> QED BY <2>1, <3>1 DEF Probed
  <2> QED BY <2>1, <2>2, SameCells
<1>10. CASE ReleaseInner
  <2>1. /\ pc = "row" /\ i > j /\ pc' = "column" /\ UNCHANGED <<call, out>>
        /\ j' = j + 1 /\ j \in Nat /\ i \in Nat /\ Width(call) \in Nat /\ call.order = 2
    BY <1>10, Facts DEF ReleaseInner, InTriangle, DriverInv, GuardsInv
  <2>2. \A column \in 1..Width(call) : \A row \in 1..column :
          Probed(row, column)' => Probed(row, column)
    BY <2>1 DEF Probed
  <2> QED BY <2>1, <2>2, SameCells
<1>11. CASE Return
  BY <1>11, ReturnWritten
<1>12. CASE Throw
  BY <1>12, SameCells DEF Throw
<1>13. CASE Unwind
  BY <1>13, SameCells DEF Unwind
<1>14. CASE Escape
  BY <1>14 DEF Escape, WrittenInv, Shaped, GradientCells, PartialsWritten, EntriesWritten,
               EveryCellWritten
<1>15. CASE UNCHANGED vars
  BY <1>15 DEF vars, WrittenInv, Shaped, GradientCells, PartialsWritten, EntriesWritten,
               EveryCellWritten, Probed
<1> QED BY <1>1, <1>2, <1>3, <1>4, <1>5, <1>6, <1>7, <1>8, <1>9, <1>10, <1>11, <1>12, <1>13,
           <1>14, <1>15 DEF Next

(* "Writes every cell of both outputs": of every callable whose derivatives  *)
(* are values, a call that returns has written every column it was asked.    *)
THEOREM CellsAreWritten ==
  ASSUME EnergyWrites
  PROVE  Spec => []EveryCellWritten
<1>1. Init => WrittenInv
  <2> SUFFICES ASSUME Init
               PROVE  WrittenInv
    OBVIOUS
  <2>1. call \in Calls /\ out = Fresh(call, "none") /\ pc = "idle"
    BY DriverAssumption DEF Init
  <2>2. Shaped /\ out.outcome = "none"
    BY <2>1, FreshShape DEF Shaped, GradientCells
  <2> QED BY <2>1, <2>2 DEF WrittenInv, PartialsWritten, EntriesWritten, EveryCellWritten
<1>2. DriverInv /\ WrittenInv /\ [Next]_vars => WrittenInv'
  BY WrittenInvStep
<1>3. WrittenInv => EveryCellWritten
  BY DEF WrittenInv
<1> QED BY <1>1, <1>2, <1>3, DriverInvariant, PTL DEF Spec

-----------------------------------------------------------------------------
(* What the callable is trusted for, over every buffer that starts with the  *)
(* seeded point.                                                             *)
AnyTail == [order \in {1, 2} |-> Seq(Number(order))]
Differentiates == DifferentiatesOver(AnyTail)

(* A probe of this call is over, so its value is there. *)
Valued ==
  \/ pc = "column" /\ j > 1
  \/ pc \in {"row", "probe"} /\ (j > 1 \/ i > 1)
  \/ pc = "closing"
  \/ pc = "idle" /\ out.outcome = "returned" /\ Active(call) # <<>>

PartialsRight ==
  \A k \in DOMAIN out.gradient : out.gradient[k] # Unwritten =>
    /\ Refusal(call) = "ok" /\ k \in 1..Width(call)
    /\ Agrees(out.gradient[k], FirstAt(call.f, call.x, Column(k)))
EntriesRight ==
  \A cell \in DOMAIN out.hessian : out.hessian[cell] # Unwritten =>
    Agrees(out.hessian[cell], SecondAt(call.f, call.x, Column(cell[1]), Column(cell[2])))
ValueRight == call.order = 2 /\ Valued => Agrees(out.value, Value(call.f, call.x))
RightInv ==
  /\ pc # "idle" => out.outcome = "none"
  /\ PartialsRight /\ EntriesRight /\ ValueRight

(* The probe under way runs the callable where it is trusted.                *)
LEMMA ProbeIsSeeded ==
  ASSUME Differentiates, DriverInv, pc = "probe"
  PROVE  Differentiated(call, Column(j), Column(IF call.order = 1 THEN j ELSE i),
                        Energy(call.order, call.f, Dof))
<1> DEFINE inner == Column(j)
           outer == Column(IF call.order = 1 THEN j ELSE i)
           point == SeededPoint(call, inner, outer)
           n == Len(call.x)
           tail == SubSeq(Dof, n + 1, Len(Dof))
<1>1. /\ call \in Calls /\ call.order \in {1, 2} /\ Refusal(call) = "ok"
      /\ n \in Nat /\ Len(Dof) >= n /\ call.x \in Seq(Scalars)
  BY Facts DEF DriverInv, ValidCall
<1>2. Dof \in Seq(Number(call.order)) /\ Len(Dof) \in Nat
  BY NumbersInBuffer
<1>3. inner \in 1..n /\ outer \in 1..n /\ (call.order = 1 => inner = outer)
  <2>1. j \in 1..Width(call) /\ (call.order = 2 => i \in 1..Width(call))
    BY Facts DEF DriverInv, CountersInv
  <2> QED BY <2>1, <1>1, Facts DEF Column
<1>4. \A k \in 1..n : Dof[k] = SeededAs(call.order, call.x[k], SeedAt(k, inner), SeedAt(k, outer))
  BY ProbesExactlySeeded DEF ProbeSeedsExact, Column
<1>5. point = [k \in 1..n |-> Dof[k]]
  BY <1>4 DEF SeededPoint
<1>6. Dof = point \o tail /\ tail \in Seq(Number(call.order))
  <2> HIDE DEF inner, outer, point, n
  <2> QED BY <1>1, <1>2, <1>5, SplitAt
<1>7. <<inner, outer>> \in Slots(call)
  BY <1>3 DEF Slots
<1>8. tail \in AnyTail[call.order]
  BY <1>1, <1>6 DEF AnyTail
<1>9. Differentiated(call, <<inner, outer>>[1], <<inner, outer>>[2],
        Energy(call.order, call.f,
               SeededPoint(call, <<inner, outer>>[1], <<inner, outer>>[2]) \o tail))
  <2> HIDE DEF inner, outer, point, n, tail
  <2> QED BY <1>1, <1>7, <1>8 DEF Differentiates, DifferentiatesOver
<1> QED BY <1>6, <1>9

(* Where no cell is written and no value claimed. *)
LEMMA NothingWritten ==
  ASSUME NEW c \in Calls, NEW outcome, outcome # "returned",
         call' = c, out' = Fresh(c, outcome),
         \/ pc' = "idle"
         \/ pc' = "column" /\ j' = 1 /\ outcome = "none"
  PROVE  RightInv'
<1>1. /\ DOMAIN out'.gradient = 1..(IF c.order = 1 THEN c.room ELSE Width(c))
      /\ \A k \in DOMAIN out'.gradient : out'.gradient[k] = Unwritten
      /\ \A cell \in DOMAIN out'.hessian : out'.hessian[cell] = Unwritten
      /\ out'.outcome = outcome
  BY DEF Fresh
<1>2. PartialsRight' /\ EntriesRight'
  BY <1>1 DEF PartialsRight, EntriesRight
<1>3. ~Valued'
  BY <1>1 DEF Valued
<1> QED BY <1>1, <1>2, <1>3 DEF RightInv, ValueRight

(* A step that ends no probe leaves the cells alone. *)
LEMMA SameAnswers ==
  ASSUME RightInv, UNCHANGED <<call, out>>, pc # "idle", Valued' => Valued
  PROVE  RightInv'
<1>1. PartialsRight' /\ EntriesRight'
  BY DEF RightInv, PartialsRight, EntriesRight, Column
<1> QED BY <1>1 DEF RightInv, ValueRight

LEMMA ProbeGradientRight ==
  ASSUME Differentiates, DriverInv, RightInv, ProbeGradient
  PROVE  RightInv'
<1> DEFINE r == Energy(1, call.f, Dof)
<1>1. pc = "probe" /\ pc' = "closing" /\ call.order = 1 /\ out' = WithPartial(r)
      /\ call' = call /\ j' = j
  BY DEF ProbeGradient
<1>2. Agrees(r.d, FirstAt(call.f, call.x, Column(j)))
  BY <1>1, ProbeIsSeeded DEF Differentiated
<1> HIDE DEF r
<1>3. /\ out'.outcome = out.outcome /\ out'.hessian = out.hessian
      /\ out'.gradient = [out.gradient EXCEPT ![j] = r.d]
  BY <1>1 DEF WithPartial
<1>4. Refusal(call) = "ok" /\ j \in 1..Width(call)
  BY <1>1, Facts DEF DriverInv, CountersInv
<1>5. PartialsRight'
  <2> SUFFICES ASSUME NEW k \in DOMAIN out'.gradient, out'.gradient[k] # Unwritten
               PROVE  /\ Refusal(call) = "ok" /\ k \in 1..Width(call)
                      /\ Agrees(out'.gradient[k], FirstAt(call.f, call.x, Column(k)))
    BY <1>1 DEF PartialsRight, Column
  <2>1. k \in DOMAIN out.gradient /\ out'.gradient[k] = IF k = j THEN r.d ELSE out.gradient[k]
    BY <1>3
  <2>2. CASE k = j
    BY <1>2, <1>4, <2>1, <2>2
  <2>3. CASE k # j
    BY <2>1, <2>3 DEF RightInv, PartialsRight
  <2> QED BY <2>2, <2>3
<1>6. EntriesRight'
  BY <1>1, <1>3 DEF RightInv, EntriesRight, Column
<1> QED BY <1>1, <1>3, <1>5, <1>6 DEF RightInv, ValueRight

LEMMA ProbeHessianRight ==
  ASSUME Differentiates, DriverInv, RightInv, ProbeHessian
  PROVE  RightInv'
<1> DEFINE r == Energy(2, call.f, Dof)
<1>1. pc = "probe" /\ pc' = "closing" /\ call.order = 2 /\ out' = Harvested(r)
      /\ call' = call /\ j' = j /\ i' = i
  BY DEF ProbeHessian
<1>2. /\ Agrees(r.v.v, Value(call.f, call.x))
      /\ Agrees(r.v.d, FirstAt(call.f, call.x, Column(j)))
      /\ Agrees(r.d.v, FirstAt(call.f, call.x, Column(i)))
      /\ Agrees(r.d.d, SecondAt(call.f, call.x, Column(i), Column(j)))
      /\ Agrees(r.d.d, SecondAt(call.f, call.x, Column(j), Column(i)))
  <2>1. Differentiated(call, Column(j), Column(i), r)
    BY <1>1, ProbeIsSeeded
  <2> HIDE DEF r
  <2> QED BY <2>1, <1>1 DEF Differentiated
<1> HIDE DEF r
<1> DEFINE g == [out.gradient EXCEPT ![i] = r.d.v]
           h == [out.hessian EXCEPT ![<<i, j>>] = r.d.d]
<1>3. /\ out'.outcome = out.outcome /\ out'.value = r.v.v
      /\ out'.gradient = [g EXCEPT ![j] = r.v.d]
      /\ out'.hessian = [h EXCEPT ![<<j, i>>] = r.d.d]
  BY <1>1 DEF Harvested
<1>4. Refusal(call) = "ok" /\ j \in 1..Width(call) /\ i \in 1..Width(call)
  BY <1>1, Facts DEF DriverInv, CountersInv
<1>5. PartialsRight'
  <2> SUFFICES ASSUME NEW k \in DOMAIN out'.gradient, out'.gradient[k] # Unwritten
               PROVE  /\ Refusal(call) = "ok" /\ k \in 1..Width(call)
                      /\ Agrees(out'.gradient[k], FirstAt(call.f, call.x, Column(k)))
    BY <1>1 DEF PartialsRight, Column
  <2>1. /\ k \in DOMAIN out.gradient
        /\ out'.gradient[k] = IF k = j THEN r.v.d ELSE IF k = i THEN r.d.v ELSE out.gradient[k]
    BY <1>3
  <2> HIDE DEF g, h
  <2>2. CASE k = j
    BY <1>2, <1>4, <2>1, <2>2
  <2>3. CASE k # j /\ k = i
    BY <1>2, <1>4, <2>1, <2>3
  <2>4. CASE k # j /\ k # i
    BY <2>1, <2>4 DEF RightInv, PartialsRight
  <2> QED BY <2>2, <2>3, <2>4
<1>6. EntriesRight'
  <2> SUFFICES ASSUME NEW cell \in DOMAIN out'.hessian, out'.hessian[cell] # Unwritten
               PROVE  Agrees(out'.hessian[cell],
                             SecondAt(call.f, call.x, Column(cell[1]), Column(cell[2])))
    BY <1>1 DEF EntriesRight, Column
  <2>1. /\ cell \in DOMAIN out.hessian
        /\ out'.hessian[cell] = IF cell \in {<<i, j>>, <<j, i>>} THEN r.d.d ELSE out.hessian[cell]
    BY <1>3
  <2> HIDE DEF g, h
  <2>2. CASE cell = <<i, j>>
    BY <1>2, <2>1, <2>2
  <2>3. CASE cell = <<j, i>>
    BY <1>2, <2>1, <2>3
  <2>4. CASE cell \notin {<<i, j>>, <<j, i>>}
    BY <2>1, <2>4 DEF RightInv, EntriesRight
  <2> QED BY <2>2, <2>3, <2>4
<1>7. ValueRight'
  BY <1>1, <1>2, <1>3 DEF ValueRight
<1> QED BY <1>1, <1>3, <1>5, <1>6, <1>7 DEF RightInv

(* Returning: a point with a column has been probed there. *)
LEMMA ReturnRight ==
  ASSUME DriverInv, RightInv, Return
  PROVE  RightInv'
<1>1. /\ pc = "column" /\ pc' = "idle" /\ j > Width(call) /\ call' = call
      /\ out'.gradient = out.gradient /\ out'.hessian = out.hessian /\ out'.value = out.value
  BY DEF Return
<1>2. Width(call) \in Nat /\ j \in Nat /\ Refusal(call) = "ok" /\ call \in Calls
  BY <1>1, Facts DEF DriverInv
<1>3. PartialsRight' /\ EntriesRight'
  BY <1>1 DEF RightInv, PartialsRight, EntriesRight, Column
<1>4. call.order = 2 /\ Active(call) # <<>> => j > 1
  <2> SUFFICES ASSUME call.order = 2, Active(call) # <<>>
               PROVE  Width(call) > 0
    BY <1>1, <1>2
  <2>1. Active(call) \in Seq(Nat \ {0})
    BY <1>2, ActiveInPoint
  <2>2. Len(Active(call)) > 0
    BY <2>1, EmptySeq
  <2> QED BY <2>2 DEF Width
<1>5. ValueRight'
  BY <1>1, <1>4 DEF RightInv, ValueRight, Valued
<1> QED BY <1>1, <1>3, <1>5 DEF RightInv

LEMMA RightInvStep ==
  ASSUME Differentiates, DriverInv, RightInv, [Next]_vars
  PROVE  RightInv'
<1>1. ASSUME NEW c \in Calls, Refuse(c)
      PROVE  RightInv'
  <2>1. pc' = "idle" /\ call' = c /\ out' = Fresh(c, Refusal(c)) /\ Refusal(c) # "returned"
    BY <1>1 DEF Refuse, Refusal, Checked
  <2> QED BY <2>1, NothingWritten
<1>2. ASSUME NEW c \in Calls, Begin(c)
      PROVE  RightInv'
  BY <1>2, NothingWritten DEF Begin
<1>3. CASE HoldDeriv
  <2>1. pc = "column" /\ pc' = "probe" /\ call.order = 1 /\ UNCHANGED <<call, out>>
    BY <1>3 DEF HoldDeriv
  <2>2. PartialsRight' /\ EntriesRight'
    BY <2>1 DEF RightInv, PartialsRight, EntriesRight, Column
  <2> QED BY <2>1, <2>2 DEF RightInv, ValueRight
<1>4. CASE ProbeGradient
  BY <1>4, ProbeGradientRight
<1>5. CASE ReleaseDeriv
  BY <1>5, SameAnswers DEF ReleaseDeriv, Valued
<1>6. CASE HoldInner
  <2>1. pc = "column" /\ pc' = "row" /\ i' = 1 /\ j' = j /\ UNCHANGED <<call, out>>
    BY <1>6 DEF HoldInner
  <2> QED BY <2>1, SameAnswers DEF Valued
<1>7. CASE HoldOuter
  BY <1>7, SameAnswers DEF HoldOuter, Valued
<1>8. CASE ProbeHessian
  BY <1>8, ProbeHessianRight
<1>9. CASE ReleaseOuter
  BY <1>9, SameAnswers DEF ReleaseOuter, Valued
<1>10. CASE ReleaseInner
  <2>1. pc = "row" /\ pc' = "column" /\ i > j /\ j \in Nat \ {0} /\ i \in Nat
        /\ UNCHANGED <<call, out>>
    BY <1>10, Facts DEF ReleaseInner, InTriangle, DriverInv, GuardsInv
  <2>2. i > 1
    BY <2>1
  <2> QED BY <2>1, <2>2, SameAnswers DEF Valued
<1>11. CASE Return
  BY <1>11, ReturnRight
<1>12. CASE Throw
  BY <1>12, SameAnswers DEF Throw, Valued
<1>13. CASE Unwind
  BY <1>13, SameAnswers DEF Unwind, Valued
<1>14. CASE Escape
  <2>1. /\ pc' = "idle" /\ call' = call /\ out'.outcome = "thrown"
        /\ out'.gradient = out.gradient /\ out'.hessian = out.hessian
    BY <1>14 DEF Escape
  <2>2. PartialsRight' /\ EntriesRight'
    BY <2>1 DEF RightInv, PartialsRight, EntriesRight, Column
  <2> QED BY <2>1, <2>2 DEF RightInv, ValueRight, Valued
<1>15. CASE UNCHANGED vars
  <2>1. UNCHANGED <<call, out, pc, j, i>>
    BY <1>15 DEF vars
  <2>2. PartialsRight' /\ EntriesRight'
    BY <2>1 DEF RightInv, PartialsRight, EntriesRight, Column
  <2> QED BY <2>1, <2>2 DEF RightInv, ValueRight, Valued
<1> QED BY <1>1, <1>2, <1>3, <1>4, <1>5, <1>6, <1>7, <1>8, <1>9, <1>10, <1>11, <1>12, <1>13,
           <1>14, <1>15 DEF Next

(* A column of a call that was checked is a symbol of its callable.          *)
LEMMA CheckedColumns ==
  ASSUME NEW c \in Calls, Refusal(c) = "ok", ~Unchecked(c), NEW k \in 1..Width(c)
  PROVE  Active(c)[k] <= Arity(c.f)
<1>1. /\ ValidCall(c) /\ Arity(c.f) \in Nat /\ Checked(c, Arity(c.f)) = "ok"
      /\ Width(c) \in Nat /\ Width(c) <= Len(Active(c))
  BY DriverAssumption, ActiveInPoint DEF Refusal
<1>2. c.x \in Seq(Scalars) /\ c.active \in Seq(Nat \ {0}) /\ c.every \in BOOLEAN
  BY <1>1 DEF ValidCall
<1>3. CASE c.every
  <2>1. Active(c) = [m \in 1..Len(c.x) |-> m] /\ Len(c.x) = Arity(c.f)
    BY <1>1, <1>3 DEF Active, Checked
  <2>2. Len(Active(c)) = Len(c.x)
    BY <2>1, <1>2
  <2>3. k \in 1..Len(c.x)
    BY <1>1, <2>2
  <2> QED BY <1>1, <2>1, <2>3
<1>4. CASE ~c.every
  <2>1. Len(c.x) >= Arity(c.f) /\ ~OutOfRange(c, Arity(c.f)) /\ Active(c) = c.active
    BY <1>1, <1>2, <1>4 DEF Active, Checked
  <2>2. k \in 1..Len(c.active) /\ c.active[k] \in Nat
    BY <1>1, <1>2, <2>1
  <2> QED BY <1>1, <2>1, <2>2 DEF OutOfRange
<1> QED BY <1>2, <1>3, <1>4

(* Of every callable that is right on duals, both drivers write the partial  *)
(* derivative of its own symbols into every cell they write, whatever the    *)
(* point, the active set and the numbers earlier calls left in the buffer.   *)
THEOREM WrittenDerivatives ==
  ASSUME Differentiates
  PROVE  Spec => []WrittenIsRight
<1>1. Init => RightInv
  <2> SUFFICES ASSUME Init
               PROVE  RightInv
    OBVIOUS
  <2>1. call \in Calls /\ out = Fresh(call, "none") /\ pc = "idle"
    BY DriverAssumption DEF Init
  <2>2. /\ \A k \in DOMAIN out.gradient : out.gradient[k] = Unwritten
        /\ \A cell \in DOMAIN out.hessian : out.hessian[cell] = Unwritten
        /\ out.outcome = "none"
    BY <2>1 DEF Fresh
  <2> QED BY <2>1, <2>2 DEF RightInv, PartialsRight, EntriesRight, ValueRight, Valued
<1>2. DriverInv /\ RightInv /\ [Next]_vars => RightInv'
  BY RightInvStep
<1>3. DriverInv /\ RightInv => WrittenIsRight
  <2> SUFFICES ASSUME DriverInv, RightInv
               PROVE  WrittenIsRight
    OBVIOUS
  <2>1. call \in Calls /\ PartialsRight /\ EntriesRight /\ ValueRight
    BY DEF DriverInv, RightInv
  <2>2. ASSUME NEW k \in DOMAIN out.gradient, out.gradient[k] # Unwritten
        PROVE  /\ ~Unchecked(call) => Column(k) <= Arity(call.f)
               /\ Agrees(out.gradient[k], FirstAt(call.f, call.x, Column(k)))
    <3>1. /\ Refusal(call) = "ok" /\ k \in 1..Width(call)
          /\ Agrees(out.gradient[k], FirstAt(call.f, call.x, Column(k)))
      BY <2>1, <2>2 DEF PartialsRight
    <3> QED BY <2>1, <3>1, CheckedColumns DEF Column
  <2>3. call.order = 2 /\ out.outcome = "returned" /\ Active(call) # <<>> => Valued
    <3>1. out.outcome = "returned" => pc = "idle"
      BY DEF RightInv
    <3> QED BY <3>1 DEF Valued
  <2> QED BY <2>1, <2>2, <2>3 DEF WrittenIsRight, EntriesRight, ValueRight
<1> QED BY <1>1, <1>2, <1>3, DriverInvariant, PTL DEF Spec

=============================================================================
