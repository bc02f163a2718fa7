------------------------- MODULE InternTableProofs --------------------------
(***************************************************************************)
(* The intern table does what Interner promises, for every set of keys,    *)
(* every hash, every initial capacity and every length of run.             *)
(***************************************************************************)
EXTENDS InternTable, FiniteSetTheorems, TLAPS

(* The arithmetic of one call: the room growth leaves, and where the loop  *)
(* variables stand.                                                        *)
Room ==
  /\ capacity = 0 \/ (capacity >= 2 /\ capacity \in Capacities)
  /\ pc = "idle" => 2 * Len(nodes) <= capacity
  /\ pc # "idle" => /\ 2 * (Len(nodes) + 1) <= capacity
                    /\ Len(nodes) < MaxNodes
                    /\ slot \in Slots
  /\ pc = "rehash" => cursor \in 1..(Len(nodes) + 1)

(* Loop invariant of rehash(): every slot passed since the home of the     *)
(* node being put back is taken.                                           *)
RehashLoop ==
  pc = "rehash" /\ cursor \in Ids =>
    \A q \in Passed(capacity, Home(capacity, nodes[cursor]), slot) : table[q] # Free

(* Loop invariant of the probe: every slot passed since the key's home     *)
(* holds some other node.                                                  *)
ProbeLoop ==
  pc = "probe" =>
    \A q \in Passed(capacity, Home(capacity, key), slot) :
      table[q] # Free /\ ~Same(nodes[table[q]], key)

IInv ==
  /\ TypeOK
  /\ Room
  /\ OneSlotEach
  /\ Findable
  /\ RehashLoop
  /\ ProbeLoop

-----------------------------------------------------------------------------
(* A home is a slot. *)
LEMMA HomeInSlots ==
  ASSUME NEW k \in Key, NEW c \in Nat, c > 0
  PROVE  Home(c, k) \in 0..(c - 1)
  BY HashAssumption DEF Home

(* One more step of a search passes one more slot, until it has been all the *)
(* way round.                                                                *)
LEMMA PassedAfter ==
  ASSUME NEW c \in Nat, NEW h \in 0..(c - 1), NEW s \in 0..(c - 1)
  PROVE  /\ After(c, s) \in 0..(c - 1)
         /\ After(c, s) # h => Passed(c, h, After(c, s)) = Passed(c, h, s) \cup {s}
         /\ After(c, s) = h => Passed(c, h, s) \cup {s} = 0..(c - 1)
  BY DEF Passed, After

LEMMA PassedSelf ==
  ASSUME NEW c \in Nat, NEW h \in 0..(c - 1)
  PROVE  Passed(c, h, h) = {}
  BY DEF Passed

LEMMA PassedSlots ==
  ASSUME NEW c \in Nat, NEW h \in 0..(c - 1), NEW s \in 0..(c - 1)
  PROVE  Passed(c, h, s) \subseteq 0..(c - 1)
  BY DEF Passed

(* Two searches from one home: one of the two slots comes first. *)
LEMMA PassedTotal ==
  ASSUME NEW c \in Nat, NEW h \in 0..(c - 1), NEW s \in 0..(c - 1),
         NEW t \in 0..(c - 1), s # t
  PROVE  s \in Passed(c, h, t) \/ t \in Passed(c, h, s)
  BY DEF Passed

LEMMA IntervalSize ==
  ASSUME NEW n \in Nat
  PROVE  /\ IsFiniteSet(0..(n - 1)) /\ Cardinality(0..(n - 1)) = n
         /\ IsFiniteSet(1..n) /\ Cardinality(1..n) = n
<1>1. 0 \in Int /\ 1 \in Int /\ n - 1 \in Int /\ n \in Int
  OBVIOUS
<1>2. /\ IsFiniteSet(0..(n - 1)) /\ IsFiniteSet(1..n)
      /\ Cardinality(0..(n - 1)) = IF 0 > n - 1 THEN 0 ELSE (n - 1) - 0 + 1
      /\ Cardinality(1..n) = IF 1 > n THEN 0 ELSE n - 1 + 1
  BY <1>1, FS_Interval, Zenon
<1> QED
  BY <1>2

(* A table with room has a free slot: the slots that are taken hold distinct *)
(* ids, and there are fewer ids than slots.                                  *)
LEMMA HasFreeSlot ==
  ASSUME TypeOK, Room, OneSlotEach, pc # "idle"
  PROVE  \E s \in Slots : table[s] = Free
<1> SUFFICES ASSUME \A s \in Slots : table[s] # Free PROVE FALSE
  OBVIOUS
<1>1. Len(nodes) \in Nat /\ capacity \in Nat /\ Len(nodes) < capacity
  BY DEF TypeOK, Room
<1>2. IsFiniteSet(Slots) /\ Cardinality(Slots) = capacity
  BY <1>1, IntervalSize DEF Slots
<1>3. IsFiniteSet(Ids) /\ Cardinality(Ids) = Len(nodes)
  BY <1>1, IntervalSize DEF Ids
<1>4. table \in [Slots -> Ids]
  BY DEF TypeOK
<1>5. \E s, t \in Slots : s # t /\ table[s] = table[t]
  BY <1>1, <1>2, <1>3, <1>4, FS_PigeonHole
<1> QED
  BY <1>5 DEF OneSlotEach

-----------------------------------------------------------------------------
LEMMA InitIInv == Init => IInv
<1> SUFFICES ASSUME Init PROVE IInv
  OBVIOUS
<1>1. TypeOK
  BY MaxNodesAssumption DEF Init, TypeOK, Ids, Slots, Free
<1>4. Room
  BY DEF Init, Room
<1>2. OneSlotEach /\ Findable
  BY DEF Init, OneSlotEach, Findable, Placed, Ids, Slots, Free
<1>3. RehashLoop /\ ProbeLoop
  BY DEF Init, RehashLoop, ProbeLoop
<1> QED
  BY <1>1, <1>2, <1>3, <1>4 DEF IInv

(* What every step needs of the state it starts from. *)
LEMMA Basics ==
  ASSUME TypeOK, Room
  PROVE  /\ Len(nodes) \in Nat
         /\ capacity \in Nat
         /\ \A v \in Ids : nodes[v] \in Key
         /\ \A s \in Slots : table[s] # Free => table[s] \in Ids
         /\ pc # "idle" => capacity > 0
  BY DEF TypeOK, Room, Ids, Slots, Free

LEMMA BeginGrowStep ==
  ASSUME IInv, NEW k \in Key, BeginGrow(k)
  PROVE  IInv'
<1> USE DEF IInv
<1>1. /\ Len(nodes) \in Nat /\ capacity \in Nat /\ capacity' \in Nat
      /\ capacity' >= 2 * (Len(nodes) + 1) /\ capacity' >= 2 /\ capacity' > 0
      /\ capacity' \in Capacities
  BY CapacityAssumption, MaxNodesAssumption DEF BeginGrow, TypeOK, Room, MustGrow
<1>2. nodes # <<>> => nodes[1] \in Key /\ Len(nodes) >= 1
  BY DEF TypeOK
<1>3. slot' \in Slots'
  <2>1. nodes # <<>> => Home(capacity', nodes[1]) \in 0..(capacity' - 1)
    BY <1>1, <1>2, HomeInSlots, Zenon
  <2> QED
    BY <1>1, <2>1 DEF BeginGrow, Slots
<1>4. /\ table' = [s \in 0..(capacity' - 1) |-> Free]
      /\ pc' = "rehash" /\ cursor' = 1 /\ key' = k
      /\ nodes' = nodes /\ given' = given /\ Len(nodes) < MaxNodes
  BY DEF BeginGrow
<1>5. TypeOK'
  BY <1>1, <1>3, <1>4 DEF TypeOK, Ids, Slots, Free
<1>6. Room'
  BY <1>1, <1>3, <1>4 DEF Room
<1>7. OneSlotEach' /\ Findable'
  BY <1>1, <1>4 DEF OneSlotEach, Findable, Placed, Slots, Free
<1>8. RehashLoop'
  <2>1. cursor' \in Ids' => slot' = Home(capacity', nodes'[cursor'])
    BY <1>1, <1>4 DEF BeginGrow, Ids
  <2>2. Passed(capacity', slot', slot') = {}
    BY <1>1, <1>3, PassedSelf DEF Slots
  <2> QED
    BY <2>1, <2>2 DEF RehashLoop
<1>9. ProbeLoop'
  BY <1>4 DEF ProbeLoop
<1> QED
  BY <1>5, <1>6, <1>7, <1>8, <1>9

LEMMA BeginProbeStep ==
  ASSUME IInv, NEW k \in Key, BeginProbe(k)
  PROVE  IInv'
<1> USE DEF IInv
<1>1. /\ Len(nodes) \in Nat /\ capacity \in Nat /\ capacity > 0
      /\ capacity >= 2 * (Len(nodes) + 1)
  BY DEF BeginProbe, TypeOK, Room, MustGrow
<1>2. /\ pc = "idle" /\ pc' = "probe" /\ key' = k /\ slot' = Home(capacity, k)
      /\ UNCHANGED <<nodes, table, capacity, cursor, given>>
      /\ Len(nodes) < MaxNodes
  BY DEF BeginProbe
<1>3. slot' \in Slots
  BY <1>1, <1>2, HomeInSlots, Zenon DEF Slots
<1>4. TypeOK'
  BY <1>1, <1>2, <1>3 DEF TypeOK, Ids, Slots
<1>5. Room'
  BY <1>1, <1>2, <1>3 DEF Room, Slots
<1>6. OneSlotEach' /\ Findable'
  BY <1>2 DEF OneSlotEach, Findable, Placed, Slots, Ids
<1>7. RehashLoop'
  BY <1>2 DEF RehashLoop
<1>8. ProbeLoop'
  <2>1. Passed(capacity, Home(capacity, k), Home(capacity, k)) = {}
    BY <1>1, <1>2, <1>3, PassedSelf DEF Slots
  <2> QED
    BY <1>2, <2>1 DEF ProbeLoop
<1> QED
  BY <1>4, <1>5, <1>6, <1>7, <1>8

LEMMA RehashSkipStep ==
  ASSUME IInv, RehashSkip
  PROVE  IInv'
<1> USE DEF IInv
<1>1. /\ pc = "rehash" /\ cursor \in Ids /\ table[slot] # Free
      /\ slot' = After(capacity, slot)
      /\ UNCHANGED <<nodes, table, capacity, pc, key, cursor, given>>
  BY DEF RehashSkip
<1>2. Len(nodes) \in Nat /\ capacity \in Nat /\ capacity > 0 /\ slot \in 0..(capacity - 1)
  BY <1>1, Basics DEF Room, Slots
<1> DEFINE h == Home(capacity, nodes[cursor])
<1>3. h \in 0..(capacity - 1)
  BY <1>1, <1>2, Basics, HomeInSlots
<1>4. slot' \in 0..(capacity - 1)
  BY <1>1, <1>2, PassedAfter
<1>5. \A q \in Passed(capacity, h, slot) \cup {slot} : table[q] # Free
  BY <1>1 DEF RehashLoop
<1>6. After(capacity, slot) # h
  <2>1. \E s \in 0..(capacity - 1) : table[s] = Free
    BY <1>1, HasFreeSlot DEF Slots
  <2> QED
    BY <1>2, <1>3, <1>5, <2>1, PassedAfter
<1>7. RehashLoop'
  <2>1. Passed(capacity, h, slot') = Passed(capacity, h, slot) \cup {slot}
    BY <1>1, <1>2, <1>3, <1>6, PassedAfter
  <2> QED
    BY <1>1, <1>5, <2>1 DEF RehashLoop
<1>8. TypeOK' /\ Room'
  BY <1>1, <1>2, <1>4 DEF TypeOK, Room, Ids, Slots
<1>9. OneSlotEach' /\ Findable' /\ ProbeLoop'
  BY <1>1 DEF OneSlotEach, Findable, ProbeLoop, Placed, Slots, Ids
<1> QED
  BY <1>7, <1>8, <1>9

LEMMA RehashPlaceStep ==
  ASSUME IInv, RehashPlace
  PROVE  IInv'
<1> USE DEF IInv
<1>1. /\ pc = "rehash" /\ cursor \in Ids /\ table[slot] = Free
      /\ table' = [table EXCEPT ![slot] = cursor]
      /\ cursor' = cursor + 1
      /\ slot' = IF cursor + 1 \in Ids THEN Home(capacity, nodes[cursor + 1]) ELSE slot
      /\ UNCHANGED <<nodes, capacity, pc, key, given>>
  BY DEF RehashPlace
<1>2. Len(nodes) \in Nat /\ capacity \in Nat /\ capacity > 0 /\ slot \in 0..(capacity - 1)
  BY <1>1, Basics DEF Room, Slots
<1>3. cursor \in 1..Len(nodes) /\ cursor # Free
  BY <1>1 DEF Ids, Free
<1>4. slot' \in 0..(capacity - 1)
  BY <1>1, <1>2, Basics, HomeInSlots
<1>5. /\ table \in [0..(capacity - 1) -> Ids \cup {Free}]
      /\ table' \in [0..(capacity - 1) -> Ids \cup {Free}]
      /\ table'[slot] = cursor
      /\ \A s \in 0..(capacity - 1) : s # slot => table'[s] = table[s]
  BY <1>1, <1>2 DEF TypeOK, Slots
<1>6. TypeOK'
  BY <1>1, <1>2, <1>3, <1>4, <1>5 DEF TypeOK, Ids, Slots
<1>7. Room'
  BY <1>1, <1>2, <1>3, <1>4 DEF Room, Slots
<1>8. OneSlotEach'
  <2>1. /\ Placed = 1..(cursor - 1) /\ Placed' = 1..cursor
        /\ Slots = 0..(capacity - 1) /\ Slots' = Slots
    BY <1>1, <1>3 DEF Placed, Slots
  <2>2. \A s \in Slots : table[s] # cursor
    BY <1>3, <2>1 DEF OneSlotEach
  <2>3. \A v \in Placed' : v \in Placed \/ v = cursor
    BY <1>3, <2>1
  <2>4. \A s, t \in Slots : table'[s] # Free /\ table'[s] = table'[t] => s = t
    BY <1>2, <1>5, <2>1, <2>2 DEF OneSlotEach
  <2>5. \A v \in Placed' : \E s \in Slots : table'[s] = v
    <3>1. ASSUME NEW v \in Placed PROVE \E s \in Slots : table'[s] = v
      <4>1. PICK s \in Slots : table[s] = v
        BY DEF OneSlotEach
      <4>2. v # Free
        BY <1>3, <2>1 DEF Free
      <4> QED
        BY <1>1, <1>5, <2>1, <4>1, <4>2
    <3> QED
      BY <1>2, <1>5, <2>1, <2>3, <3>1
  <2>6. \A s \in Slots : table'[s] # Free => table'[s] \in Placed'
    <3>1. Placed \subseteq Placed' /\ cursor \in Placed'
      BY <1>3, <2>1
    <3> QED
      BY <1>2, <1>5, <2>1, <3>1 DEF OneSlotEach
  <2> QED
    BY <2>1, <2>4, <2>5, <2>6 DEF OneSlotEach
<1>9. Findable'
  <2>1. SUFFICES ASSUME NEW s \in Slots, table'[s] # Free,
                        NEW q \in Passed(capacity, Home(capacity, nodes[table'[s]]), s)
                 PROVE  table'[q] # Free
    BY <1>1 DEF Findable, Slots
  <2>2. nodes[table'[s]] \in Key
    BY <1>5, Basics, <2>1 DEF Slots
  <2>3. q \in 0..(capacity - 1)
    BY <1>2, <2>1, <2>2, HomeInSlots, PassedSlots DEF Slots
  <2>4. table[q] # Free \/ q = slot
    <3>1. CASE s = slot
      BY <1>1, <1>5, <2>1, <3>1 DEF RehashLoop
    <3>2. CASE s # slot
      BY <1>5, <2>1, <3>2 DEF Findable, Slots
    <3> QED
      BY <3>1, <3>2
  <2> QED
    BY <1>3, <1>5, <2>3, <2>4
<1>10. RehashLoop'
  <2>1. SUFFICES ASSUME cursor + 1 \in Ids
                 PROVE  Passed(capacity, slot', slot') = {}
    BY <1>1 DEF RehashLoop, Ids
  <2> QED
    BY <1>2, <1>4, PassedSelf
<1>11. ProbeLoop'
  BY <1>1 DEF ProbeLoop
<1> QED
  BY <1>6, <1>7, <1>8, <1>9, <1>10, <1>11

LEMMA RehashDoneStep ==
  ASSUME IInv, RehashDone
  PROVE  IInv'
<1> USE DEF IInv
<1>1. /\ pc = "rehash" /\ cursor \notin Ids /\ slot' = Home(capacity, key) /\ pc' = "probe"
      /\ UNCHANGED <<nodes, table, capacity, key, cursor, given>>
  BY DEF RehashDone
<1>2. Len(nodes) \in Nat /\ capacity \in Nat /\ capacity > 0 /\ key \in Key
  BY <1>1, Basics DEF TypeOK
<1>3. slot' \in 0..(capacity - 1)
  BY <1>1, <1>2, HomeInSlots
<1>4. TypeOK' /\ Room'
  BY <1>1, <1>2, <1>3 DEF TypeOK, Room, Ids, Slots
<1>5. OneSlotEach' /\ Findable'
  <2>1. Placed' = Placed
    BY <1>1, <1>2 DEF Placed, Ids, Room
  <2> QED
    BY <1>1, <2>1 DEF OneSlotEach, Findable, Slots
<1>6. RehashLoop' /\ ProbeLoop'
  <2>1. Passed(capacity, slot', slot') = {}
    BY <1>2, <1>3, PassedSelf
  <2> QED
    BY <1>1, <2>1 DEF RehashLoop, ProbeLoop
<1> QED
  BY <1>4, <1>5, <1>6

LEMMA ProbeSkipStep ==
  ASSUME IInv, ProbeSkip
  PROVE  IInv'
<1> USE DEF IInv
<1>1. /\ pc = "probe" /\ table[slot] # Free /\ ~Same(nodes[table[slot]], key)
      /\ slot' = After(capacity, slot)
      /\ UNCHANGED <<nodes, table, capacity, pc, key, cursor, given>>
  BY DEF ProbeSkip
<1>2. /\ Len(nodes) \in Nat /\ capacity \in Nat /\ capacity > 0
      /\ slot \in 0..(capacity - 1) /\ key \in Key
  BY <1>1, Basics DEF Room, Slots, TypeOK
<1> DEFINE h == Home(capacity, key)
<1>3. h \in 0..(capacity - 1)
  BY <1>2, HomeInSlots
<1>4. slot' \in 0..(capacity - 1)
  BY <1>1, <1>2, PassedAfter
<1>5. \A q \in Passed(capacity, h, slot) \cup {slot} :
        table[q] # Free /\ ~Same(nodes[table[q]], key)
  BY <1>1 DEF ProbeLoop
<1>6. After(capacity, slot) # h
  <2>1. \E s \in 0..(capacity - 1) : table[s] = Free
    BY <1>1, HasFreeSlot DEF Slots
  <2> QED
    BY <1>2, <1>3, <1>5, <2>1, PassedAfter
<1>7. ProbeLoop'
  <2>1. Passed(capacity, h, slot') = Passed(capacity, h, slot) \cup {slot}
    BY <1>1, <1>2, <1>3, <1>6, PassedAfter
  <2> QED
    BY <1>1, <1>5, <2>1 DEF ProbeLoop
<1>8. TypeOK' /\ Room'
  BY <1>1, <1>2, <1>4 DEF TypeOK, Room, Ids, Slots
<1>9. OneSlotEach' /\ Findable' /\ RehashLoop'
  BY <1>1 DEF OneSlotEach, Findable, RehashLoop, Placed, Slots, Ids
<1> QED
  BY <1>7, <1>8, <1>9

LEMMA ProbeHitStep ==
  ASSUME IInv, ProbeHit
  PROVE  IInv'
<1> USE DEF IInv
<1>1. /\ pc = "probe" /\ pc' = "idle" /\ table[slot] # Free
      /\ given' = [given EXCEPT ![key] = table[slot]]
      /\ UNCHANGED <<nodes, table, capacity, key, slot, cursor>>
  BY DEF ProbeHit
<1>2. slot \in Slots /\ table[slot] \in Ids /\ Len(nodes) \in Nat /\ capacity \in Nat
  BY <1>1, Basics DEF Room
<1>3. table[slot] \in 0..MaxNodes
  BY <1>2, MaxNodesAssumption DEF Ids, TypeOK
<1>4. TypeOK'
  BY <1>1, <1>3 DEF TypeOK, Ids, Slots
<1>5. Room'
  BY <1>1, <1>2 DEF Room, Slots
<1>6. OneSlotEach' /\ Findable' /\ RehashLoop' /\ ProbeLoop'
  BY <1>1 DEF OneSlotEach, Findable, RehashLoop, ProbeLoop, Placed, Slots, Ids
<1> QED
  BY <1>4, <1>5, <1>6

LEMMA ProbeFreeStep ==
  ASSUME IInv, ProbeFree
  PROVE  IInv'
<1> USE DEF IInv
<1> DEFINE new == Len(nodes) + 1
<1>1. /\ pc = "probe" /\ pc' = "idle" /\ table[slot] = Free
      /\ nodes' = Append(nodes, key)
      /\ table' = [table EXCEPT ![slot] = new]
      /\ given' = [given EXCEPT ![key] = new]
      /\ UNCHANGED <<capacity, key, slot, cursor>>
  BY DEF ProbeFree
<1>2. /\ Len(nodes) \in Nat /\ capacity \in Nat /\ capacity > 0
      /\ slot \in 0..(capacity - 1) /\ key \in Key /\ nodes \in Seq(Key)
      /\ 2 * new <= capacity /\ Len(nodes) < MaxNodes
  BY <1>1, Basics DEF Room, Slots, TypeOK
<1>3. /\ Len(nodes') = new /\ nodes' \in Seq(Key) /\ nodes'[new] = key
      /\ \A v \in Ids : nodes'[v] = nodes[v]
      /\ Ids' = Ids \cup {new} /\ new \notin Ids /\ new # Free
  BY <1>1, <1>2 DEF Ids, Free
<1>4. /\ table \in [0..(capacity - 1) -> Ids \cup {Free}]
      /\ table' \in [0..(capacity - 1) -> Ids' \cup {Free}]
      /\ table'[slot] = new
      /\ \A s \in 0..(capacity - 1) : s # slot => table'[s] = table[s]
  BY <1>1, <1>2, <1>3 DEF TypeOK, Slots
<1>5. TypeOK'
  BY <1>1, <1>2, <1>3, <1>4, MaxNodesAssumption DEF TypeOK, Slots
<1>6. Room'
  BY <1>1, <1>2, <1>3 DEF Room
<1>7. OneSlotEach'
  <2>1. Placed = Ids /\ Placed' = Ids' /\ Slots = 0..(capacity - 1) /\ Slots' = Slots
    BY <1>1 DEF Placed, Slots
  <2>2. \A s \in Slots : table[s] # new
    BY <1>3, <1>4, <2>1
  <2>3. \A s, t \in Slots : table'[s] # Free /\ table'[s] = table'[t] => s = t
    BY <1>2, <1>4, <2>1, <2>2 DEF OneSlotEach
  <2>4. \A v \in Placed' : \E s \in Slots : table'[s] = v
    <3>1. ASSUME NEW v \in Placed PROVE \E s \in Slots : table'[s] = v
      <4>1. PICK s \in Slots : table[s] = v
        BY DEF OneSlotEach
      <4>2. v # Free
        BY <1>2, <2>1 DEF Free, Ids
      <4> QED
        BY <1>1, <1>4, <2>1, <4>1, <4>2
    <3> QED
      BY <1>2, <1>3, <1>4, <2>1, <3>1
  <2>5. \A s \in Slots : table'[s] # Free => table'[s] \in Placed'
    BY <1>4, <2>1
  <2> QED
    BY <2>1, <2>3, <2>4, <2>5 DEF OneSlotEach
<1>8. Findable'
  <2>1. SUFFICES ASSUME NEW s \in Slots, table'[s] # Free,
                        NEW q \in Passed(capacity, Home(capacity, nodes'[table'[s]]), s)
                 PROVE  table'[q] # Free
    BY <1>1 DEF Findable, Slots
  <2>2. nodes'[table'[s]] \in Key
    BY <1>3, <1>4, Basics, <2>1 DEF Slots
  <2>3. q \in 0..(capacity - 1)
    BY <1>2, <2>1, <2>2, HomeInSlots, PassedSlots DEF Slots
  <2>4. table[q] # Free \/ q = slot
    <3>1. CASE s = slot
      BY <1>1, <1>3, <1>4, <2>1, <3>1 DEF ProbeLoop
    <3>2. CASE s # slot
      <4>1. table[s] = table'[s] /\ table[s] \in Ids
        BY <1>4, <2>1, <3>2, Basics DEF Slots
      <4>2. nodes'[table'[s]] = nodes[table[s]]
        BY <1>3, <4>1
      <4> QED
        BY <2>1, <4>1, <4>2 DEF Findable
    <3> QED
      BY <3>1, <3>2
  <2> QED
    BY <1>3, <1>4, <2>3, <2>4
<1>9. RehashLoop' /\ ProbeLoop'
  BY <1>1 DEF RehashLoop, ProbeLoop
<1> QED
  BY <1>5, <1>6, <1>7, <1>8, <1>9

LEMMA StutterStep ==
  ASSUME IInv, UNCHANGED vars
  PROVE  IInv'
  BY DEF vars, IInv, TypeOK, Room, OneSlotEach, Findable, RehashLoop, ProbeLoop,
         Placed, Slots, Ids

LEMMA NextIInv == IInv /\ [Next]_vars => IInv'
  BY BeginGrowStep, BeginProbeStep, RehashSkipStep, RehashPlaceStep, RehashDoneStep,
     ProbeSkipStep, ProbeHitStep, ProbeFreeStep, StutterStep, Zenon
     DEF Next, Step

(* The types, the loop invariants and the shape of the table, in every       *)
(* reachable state of intern() and rehash().                                 *)
THEOREM InvariantHolds == Spec => []IInv
  BY InitIInv, NextIInv, PTL DEF Spec

(* Every id has one slot, no search for a node stops short of it, and the    *)
(* table is at most half full between calls.                                 *)
THEOREM TableIsSound == Spec => []TableSound
<1>1. IInv => TableSound
  BY DEF IInv, TableSound, HalfFull, Room
<1> QED
  BY <1>1, InvariantHolds, PTL

-----------------------------------------------------------------------------
(* A search that reaches a free slot has missed nothing: no node in the      *)
(* table is the same as the key.                                             *)
LEMMA FreeMeansAbsent ==
  ASSUME IInv, HomesAgree, ProbeFree, NEW v \in Ids
  PROVE  ~Same(nodes[v], key)
<1> USE DEF IInv
<1> SUFFICES ASSUME Same(nodes[v], key) PROVE FALSE
  OBVIOUS
<1>1. /\ pc = "probe" /\ table[slot] = Free /\ slot \in Slots
      /\ capacity \in Nat /\ capacity > 0 /\ key \in Key /\ nodes[v] \in Key
      /\ capacity \in Capacities
  BY Basics DEF ProbeFree, Room, TypeOK
<1> DEFINE h == Home(capacity, key)
<1>2. h \in 0..(capacity - 1)
  BY <1>1, HomeInSlots
<1>3. Home(capacity, nodes[v]) = h
  BY <1>1 DEF HomesAgree
<1>4. PICK s \in Slots : table[s] = v
  BY <1>1 DEF OneSlotEach, Placed
<1>5. v # Free
  BY DEF Ids, Free
<1>6. s # slot
  BY <1>1, <1>4, <1>5
<1>7. slot \notin Passed(capacity, h, s)
  BY <1>1, <1>3, <1>4, <1>5 DEF Findable
<1>8. s \notin Passed(capacity, h, slot)
  BY <1>1, <1>4 DEF ProbeLoop
<1> QED
  BY <1>1, <1>2, <1>4, <1>6, <1>7, <1>8, PassedTotal DEF Slots

LEMMA StepImplements ==
  ASSUME HomesAgree, IInv, [Next]_vars
  PROVE  [Promise!Next]_(Promise!vars)
<1>1. CASE ProbeHit
  <2>1. /\ table[slot] \in Ids /\ Same(nodes[table[slot]], key) /\ key \in Key
        /\ given' = [given EXCEPT ![key] = table[slot]] /\ nodes' = nodes
        /\ Len(nodes) < MaxNodes
    BY <1>1, Basics DEF ProbeHit, IInv, Room, TypeOK
  <2>2. Promise!Hit(key)
    BY <2>1 DEF Promise!Hit, Promise!Ids, Ids
  <2> QED
    BY <2>1, <2>2 DEF Promise!Next
<1>2. CASE ProbeFree
  <2>1. /\ key \in Key /\ nodes' = Append(nodes, key)
        /\ given' = [given EXCEPT ![key] = Len(nodes) + 1] /\ Len(nodes) < MaxNodes
    BY <1>2 DEF ProbeFree, IInv, Room, TypeOK
  <2>2. \A v \in Ids : ~Same(nodes[v], key)
    BY <1>2, HomesAgree, FreeMeansAbsent
  <2>3. Promise!Miss(key)
    BY <2>1, <2>2 DEF Promise!Miss, Promise!Ids, Ids
  <2> QED
    BY <2>1, <2>3 DEF Promise!Next
<1>3. CASE UNCHANGED <<nodes, given>>
  BY <1>3 DEF Promise!vars
<1> QED
  BY <1>1, <1>2, <1>3 DEF Next, Step, vars, BeginGrow, BeginProbe, RehashSkip,
     RehashPlace, RehashDone, ProbeSkip

(* When equal keys have one home, intern() with its table does what Interner    *)
(* does with none: the loops of rehash() and of the search are stutters, the *)
(* two ways out of the search are Hit and Miss.                              *)
THEOREM TableImplementsInterner ==
  ASSUME HomesAgree
  PROVE  Spec => ImplementsInterner
<1>1. Init => Promise!Init
  BY DEF Init, Promise!Init
<1>2. IInv /\ [Next]_vars => [Promise!Next]_(Promise!vars)
  BY HomesAgree, StepImplements
<1> QED
  BY <1>1, <1>2, InvariantHolds, PTL DEF Spec, ImplementsInterner, Promise!Spec

-----------------------------------------------------------------------------
(* What == is on numbers: NaN is not the same as itself, and different keys  *)
(* may be the same, as the two zeros are.                                    *)
SameIsEquivalence ==
  /\ \A k, l \in Key : Same(k, l) => Same(l, k)
  /\ \A k, l, m \in Key : Same(k, l) /\ Same(l, m) => Same(k, m)

(* No two nodes are the same, and the id given for a key is that of a node   *)
(* that is the same, unless the key is no match for anything.                *)
KeptOnce ==
  /\ \A v, w \in Ids : Same(nodes[v], nodes[w]) => v = w
  /\ \A k \in Key : given[k] # 0 =>
       given[k] \in Ids /\ (Same(k, k) => Same(nodes[given[k]], k))

(* What IdentityStable says of a step. *)
GivenStays ==
  \A k, l \in Key : Same(k, l) /\ given[k] # 0 /\ given'[l] # 0 => given'[l] = given[k]

(* Keys that are the same are each the same as itself, and no two ids are of *)
(* nodes that are the same as both.                                          *)
LEMMA SameNode ==
  ASSUME SameIsEquivalence, TypeOK, KeptOnce,
         NEW k \in Key, NEW l \in Key, Same(k, l)
  PROVE  /\ Same(k, k) /\ Same(l, l)
         /\ \A v, w \in Ids : Same(nodes[v], k) /\ Same(nodes[w], l) => v = w
<1>0. \A v \in Ids : nodes[v] \in Key
  BY DEF TypeOK, Ids
<1>1. Same(k, k) /\ Same(l, l)
  BY DEF SameIsEquivalence
<1>2. ASSUME NEW v \in Ids, NEW w \in Ids, Same(nodes[v], k), Same(nodes[w], l)
      PROVE  v = w
  <2>1. Same(nodes[v], l) /\ Same(l, nodes[w])
    BY <1>0, <1>2 DEF SameIsEquivalence
  <2>2. Same(nodes[v], nodes[w])
    BY <1>0, <2>1 DEF SameIsEquivalence
  <2> QED
    BY <2>2 DEF KeptOnce
<1> QED
  BY <1>1, <1>2

LEMMA HitKeepsOnce ==
  ASSUME SameIsEquivalence, TypeOK, KeptOnce, NEW k \in Key, Promise!Hit(k)
  PROVE  KeptOnce' /\ GivenStays
<1>1. PICK v \in Ids : Same(nodes[v], k) /\ given' = [given EXCEPT ![k] = v]
  BY DEF Promise!Hit, Promise!Ids, Ids
<1>2. nodes' = nodes /\ Ids' = Ids
  BY DEF Promise!Hit, Ids
<1>3. /\ given \in [Key -> 0..MaxNodes] /\ given'[k] = v
      /\ \A l \in Key : l # k => given'[l] = given[l]
  BY <1>1 DEF TypeOK
<1>4. \A l \in Key : given'[l] # 0 =>
        given'[l] \in Ids /\ (Same(l, l) => Same(nodes[given'[l]], l))
  BY <1>1, <1>3 DEF KeptOnce
<1>5. KeptOnce'
  BY <1>2, <1>4 DEF KeptOnce
<1>6. ASSUME NEW m \in Key, NEW l \in Key, Same(m, l), given[m] # 0, given'[l] # 0
      PROVE  given'[l] = given[m]
  <2>1. Same(m, m) /\ Same(l, l)
    BY <1>6, SameNode
  <2>2. given[m] \in Ids /\ Same(nodes[given[m]], m)
    BY <1>6, <2>1 DEF KeptOnce
  <2>3. given'[l] \in Ids /\ Same(nodes[given'[l]], l)
    BY <1>4, <1>6, <2>1
  <2> QED
    BY <1>6, <2>2, <2>3, SameNode
<1> QED
  BY <1>5, <1>6 DEF GivenStays

LEMMA MissKeepsOnce ==
  ASSUME SameIsEquivalence, TypeOK, KeptOnce, NEW k \in Key, Promise!Miss(k)
  PROVE  KeptOnce' /\ GivenStays
<1> DEFINE new == Len(nodes) + 1
<1>0. Len(nodes) \in Nat /\ nodes \in Seq(Key) /\ \A v \in Ids : nodes[v] \in Key
  BY DEF TypeOK, Ids
<1>1. /\ nodes' = Append(nodes, k) /\ given' = [given EXCEPT ![k] = new]
      /\ \A v \in Ids : ~Same(nodes[v], k)
  BY DEF Promise!Miss, Promise!Ids, Ids
<1>2. /\ Ids' = Ids \cup {new} /\ new \notin Ids /\ new # 0
      /\ nodes'[new] = k /\ \A v \in Ids : nodes'[v] = nodes[v]
  BY <1>0, <1>1 DEF Ids
<1>3. /\ given \in [Key -> 0..MaxNodes] /\ given'[k] = new
      /\ \A l \in Key : l # k => given'[l] = given[l]
  BY <1>1 DEF TypeOK
<1> HIDE DEF new
<1>4. \A v \in Ids : ~Same(k, nodes[v])
  BY <1>0, <1>1 DEF SameIsEquivalence
<1>5. \A v, w \in Ids' : Same(nodes'[v], nodes'[w]) => v = w
  <2> SUFFICES ASSUME NEW v \in Ids', NEW w \in Ids', Same(nodes'[v], nodes'[w])
               PROVE  v = w
    OBVIOUS
  <2>1. CASE v \in Ids /\ w \in Ids
    <3>1. nodes'[v] = nodes[v] /\ nodes'[w] = nodes[w]
      BY <1>2, <2>1
    <3> QED
      BY <2>1, <3>1 DEF KeptOnce
  <2>2. CASE v \in Ids /\ w = new
    BY <1>1, <1>2, <2>2
  <2>3. CASE v = new /\ w \in Ids
    BY <1>2, <1>4, <2>3
  <2> QED
    BY <1>2, <2>1, <2>2, <2>3
<1>6. \A l \in Key : given'[l] # 0 =>
        given'[l] \in Ids' /\ (Same(l, l) => Same(nodes'[given'[l]], l))
  BY <1>2, <1>3 DEF KeptOnce
<1>7. ASSUME NEW m \in Key, NEW l \in Key, Same(m, l), given[m] # 0, given'[l] # 0
      PROVE  given'[l] = given[m]
  <2>1. Same(m, m) /\ Same(l, l)
    BY <1>7, SameNode
  <2>2. given[m] \in Ids /\ Same(nodes[given[m]], m)
    BY <1>7, <2>1 DEF KeptOnce
  <2>3. Same(nodes[given[m]], l)
    BY <1>0, <1>7, <2>2 DEF SameIsEquivalence
  <2>4. l # k
    BY <1>1, <2>2, <2>3
  <2>5. given[l] \in Ids /\ Same(nodes[given[l]], l)
    BY <1>3, <1>7, <2>1, <2>4 DEF KeptOnce
  <2> QED
    BY <1>3, <1>7, <2>2, <2>4, <2>5, SameNode
<1> QED
  BY <1>5, <1>6, <1>7 DEF KeptOnce, GivenStays

LEMMA KeptOnceStep ==
  ASSUME SameIsEquivalence, TypeOK, KeptOnce, [Promise!Next]_(Promise!vars)
  PROVE  KeptOnce' /\ GivenStays
<1>1. CASE UNCHANGED Promise!vars
  <2>1. nodes' = nodes /\ given' = given
    BY <1>1 DEF Promise!vars
  <2>2. KeptOnce'
    BY <2>1 DEF KeptOnce, Ids
  <2>3. ASSUME NEW k \in Key, NEW l \in Key, Same(k, l), given[k] # 0, given[l] # 0
        PROVE  given[l] = given[k]
    BY <2>3, SameNode DEF KeptOnce
  <2> QED
    BY <2>1, <2>2, <2>3 DEF GivenStays
<1> QED
  BY <1>1, HitKeepsOnce, MissKeepsOnce DEF Promise!Next

(* An id is the identity of a node: when equal keys have one home and == is  *)
(* symmetric and transitive, whoever asks for a node that is the same as one *)
(* an id was given for gets that id, through every collision and growth.     *)
THEOREM IdsAreIdentities ==
  ASSUME SameIsEquivalence, HomesAgree
  PROVE  Spec => IdentityStable
<1>1. Init => KeptOnce
  BY DEF Init, KeptOnce, Ids
<1>2. IInv /\ [Next]_vars => [Promise!Next]_(Promise!vars)
  BY HomesAgree, StepImplements
<1>3. IInv /\ KeptOnce /\ [Next]_vars => KeptOnce'
  BY SameIsEquivalence, <1>2, KeptOnceStep DEF IInv
<1>4. IInv /\ KeptOnce /\ [Next]_vars =>
        [\A k, l \in Key :
           Same(k, l) /\ given[k] # 0 /\ given'[l] # 0 => given'[l] = given[k]]_vars
  BY SameIsEquivalence, <1>2, KeptOnceStep DEF IInv, GivenStays
<1> QED
  BY <1>1, <1>3, <1>4, InvariantHolds, PTL DEF Spec, IdentityStable
=============================================================================
