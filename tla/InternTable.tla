---------------------------- MODULE InternTable -----------------------------
(***************************************************************************)
(* Builder::intern of rt/builder.hpp: open addressing over a vector of     *)
(* ids, linear probing, growth by doubling at half full.  One step is one  *)
(* iteration of a loop of the code, so that what a half-built table holds  *)
(* is part of the model.                                                   *)
(*                                                                         *)
(* Ids are counted from 1 and Free = 0 is the code's no_node, so that      *)
(* `nodes` is a TLA+ sequence.  Capacities are powers of two, for which     *)
(* `h & mask` is h % capacity.                                             *)
(***************************************************************************)
EXTENDS Naturals, Sequences

CONSTANTS
  Key,              \* the contents of a node, opaque
  Hash(_),          \* Builder::hash_of
  Same(_, _),       \* Builder::same
  InitialCapacity,  \* 64 in the code
  Capacities,       \* the sizes of a table: InitialCapacity doubled, and again
  MaxNodes          \* bound on the number of nodes

ASSUME HashAssumption == \A k \in Key : Hash(k) \in Nat
ASSUME CapacityAssumption ==
  /\ Capacities \subseteq Nat
  /\ InitialCapacity \in Capacities /\ InitialCapacity >= 2
  /\ \A c \in Capacities : c < 2 * MaxNodes => 2 * c \in Capacities
ASSUME MaxNodesAssumption == MaxNodes \in Nat
ASSUME SameAssumption == \A k, l \in Key : Same(k, l) \in BOOLEAN

VARIABLES
  nodes,     \* nodes_: the node of each id
  table,     \* table_: the id in each slot, or Free
  capacity,  \* table_.size()
  pc,        \* where intern() is: "idle" between calls
  key,       \* its argument
  slot,      \* i, the slot a loop is looking at
  cursor,    \* id, the node rehash() is putting back
  given      \* history: the id most recently returned for each key

vars == <<nodes, table, capacity, pc, key, slot, cursor, given>>

Free == 0
Ids == 1..Len(nodes)
Slots == 0..(capacity - 1)

(* `hash_of(n) & mask`, and the step `(i + 1) & mask` of both loops, in a     *)
(* table of c slots.                                                         *)
Home(c, k) == Hash(k) % c
After(c, i) == IF i + 1 = c THEN 0 ELSE i + 1

(* A hash table needs equal keys to have one home.  The keys of a node are   *)
(* compared by == and hashed by their bits: 0.0 and -0.0 are the same and    *)
(* their hashes are not, but they part only in bits 30 and 63, above every   *)
(* mask of a table of up to 2^30 slots.  That is a fact about the scalar, so *)
(* it is a hypothesis of what is proved.                                     *)
HomesAgree == \A k, l \in Key : Same(k, l) => \A c \in Capacities : Home(c, k) = Home(c, l)

TypeOK ==
  /\ nodes \in Seq(Key)
  /\ Len(nodes) <= MaxNodes
  /\ capacity \in Nat
  /\ table \in [Slots -> Ids \cup {Free}]
  /\ pc \in {"idle", "rehash", "probe"}
  /\ key \in Key
  /\ slot \in Nat
  /\ cursor \in Nat
  /\ given \in [Key -> 0..MaxNodes]

Init ==
  /\ nodes = <<>>
  /\ capacity = 0
  /\ table = [s \in Slots |-> Free]
  /\ pc = "idle"
  /\ key \in Key
  /\ slot = 0
  /\ cursor = 1
  /\ given = [k \in Key |-> 0]

-----------------------------------------------------------------------------
(* intern() *)

(* Mutant: growth only once the table is overfull. *)
MustGrow_WhenOverfull == capacity = 0 \/ Len(nodes) > capacity

(* The growth test: one more node would leave the table more than half full. *)
MustGrow == (Len(nodes) + 1) * 2 > capacity

(* rehash() begins: an empty table of twice the size, and the first node's home. *)
BeginGrow(k) ==
  /\ pc = "idle"
  /\ Len(nodes) < MaxNodes
  /\ MustGrow
  /\ key' = k
  /\ capacity' = IF capacity = 0 THEN InitialCapacity ELSE 2 * capacity
  /\ table' = [s \in 0..(capacity' - 1) |-> Free]
  /\ cursor' = 1
  /\ slot' = IF nodes = <<>> THEN 0 ELSE Home(capacity', nodes[1])
  /\ pc' = "rehash"
  /\ UNCHANGED <<nodes, given>>

BeginProbe(k) ==
  /\ pc = "idle"
  /\ Len(nodes) < MaxNodes
  /\ ~MustGrow
  /\ key' = k
  /\ slot' = Home(capacity, k)
  /\ pc' = "probe"
  /\ UNCHANGED <<nodes, table, capacity, cursor, given>>

(* The inner loop of rehash(): the slot is taken, look at the next. *)
RehashSkip ==
  /\ pc = "rehash"
  /\ cursor \in Ids
  /\ table[slot] # Free
  /\ slot' = After(capacity, slot)
  /\ UNCHANGED <<nodes, table, capacity, pc, key, cursor, given>>

(* Mutant: the inner loop of rehash() left out. *)
RehashPlace_AtHome ==
  /\ pc = "rehash"
  /\ cursor \in Ids
  /\ table' = [table EXCEPT ![Home(capacity, nodes[cursor])] = cursor]
  /\ cursor' = cursor + 1
  /\ slot' = IF cursor + 1 \in Ids THEN Home(capacity, nodes[cursor + 1]) ELSE slot
  /\ UNCHANGED <<nodes, capacity, pc, key, given>>

(* Put node `cursor` back and go on to the next one, whose home is computed  *)
(* with the new capacity.                                                     *)
RehashPlace ==
  /\ pc = "rehash"
  /\ cursor \in Ids
  /\ table[slot] = Free
  /\ table' = [table EXCEPT ![slot] = cursor]
  /\ cursor' = cursor + 1
  /\ slot' = IF cursor + 1 \in Ids THEN Home(capacity, nodes[cursor + 1]) ELSE slot
  /\ UNCHANGED <<nodes, capacity, pc, key, given>>

RehashDone ==
  /\ pc = "rehash"
  /\ cursor \notin Ids
  /\ slot' = Home(capacity, key)
  /\ pc' = "probe"
  /\ UNCHANGED <<nodes, table, capacity, key, cursor, given>>

(* The probe loop: another node lives here, look at the next slot. *)
ProbeSkip ==
  /\ pc = "probe"
  /\ table[slot] # Free
  /\ ~Same(nodes[table[slot]], key)
  /\ slot' = After(capacity, slot)
  /\ UNCHANGED <<nodes, table, capacity, pc, key, cursor, given>>

ProbeHit ==
  /\ pc = "probe"
  /\ table[slot] # Free
  /\ Same(nodes[table[slot]], key)
  /\ given' = [given EXCEPT ![key] = table[slot]]
  /\ pc' = "idle"
  /\ UNCHANGED <<nodes, table, capacity, key, slot, cursor>>

(* Mutant: the id is taken after the node is pushed. *)
ProbeFree_IdAfterPush ==
  /\ pc = "probe"
  /\ table[slot] = Free
  /\ nodes' = Append(nodes, key)
  /\ table' = [table EXCEPT ![slot] = Len(nodes)]
  /\ given' = [given EXCEPT ![key] = Len(nodes)]
  /\ pc' = "idle"
  /\ UNCHANGED <<capacity, key, slot, cursor>>

(* Mutant: the table entry is never written. *)
ProbeFree_NotRecorded ==
  /\ pc = "probe"
  /\ table[slot] = Free
  /\ nodes' = Append(nodes, key)
  /\ given' = [given EXCEPT ![key] = Len(nodes) + 1]
  /\ pc' = "idle"
  /\ UNCHANGED <<table, capacity, key, slot, cursor>>

ProbeFree ==
  /\ pc = "probe"
  /\ table[slot] = Free
  /\ nodes' = Append(nodes, key)
  /\ table' = [table EXCEPT ![slot] = Len(nodes) + 1]
  /\ given' = [given EXCEPT ![key] = Len(nodes) + 1]
  /\ pc' = "idle"
  /\ UNCHANGED <<capacity, key, slot, cursor>>

Step == RehashSkip \/ RehashPlace \/ RehashDone \/ ProbeSkip \/ ProbeHit \/ ProbeFree

Next == (\E k \in Key : BeginGrow(k) \/ BeginProbe(k)) \/ Step

Spec == Init /\ [][Next]_vars

(* A call runs to its end: intern() is one thread's straight-line code. *)
FairSpec == Spec /\ WF_vars(Step)

-----------------------------------------------------------------------------
(* The slots a search that starts at h looks at before it comes to s, in a table *)
(* of c slots.                                                               *)
Passed(c, h, s) == IF h <= s THEN h..(s - 1) ELSE (h..(c - 1)) \cup (0..(s - 1))

(* The ids rehash() has put back, or all of them. *)
Placed == IF pc = "rehash" THEN 1..(cursor - 1) ELSE Ids

(* An id has one slot. *)
OneSlotEach ==
  /\ \A s, t \in Slots : table[s] # Free /\ table[s] = table[t] => s = t
  /\ \A v \in Placed : \E s \in Slots : table[s] = v
  /\ \A s \in Slots : table[s] # Free => table[s] \in Placed

(* No slot between a node's home and its slot is free, so a search for the   *)
(* node cannot stop short of it: what makes an id the identity of a node     *)
(* across collisions, wrap-around and growth.                                *)
Findable ==
  \A s \in Slots : table[s] # Free =>
    \A q \in Passed(capacity, Home(capacity, nodes[table[s]]), s) : table[q] # Free

(* "Keep the table at most half full": a search always ends at a free slot.  *)
HalfFull == pc = "idle" => 2 * Len(nodes) <= capacity

TableSound == OneSlotEach /\ Findable /\ HalfFull

(* The table does what the comment on Builder promises of it. *)
Promise == INSTANCE Interner
ImplementsInterner == Promise!Spec

(* An id is the identity of a node: whoever asks for a node that is the same *)
(* as one an id was given for, its own key or another that == takes for it,  *)
(* is given that id, before and after any growth.  A NaN, which is not the   *)
(* same as itself, is promised nothing.                                      *)
IdentityStable ==
  [][\A k, l \in Key : Same(k, l) /\ given[k] # 0 /\ given'[l] # 0 => given'[l] = given[k]]_vars

(* Every search ends. *)
Returns == pc # "idle" ~> pc = "idle"
=============================================================================
