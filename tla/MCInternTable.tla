---------------------------- MODULE MCInternTable ---------------------------
(***************************************************************************)
(* Builder::intern on small tables.  A key stands for a node and is its    *)
(* own hash: the keys of a run fix which homes collide at each capacity.   *)
(***************************************************************************)
EXTENDS InternTableProofs

CONSTANTS
  NaN,              \* a constant node that is not the same as itself
  PosZero, NegZero  \* two constants that are the same and have different bits

MCHash(k) == k

(* == of double. *)
MCSame(k, l) == (k = l /\ k # NaN) \/ {k, l} = {PosZero, NegZero}

ASSUME DoubleAssumption == HomesAgree /\ SameIsEquivalence /\ MCHash(PosZero) # MCHash(NegZero)
=============================================================================
