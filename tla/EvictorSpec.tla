---------------------------- MODULE EvictorSpec ----------------------------
(***************************************************************************)
(* The promise of evictor.hh kept with a least-recently-touched order:     *)
(* evict() returns the key whose last touch is the oldest and forgets it,  *)
(* or "" when it knows of none.                                            *)
(***************************************************************************)
EXTENDS EvictionOrder

CONSTANT Keys

VARIABLES order, victim   \* the keys known; what the last evict() returned

Init == order = <<>> /\ victim = EmptyKey

Touch(k) == order' = LRUTouch(order, k) /\ UNCHANGED victim

Evict == victim' = EvictKey(order) /\ order' = EvictRest(order)

Next == Evict \/ \E k \in Keys : Touch(k)

Spec == Init /\ [][Next]_<<order, victim>>
=============================================================================
