------------------------- MODULE MCBookEquivalence -------------------------
(* Order ids and slab slots are interchangeable: nothing compares them.     *)
EXTENDS BookEquivalence, TLC

Interchangeable == Permutations(OrderIds) \cup Permutations(Slots)

=============================================================================
