---------------------------- MODULE MCStoreFile ----------------------------
(* Instances of StoreFile: two lineages with different routes, or with one. *)
EXTENDS StoreFile

TwoLineages == 1..2

DistinctRoutes == [l \in Lineages |-> l]
OneRoute       == [l \in Lineages |-> 1]

=============================================================================
