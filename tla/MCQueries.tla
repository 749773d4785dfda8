------------------------------ MODULE MCQueries ------------------------------
(* The graph run of ProvenanceStore, with the query algorithms. *)
EXTENDS MCStore, ProvenanceQueries
=============================================================================
