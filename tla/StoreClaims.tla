----------------------------- MODULE StoreClaims -----------------------------
(***************************************************************************)
(* Statements the repository's documentation and tests make about the      *)
(* store.  Each is checked by a run of its own against ProvenanceStore.    *)
(***************************************************************************)
EXTENDS ProvenanceStore

\* tests/test_adversarial.cpp:125: "The same generation with different provenance
\* is a conflict, not a second record."  The current record gives way to another
\* record of the same generation only when that record corrects it.
GenerationIsNotRepublished ==
    [][ lin'.gen = lin.gen /\ lin'.cur # lin.cur
        => nodes'[lin'.cur].corrects = lin.cur ]_vars

=============================================================================
