---------------------------- MODULE RouteLineage ----------------------------
(***************************************************************************)
(* What a lineage promises to its readers, without records, edges or       *)
(* sessions: a route generation that grows, and a lifecycle in which a     *)
(* withdrawn route may return with a later generation while a revoked or   *)
(* retired one never does.  The generation index belongs to the route:     *)
(* when another lineage shares it, the current generation may be published *)
(* again.                                                                  *)
(***************************************************************************)
EXTENDS Naturals

VARIABLES life, gen, shared

Init == life = "Active" /\ gen = 0 /\ shared = FALSE

Open == life \in {"Active", "Withdrawn"}

\* Another lineage of the route appears, for good.
Share == shared' = TRUE /\ UNCHANGED <<life, gen>>

\* A new generation replaces the current one and ends a withdrawal.
Publish ==
    /\ Open
    /\ life' = "Active"
    /\ gen' \in Nat
    /\ gen' > gen \/ (shared /\ gen' = gen)
    /\ UNCHANGED shared

\* An administrative end of the route, temporary or final.
End(l) == Open /\ life' = l /\ UNCHANGED <<gen, shared>>

Next == Share \/ Publish \/ \E l \in {"Withdrawn", "Revoked", "Retired"} : End(l)

Spec == Init /\ [][Next]_<<life, gen, shared>>
=============================================================================
