-------------------------- MODULE ProvenanceRecord --------------------------
(***************************************************************************)
(* The vocabulary of the provenance store and its pure functions: record   *)
(* kinds, lifecycles, currentness, typed derivation edges, the lifecycle   *)
(* transition table and the currentness function.                          *)
(*                                                                         *)
(* A generation, epoch or watermark is a natural number; 0 stands for the  *)
(* default-constructed identity whose valid() is false, which is also how  *)
(* an absent optional binding is written.                                  *)
(***************************************************************************)
EXTENDS Naturals

\* The five upstream declaration kinds (PathAuthorization .. PolicyDecision)
\* are treated alike by the store once check_declaration_bindings accepted
\* them, so they share one kind here.  "Absent": no record with this identity.
NodeKinds == {"RouteGeneration", "Declaration", "AdministrativeAction",
              "CompactedSummary"}

NodeLifecycles == {"Declared", "Current", "Historical", "Superseded",
                   "Revoked", "Retired", "Invalid", "RevalidationRequired"}

CurrentnessValues == {"Current", "StaleRoute", "StalePathAuthority",
                      "StalePolicy", "StaleEvidence", "StaleEpoch",
                      "FencedPublisher", "HistoricalOnly",
                      "RevalidationRequired"}

LineageLifecycles == {"Active", "Withdrawn", "Revoked", "Retired"}

PublisherLiveness == {"Live", "Fenced", "Unknown"}

-----------------------------------------------------------------------------
(* Typed edges *)

EdgeTypes == {"DerivedFrom", "Supersedes", "Replaces", "Withdraws",
              "Revalidates", "AuthorizedBy", "ComputedFrom", "SelectedFrom",
              "AdaptedFrom", "TransitionedBy", "RolledBackFrom", "RevokedBy",
              "RetiredBy", "Corrects", "Invalidates"}

\* edge_type_is_successor_relation
SuccessorRelations == {"Supersedes", "Replaces", "DerivedFrom",
                       "RolledBackFrom"}

\* edge_type_is_evidence_relation
EvidenceRelations == {"AuthorizedBy", "ComputedFrom", "SelectedFrom",
                      "AdaptedFrom", "TransitionedBy"}

\* link_type_is_supported
LinkTypes == EvidenceRelations \cup {"DerivedFrom"}

\* Revocation and retirement point from the affected record to the action.
edge_from_new_node(type) == type \notin {"RevokedBy", "RetiredBy"}

-----------------------------------------------------------------------------
(* Record state *)

\* Mutant: an invalid record may become current again.
LifecycleSuccessors_Revives ==
    [l \in NodeLifecycles |-> NodeLifecycles]

LifecycleSuccessors ==
    [Declared             |-> {"Current", "Historical", "Invalid",
                               "Superseded"},
     Current              |-> {"Historical", "Superseded", "Revoked",
                               "Retired", "Invalid", "RevalidationRequired"},
     RevalidationRequired |-> {"Current", "Historical", "Superseded",
                               "Revoked", "Retired", "Invalid"},
     Historical           |-> {"Invalid", "Revoked", "Retired",
                               "Superseded"},
     Superseded           |-> {"Invalid", "Revoked", "Retired"},
     Revoked              |-> {"Retired", "Invalid"},
     Retired              |-> {"Invalid"},
     Invalid              |-> {}]

is_valid_lifecycle_transition(from, to) ==
    from = to \/ to \in LifecycleSuccessors[from]

\* Mutant: an invalid record is not history.
HistoryLifecycles_NoInvalid == {"Historical", "Superseded"}

\* Lifecycles whose records count against the bounded history.
HistoryLifecycles == {"Historical", "Superseded", "Invalid"}

node_is_history_record(node) ==
    /\ node.kind \in NodeKinds \ {"CompactedSummary"}
    /\ node.life \in HistoryLifecycles

\* A bound generation that is not the announced one; neither an absent
\* binding nor an unannounced watermark can make a record stale.
differs(bound, mark) == bound # 0 /\ mark # 0 /\ bound # mark

\* The documented precedence: each line is one early return of the code.
compute_currentness(lineage, node, marks, liveness) ==
    IF lineage.life = "Retired" \/ node.life = "Retired"
        THEN "HistoricalOnly"
    ELSE IF node.life \in HistoryLifecycles \cup {"Revoked"}
        THEN "HistoricalOnly"
    ELSE IF node.rr THEN "RevalidationRequired"
    ELSE IF node.kind = "RouteGeneration" /\ node.gen # lineage.gen
        THEN "StaleRoute"
    ELSE IF differs(node.bind.path, marks.path) THEN "StalePathAuthority"
    ELSE IF differs(node.bind.policy, marks.policy) THEN "StalePolicy"
    ELSE IF differs(node.bind.adPolicy, marks.policy) THEN "StalePolicy"
    ELSE IF differs(node.bind.adEvidence, marks.evidence)
        THEN "StaleEvidence"
    ELSE IF differs(node.bind.fabric, marks.epoch) THEN "StaleEpoch"
    ELSE IF marks.epoch # 0 /\ node.auth.epoch # marks.epoch
        THEN "StaleEpoch"
    ELSE IF node.reval THEN "Current"
    ELSE IF liveness = "Fenced" THEN "FencedPublisher"
    ELSE IF liveness = "Unknown" THEN "RevalidationRequired"
    ELSE "Current"

=============================================================================
