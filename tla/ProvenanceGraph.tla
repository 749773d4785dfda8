-------------------------- MODULE ProvenanceGraph --------------------------
(***************************************************************************)
(* The per-lineage derivation graph (graph.cpp): records, typed edges, the *)
(* bounded insertions, the cycle check, record-state updates and the       *)
(* bounded breadth-first traversal.                                        *)
(*                                                                         *)
(* Records are a total function from identities to records; an identity    *)
(* that names no record maps to NoRecord, whose kind is "Absent".  Edges   *)
(* are a set: an edge identity is a hash of everything the edge carries,   *)
(* its authority and mutation attempt included, so an edge is its content. *)
(***************************************************************************)
EXTENDS ProvenanceRecord, FiniteSets

CONSTANTS
    NodeId,     \* record identities (content hashes)
    None,       \* an unset identity
    Limits      \* the Limits structure, see LimitsAreValid

ASSUME NodeIdAssumption == IsFiniteSet(NodeId) /\ None \notin NodeId

\* nodes, edges, parents, children, history, attempts: the per-lineage bounds;
\* publishers: sessions; depth, results: traversal.  Limits::validate only
\* requires each of them to be positive and a few to be ordered.
ASSUME LimitsAreValid ==
    Limits \in [nodes : Nat \ {0}, edges : Nat \ {0}, parents : Nat \ {0},
                children : Nat \ {0}, history : Nat \ {0},
                attempts : Nat \ {0}, publishers : Nat \ {0},
                depth : Nat \ {0}, results : Nat \ {0}]

NoBinding == [path |-> 0, policy |-> 0, adPolicy |-> 0, adEvidence |-> 0,
              plan |-> 0, fabric |-> 0]

NoAuthority == [pub |-> None, boot |-> None, epoch |-> 0, att |-> None]

NoRecord == [kind |-> "Absent", gen |-> 0, auth |-> NoAuthority,
             bind |-> NoBinding, root |-> FALSE, corrects |-> None,
             life |-> "Declared", cur |-> "HistoricalOnly", rr |-> FALSE,
             reval |-> FALSE, correctedBy |-> None]

Present(ns) == {n \in NodeId : ns[n].kind # "Absent"}

-----------------------------------------------------------------------------
(* Edges *)

\* S contains every record an edge of es leads to from a record of S.
ClosedUnder(es, S) == \A e \in es : e.from \in S => e.to \in S

\* b leads to a along es, possibly by no edge at all (b = a).
Reaches(es, b, a) ==
    \A S \in SUBSET NodeId : b \in S /\ ClosedUnder(es, S) => a \in S

\* Mutant: only the self edge is refused.
check_add_edge_SelfOnly(es, e) == e.to # e.from

\* check_add_edge: a new edge is cyclic exactly when its origin is already
\* reachable from its target.  The self edge is the case of no edge at all.
check_add_edge(es, e) == ~Reaches(es, e.to, e.from)

incoming_count(es, n) == Cardinality({e \in es : e.to = n})
outgoing_count(es, n) == Cardinality({e \in es : e.from = n})

\* Mutant: the number of parents is not bounded.
add_edge_ok_AnyParents(ns, es, e) ==
    /\ Cardinality(es) < Limits.edges
    /\ {e.from, e.to} \subseteq Present(ns)
    /\ outgoing_count(es, e.from) < Limits.children
    /\ check_add_edge(es, e)

\* add_edge succeeds: the bounds first, then the cycle check.
add_edge_ok(ns, es, e) ==
    /\ Cardinality(es) < Limits.edges
    /\ {e.from, e.to} \subseteq Present(ns)
    /\ incoming_count(es, e.to) < Limits.parents
    /\ outgoing_count(es, e.from) < Limits.children
    /\ check_add_edge(es, e)

\* The edge set after the first k edges of the list s were inserted.  An edge
\* that is already recorded is reported Duplicate and skipped.
EdgesAfter(es, s, k) == es \cup {s[i] : i \in 1..k}

\* Inserting s one edge at a time stops at s[k].
InsertionStopsAt(ns, es, s, k) ==
    /\ s[k] \notin EdgesAfter(es, s, k - 1)
    /\ ~add_edge_ok(ns, EdgesAfter(es, s, k - 1), s[k])

\* No cycle: no set of records in which every record leads into the set.
Acyclic(es) ==
    \A S \in SUBSET NodeId :
        (\A n \in S : \E e \in es : e.from = n /\ e.to \in S) => S = {}

-----------------------------------------------------------------------------
(* Record state *)

\* update_node_state: an impossible transition is refused and changes nothing;
\* every caller but one ignores the refusal.
update_node_state(ns, n, life, cur, rr) ==
    IF is_valid_lifecycle_transition(ns[n].life, life)
    THEN [ns EXCEPT ![n].life = life, ![n].cur = cur, ![n].rr = rr]
    ELSE ns

mark_revalidated(ns, n) == [ns EXCEPT ![n].reval = TRUE]

set_corrected_by(ns, n, by) == [ns EXCEPT ![n].correctedBy = by]

-----------------------------------------------------------------------------
(* Traversal *)

\* The records within depth d of origin along outgoing edges.
Within(es, origin, d) ==
    LET level[k \in 0..d] ==
            IF k = 0 THEN {origin}
            ELSE level[k - 1]
                 \cup {e.to : e \in {f \in es : f.from \in level[k - 1]}}
    IN level[d]

\* traverse: more than max_query_results records is a ResourceLimit failure,
\* and the result is then empty, not truncated.
traverse(es, origin, d) ==
    LET found == Within(es, origin, d)
    IN IF Cardinality(found) > Limits.results THEN {} ELSE found

=============================================================================
