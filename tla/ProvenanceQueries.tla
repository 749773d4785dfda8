-------------------------- MODULE ProvenanceQueries --------------------------
(***************************************************************************)
(* The algorithms that read a lineage under its shared lock (graph.cpp,    *)
(* store_query.cpp): the bounded breadth-first traversal, the topological  *)
(* order behind validate_structure, explanations, and the difference of    *)
(* two snapshots.  None changes state; each is checked on every graph the  *)
(* store can reach, half-applied commits included.                         *)
(*                                                                         *)
(* Identities are hashes, so an order by identity is an arbitrary order.   *)
(***************************************************************************)
EXTENDS ProvenanceStore, SequencesExt

CONSTANTS
    MaxVisited,          \* Limits::max_visited_nodes
    MaxExplanation       \* Limits::max_explanation_nodes

\* Limits::validate
ASSUME QueryLimitsAreValid ==
    /\ MaxVisited \in Nat /\ MaxExplanation \in Nat \ {0}
    /\ Limits.results <= MaxVisited
    /\ MaxExplanation <= MaxVisited

-----------------------------------------------------------------------------
(* Bounded traversal *)

\* A caller may narrow a configured limit but not widen it; 0 is unset.
Narrowed(asked, configured) ==
    IF asked = 0 \/ asked > configured THEN configured ELSE asked

\* One edge away from n in the direction of the walk.
Adjacent(es, n, direction, types) ==
    LET matching == {e \in es : e.type \in types}
    IN IF direction = "Outgoing"
       THEN {e.to : e \in {f \in matching : f.from = n}}
       ELSE {e.from : e \in {f \in matching : f.to = n}}

Visited(queue) == {queue[i].node : i \in 1..Len(queue)}

\* Mutant: the depth bound lets one more level through.
Expandable_OffByOne(entry, max_depth) == entry.depth <= max_depth

\* A record at the depth bound is reported but not expanded.
Expandable(entry, max_depth) == entry.depth < max_depth

\* The unvisited records next to an entry, one deeper; at the depth bound none.
NextEntries(es, direction, types, queue, entry, max_depth) ==
    LET new == IF Expandable(entry, max_depth)
               THEN SetToSeq(Adjacent(es, entry.node, direction, types)
                                \ Visited(queue))
               ELSE <<>>
    IN [i \in 1..Len(new) |-> [node |-> new[i], depth |-> entry.depth + 1]]

\* One turn of the loop of traverse.  A record is marked visited when it is
\* queued; one too many is a ResourceLimit failure, whose result is empty.
Expanded(es, direction, types, queue, cursor, bounds) ==
    IF cursor > Len(queue) THEN queue
    ELSE LET grown == queue \o NextEntries(es, direction, types, queue,
                                           queue[cursor], bounds.depth)
         IN IF \/ Len(grown) > bounds.visited
               \/ Len(grown) > bounds.results
            THEN <<>>
            ELSE grown

\* traverse: the records with their depths in the order they were queued.  The
\* queue has at most max_visited entries, and each turn uses up one.
Walk(es, origin, direction, types, bounds) ==
    LET narrowed == [depth   |-> Narrowed(bounds.depth, Limits.depth),
                     results |-> Narrowed(bounds.results, Limits.results),
                     visited |-> Narrowed(bounds.visited, MaxVisited)]
        queue[k \in 0..narrowed.visited] ==
            IF k = 0 THEN <<[node |-> origin, depth |-> 0]>>
            ELSE Expanded(es, direction, types, queue[k - 1], k, narrowed)
    IN queue[narrowed.visited]

\* The reference: what lies within d edges of origin.
WithinEdges(es, origin, direction, types, d) ==
    LET level[k \in 0..d] ==
            IF k = 0 THEN {origin}
            ELSE level[k - 1] \cup
                 UNION {Adjacent(es, n, direction, types) : n \in level[k - 1]}
    IN level[d]

-----------------------------------------------------------------------------
(* Structural validation *)

\* One turn of the sort: a ready record goes into the order, and the records
\* whose last unprocessed parent it was become ready.
TakeReady(es, present, sort) ==
    IF sort.ready = {} THEN sort
    ELSE LET n == CHOOSE m \in sort.ready : TRUE
             left == [m \in present |->
                         sort.degree[m] - Cardinality(
                             {e \in es : e.from = n /\ e.to = m})]
         IN [order  |-> Append(sort.order, n),
             degree |-> left,
             ready  |-> (sort.ready \ {n}) \cup
                        {m \in present : sort.degree[m] > 0 /\ left[m] <= 0}]

\* topological_order: the records with no unprocessed parent are taken one at
\* a time, each at most once; <<FALSE>> stands for nullopt, when some record
\* is never ready.
topological_order(ns, es) ==
    LET present == Present(ns)
        degrees == [n \in present |-> incoming_count(es, n)]
        sort[k \in 0..Cardinality(present)] ==
            IF k = 0 THEN [order  |-> <<>>,
                           degree |-> degrees,
                           ready  |-> {n \in present : degrees[n] = 0}]
            ELSE TakeReady(es, present, sort[k - 1])
        order == sort[Cardinality(present)].order
    IN IF Len(order) = Cardinality(present) THEN <<TRUE, order>>
       ELSE <<FALSE>>

\* validate_structure, which load runs on every lineage of an image.  The
\* adjacency and derivation indexes it compares are the edge set itself here.
validate_structure(ns, es) ==
    /\ \A e \in es : {e.from, e.to} \subseteq Present(ns)
    /\ topological_order(ns, es)[1]

-----------------------------------------------------------------------------
(* Explanations *)

\* edge_type_is_action_relation
ActionRelations == {"Withdraws", "RevokedBy", "RetiredBy", "Revalidates",
                    "Corrects", "Invalidates"}

\* edge_matches_mode, which filter_for_mode wraps.
ModeTypes ==
    [ImmediateCause  |-> EdgeTypes,
     FullAncestry    |-> EdgeTypes,
     AuthorityOnly   |-> EvidenceRelations,
     PolicyOnly      |-> {"AdaptedFrom", "SelectedFrom", "DerivedFrom"},
     PathOnly        |-> {"AuthorizedBy", "ComputedFrom", "SelectedFrom"},
     MutationLineage |-> ActionRelations \cup SuccessorRelations
                                         \cup {"TransitionedBy"}]

ExplainBounds(mode, max_depth, max_nodes) ==
    [depth   |-> IF mode = "ImmediateCause" /\ max_depth = 0 THEN 1
                 ELSE max_depth,
     results |-> max_nodes,
     visited |-> 0]

\* Mutant: the mode filters the reported edges but not the walk.
ExplainWalk_Unfiltered(es, subject, mode, max_depth, max_nodes) ==
    Walk(es, subject, "Outgoing", EdgeTypes,
         ExplainBounds(mode, max_depth, max_nodes))

ExplainWalk(es, subject, mode, max_depth, max_nodes) ==
    Walk(es, subject, "Outgoing", ModeTypes[mode],
         ExplainBounds(mode, max_depth, max_nodes))

\* The elements of S by increasing depth, equal depths in any order.
InDepthOrder(S) ==
    CHOOSE s \in [1..Cardinality(S) -> S] :
        /\ IsInjective(s)
        /\ \A i, j \in 1..Cardinality(S) : i < j => s[i].depth <= s[j].depth

\* One step for every edge of the types between two records of the walk, one
\* deeper than its origin.
ExplainSteps(es, walk, types) ==
    {[depth |-> walk[p[1]].depth + 1, edge |-> p[2]] :
        p \in {q \in (1..Len(walk)) \X es : /\ q[2].type \in types
                                            /\ q[2].from = walk[q[1]].node
                                            /\ q[2].to \in Visited(walk)}}

\* explain: the steps of the walk in order of depth, cut at the bound.  A walk
\* that failed leaves no record and no step.
explain(es, subject, mode, max_depth, max_nodes) ==
    LET walk == ExplainWalk(es, subject, mode, max_depth, max_nodes)
        steps == InDepthOrder(ExplainSteps(es, walk, ModeTypes[mode]))
        max_steps == IF max_nodes = 0 THEN MaxExplanation ELSE max_nodes
    IN [steps     |-> SubSeq(steps, 1, IF Len(steps) > max_steps
                                       THEN max_steps ELSE Len(steps)),
        truncated |-> walk = <<>> \/ Len(steps) > max_steps]

-----------------------------------------------------------------------------
(* Snapshots and their differences *)

\* snapshot with its edges; without history it keeps the CURRENT records, and
\* still every edge.  The authority generation, which only the diff reads, is
\* left out.
snapshot(ns, es, ln, include_historical) ==
    [nodes |-> [n \in {m \in Present(ns) :
                          include_historical \/ ns[m].cur = "Current"} |->
                   [life |-> ns[n].life, cur |-> ns[n].cur]],
     edges |-> es,
     lgen  |-> ln.lgen]

\* What the diff adds to the entry of a new edge.
RecordedKinds ==
    [Supersedes     |-> "SupersessionRecorded",
     Replaces       |-> "SupersessionRecorded",
     RolledBackFrom |-> "SupersessionRecorded",
     RevokedBy      |-> "RevocationRecorded",
     RetiredBy      |-> "RetirementRecorded",
     Corrects       |-> "CorrectionRecorded"]

NodeEntries(kind, S, state) ==
    {[kind |-> kind, node |-> n, state |-> state[n]] : n \in S}

EdgeEntries(kind, S) == {[kind |-> kind, edge |-> e] : e \in S}

\* Mutant: a changed currentness hides a changed lifecycle.
Changes_OneOfTwo(before, after) ==
    LET both == DOMAIN before \cap DOMAIN after
        cur == {n \in both : before[n].cur # after[n].cur}
    IN NodeEntries("CurrentnessChanged", cur,
                   [n \in cur |-> after[n].cur])
       \cup NodeEntries("LifecycleChanged",
                        {n \in both \ cur : before[n].life # after[n].life},
                        [n \in both |-> after[n].life])

\* A record of both snapshots has an entry for each state that changed.
Changes(before, after) ==
    LET both == DOMAIN before \cap DOMAIN after
    IN NodeEntries("CurrentnessChanged",
                   {n \in both : before[n].cur # after[n].cur},
                   [n \in both |-> after[n].cur])
       \cup NodeEntries("LifecycleChanged",
                        {n \in both : before[n].life # after[n].life},
                        [n \in both |-> after[n].life])

compute_diff(b, a) ==
    LET added == a.edges \ b.edges
        recorded == {e \in added : e.type \in DOMAIN RecordedKinds}
    IN NodeEntries("NodeAdded", DOMAIN a.nodes \ DOMAIN b.nodes, a.nodes)
       \cup NodeEntries("NodeRemoved", DOMAIN b.nodes \ DOMAIN a.nodes,
                        b.nodes)
       \cup EdgeEntries("EdgeAdded", added)
       \cup EdgeEntries("EdgeRemoved", b.edges \ a.edges)
       \cup (UNION {EdgeEntries(RecordedKinds[e.type], {e}) : e \in recorded})
       \cup Changes(b.nodes, a.nodes)
       \cup (IF a.lgen = b.lgen THEN {}
             ELSE {[kind |-> "LineageGenerationChanged"]})

-----------------------------------------------------------------------------
(* Properties *)

\* The parts of an edge the algorithms look at.
PlainEdge(from, to) ==
    [from |-> from, to |-> to, type |-> "DerivedFrom", auth |-> NoAuthority]

\* The two cycle checks of graph.cpp agree: every graph the store can reach is
\* one that validate_structure accepts, so load never refuses a lineage for its
\* structure, and the search that add_edge makes for a new edge gives the
\* answer of the full sort of the graph with that edge.
CycleChecksAgree ==
    /\ validate_structure(nodes, edges)
    /\ \A from, to \in Present(nodes) :
          check_add_edge(edges, PlainEdge(from, to)) <=>
             topological_order(nodes, edges \cup {PlainEdge(from, to)})[1]

\* The bounds of a caller of ancestors(), descendants() and the two chains.
CallerBounds == [depth : {0, 1}, results : {0, 2}, visited : {0}]

\* traverse() reports exactly the records within the depth bound, each once
\* and at its distance, in both directions and for the filtered chains; it
\* fails exactly when there are more of them than the result bound.
TraversalIsExact ==
    \A origin \in indexed, direction \in {"Outgoing", "Incoming"},
       types \in {EdgeTypes, SuccessorRelations}, bounds \in CallerBounds :
        LET walk == Walk(edges, origin, direction, types, bounds)
            d == Narrowed(bounds.depth, Limits.depth)
            reach(k) == WithinEdges(edges, origin, direction, types, k)
        IN IF Cardinality(reach(d)) > Narrowed(bounds.results,
                                               Limits.results)
           THEN walk = <<>>
           ELSE /\ Visited(walk) = reach(d)
                /\ Len(walk) = Cardinality(reach(d))
                /\ \A i \in 1..Len(walk) :
                      /\ walk[i].node \in reach(walk[i].depth)
                      /\ walk[i].depth > 0 =>
                            walk[i].node \notin reach(walk[i].depth - 1)

\* An explanation is a connected argument from its subject: every step starts
\* at the subject or where an earlier step arrived, wherever the step bound
\* cuts it; and one that is not marked truncated has every edge of its mode
\* between the records within its depth.
ExplanationIsConnected ==
    \A subject \in indexed, mode \in DOMAIN ModeTypes, max_nodes \in {0, 2} :
        LET x == explain(edges, subject, mode, 0, max_nodes)
            d == IF mode = "ImmediateCause" THEN 1 ELSE Limits.depth
            near == WithinEdges(edges, subject, "Outgoing", ModeTypes[mode],
                                d)
        IN /\ \A i \in 1..Len(x.steps) :
                 \/ x.steps[i].edge.from = subject
                 \/ \E j \in 1..(i - 1) :
                       x.steps[j].edge.to = x.steps[i].edge.from
           /\ ~x.truncated =>
                 {x.steps[i].edge : i \in 1..Len(x.steps)} =
                 {e \in edges : /\ e.type \in ModeTypes[mode]
                                /\ {e.from, e.to} \subseteq near}

\* The records a diff leads to from the snapshot it starts at.
Patched(b, diff) ==
    LET added == {x.node : x \in {y \in diff : y.kind = "NodeAdded"}}
        removed == {x.node : x \in {y \in diff : y.kind = "NodeRemoved"}}
        entries == {x \in diff : x.kind \in {"NodeAdded",
                        "CurrentnessChanged", "LifecycleChanged"}}
        new(kind, n, old) ==
            IF \E x \in entries : x.kind = kind /\ x.node = n
            THEN (CHOOSE x \in entries : x.kind = kind /\ x.node = n).state
            ELSE old
    IN [n \in (DOMAIN b.nodes \cup added) \ removed |->
          IF n \in added THEN new("NodeAdded", n, None)
          ELSE [life |-> new("LifecycleChanged", n, b.nodes[n].life),
                cur |-> new("CurrentnessChanged", n, b.nodes[n].cur)]]

\* A diff tells the whole story of a step.  With history, nothing is ever
\* reported as removed, and the old snapshot with the diff applied is the new
\* one; a step that touched a record has a diff that is not empty.
\* Without history the same holds of the CURRENT records, which do leave.
DiffTellsTheStep ==
    [][ \A historical \in BOOLEAN :
          LET b == snapshot(nodes, edges, lin, historical)
              a == snapshot(nodes', edges', lin', historical)
              diff == compute_diff(b, a)
          IN /\ Patched(b, diff) = a.nodes
             /\ \A x \in diff : x.kind # "EdgeRemoved"
             /\ historical => /\ \A x \in diff : x.kind # "NodeRemoved"
                              /\ diff = {} => nodes' = nodes ]_vars

=============================================================================
