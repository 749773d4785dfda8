--------------------------- MODULE ProvenanceStore ---------------------------
(***************************************************************************)
(* The provenance store for one route lineage (store.cpp, store_api.cpp,   *)
(* the compaction of store_query.cpp and the reload of persistence.cpp).   *)
(* Every public operation is one atomic action; module CommitRace splits   *)
(* them at their locks.  Of the store's other lineages, only one that      *)
(* shares the route of this one touches its state: see Elsewhere.          *)
(*                                                                         *)
(* A call the code rejects before it changed anything is not a step.  A    *)
(* call it rejects after a partial change is: see PartialCommit.           *)
(***************************************************************************)
EXTENDS ProvenanceGraph, Sequences

CONSTANTS
    Publishers, Boots,  \* PublisherId and WorkerBootId values
    Attempts,           \* MutationAttemptId values
    BindingSet,         \* the upstream bindings clients attach
    SpecTypes,          \* the edge types clients use in publications and links
    Ops,                \* the operations clients use
    MaxSpecs,           \* bound: edges attached to one publication
    MaxGen,             \* bound: route generations
    MaxMark,            \* bound: announced upstream generations
    MaxEpoch,           \* bound: coordinator epochs
    MaxStoreGen         \* bound: store generation (2^64 - 1 in the code)

Bindings == [path : 0..MaxMark, policy : 0..MaxMark, adPolicy : 0..MaxMark,
             adEvidence : 0..MaxMark, plan : 0..MaxMark, fabric : 0..MaxEpoch]

ASSUME StoreAssumption ==
    /\ BindingSet \subseteq Bindings
    /\ SpecTypes \subseteq EdgeTypes
    /\ {MaxSpecs, MaxGen, MaxMark, MaxEpoch, MaxStoreGen} \subseteq Nat

VARIABLES
    nodes,        \* graph.nodes_
    edges,        \* graph.edges_
    lin,          \* LineageState: lifecycle, current generation and record,
                  \* lineage generation, history count
    attempts,     \* the keys of the lineage's attempt ledger
    marks,        \* DependencyWatermarks
    publishers,   \* the session registry
    indexed,      \* records entered in node_owner and the reverse indexes
    genIndex,     \* generations whose entry in route_generation_index leads
                  \* to a record of this lineage
    shared,       \* another lineage of this route is in the registry
    recovered, epoch_bootstrapped

graphVars   == <<nodes, edges>>
lineageVars == <<lin, attempts>>
indexVars   == <<indexed, genIndex, shared>>
sessionVars == <<publishers, recovered, epoch_bootstrapped>>
vars == <<nodes, edges, lin, attempts, marks, publishers, indexed, genIndex,
          shared, recovered, epoch_bootstrapped>>

SessionStates == {"Unknown", "Live", "Down", "Fenced"}

Authorities ==
    [pub : Publishers \cup {None}, boot : Boots \cup {None},
     epoch : 0..MaxEpoch, att : Attempts \cup {None}]

Records ==
    [kind : NodeKinds \cup {"Absent"}, gen : 0..MaxGen, auth : Authorities,
     bind : Bindings, root : BOOLEAN, corrects : NodeId \cup {None},
     life : NodeLifecycles, cur : CurrentnessValues, rr : BOOLEAN,
     reval : BOOLEAN, correctedBy : NodeId \cup {None}]

Edges == [from : NodeId, to : NodeId, type : EdgeTypes, auth : Authorities]

Lineages == [life : LineageLifecycles, gen : 0..MaxGen,
             cur : NodeId \cup {None}, lgen : Nat, hist : Nat]

Marks == [path : 0..MaxMark, policy : 0..MaxMark, evidence : 0..MaxMark,
          plan : 0..MaxMark, epoch : 0..MaxEpoch, store : 0..MaxStoreGen]

TypeOK ==
    /\ nodes \in [NodeId -> Records]
    /\ edges \subseteq Edges
    /\ lin \in Lineages
    /\ attempts \subseteq Publishers \X Attempts
    /\ marks \in Marks
    /\ publishers \in [Publishers \X Boots -> SessionStates]
    /\ indexed \subseteq NodeId
    /\ genIndex \subseteq 0..MaxGen
    /\ shared \in BOOLEAN
    /\ recovered \in BOOLEAN
    /\ epoch_bootstrapped \in BOOLEAN

Init ==
    /\ nodes = [n \in NodeId |-> NoRecord]
    /\ edges = {}
    /\ lin = [life |-> "Active", gen |-> 0, cur |-> None, lgen |-> 0,
              hist |-> 0]
    /\ attempts = {}
    /\ marks = [path |-> 0, policy |-> 0, evidence |-> 0, plan |-> 0,
                epoch |-> 0, store |-> 0]
    /\ publishers = [k \in Publishers \X Boots |-> "Unknown"]
    /\ indexed = {}
    /\ genIndex = {}
    /\ shared = FALSE
    /\ recovered = FALSE
    /\ epoch_bootstrapped = FALSE

-----------------------------------------------------------------------------
(* Currentness *)

\* "Down" is a session that a WorkerFence notification ended: not live, but
\* without the permanent fenced mark.
publisher_state(ps, auth) ==
    IF auth.pub = None \/ auth.boot = None THEN "Unknown"
    ELSE LET s == ps[<<auth.pub, auth.boot>>]
         IN IF s = "Down" THEN "Fenced" ELSE s

\* reevaluate_nodes / reevaluate_index / reevaluate_all: the currentness of
\* the records in S is recomputed, that of the others is left as stored.
reevaluate(ns, S, ln, mk, ps) ==
    [n \in NodeId |->
        IF n \in S /\ ns[n].kind # "Absent"
        THEN [ns[n] EXCEPT !.cur =
                compute_currentness(ln, ns[n], mk,
                                    publisher_state(ps, ns[n].auth))]
        ELSE ns[n]]

HistoryCount(ns) == Cardinality({n \in NodeId : node_is_history_record(ns[n])})

-----------------------------------------------------------------------------
(* The commit pipeline, stages 3 to 9 and 13 *)

\* The caller presents the current epoch from a live session.
Authorized(auth) ==
    /\ marks.epoch # 0
    /\ auth.epoch = marks.epoch
    /\ publishers[<<auth.pub, auth.boot>>] = "Live"

Callers == {a \in [pub : Publishers, boot : Boots, epoch : {marks.epoch},
                   att : Attempts] : Authorized(a)}

\* Mutant: the attempt ledger is not consulted.
Admitted_NoLedger(auth) == lin.life \notin {"Retired", "Revoked"}

\* Mutant: stage 7 forgets the revoked lineage.
Admitted_Revoked(auth) ==
    /\ lin.life # "Retired"
    /\ <<auth.pub, auth.att>> \notin attempts

\* Stages 7 to 9: the lineage accepts mutations and the attempt is new (a
\* known attempt is answered from the ledger and changes nothing).
Admitted(auth) ==
    /\ lin.life \notin {"Retired", "Revoked"}
    /\ <<auth.pub, auth.att>> \notin attempts

\* Stage 11.  A path or policy binding must be the announced generation; a
\* convergence binding may only be ahead of it.  The generations an
\* adaptation binding carries are not compared here.
BindingsFresh(b) ==
    /\ ~differs(b.path, marks.path)
    /\ ~differs(b.policy, marks.policy)
    /\ b.plan = 0 \/ marks.plan = 0 \/ b.plan >= marks.plan

\* Mutant: the history limit is off by one.
WithinLimits_OffByOne(k) ==
    /\ Cardinality(Present(nodes)) < Limits.nodes
    /\ lin.hist <= Limits.history

\* Stage 13 for a publication that creates a record and attaches k edges.
WithinLimits(k) ==
    /\ Cardinality(Present(nodes)) < Limits.nodes
    /\ Cardinality(edges) + k <= Limits.edges
    /\ lin.hist < Limits.history
    /\ Cardinality(attempts) < Limits.attempts

\* Mutant: the store generation is advanced once more from its last value.
CanAdvance_OffByOne == marks.store <= MaxStoreGen

\* bump_generation refuses to move the store generation past its last value.
\* What a call leaves behind that meets it there is StoreFile's subject.
CanAdvance == marks.store < MaxStoreGen

-----------------------------------------------------------------------------
(* Stages 12 and 14: inserting the record and its edges *)

\* A record as the pipeline builds it, before it is inserted.
NewRecord(kind, gen, auth, bind, root, corrects, life) ==
    [kind |-> kind, gen |-> gen, auth |-> auth, bind |-> bind,
     root |-> root, corrects |-> corrects, life |-> life,
     cur |-> "HistoricalOnly", rr |-> FALSE, reval |-> FALSE,
     correctedBy |-> None]

\* node_core_digest: what the identity of a record is a hash of.
Core(r) == <<r.kind, r.gen, r.auth, r.bind, r.root, r.corrects>>

\* finalize_node: the identity of r is the one its content already has, if a
\* record with that content is stored, and an unused one otherwise.
IdentityOf(r, n) ==
    IF \E m \in Present(nodes) : Core(nodes[m]) = Core(r)
    THEN n \in Present(nodes) /\ Core(nodes[n]) = Core(r)
    ELSE n \in NodeId \ Present(nodes)

\* add_node; a Duplicate keeps the stored record and its state.
add_node(n, r) ==
    IF n \in Present(nodes) THEN nodes ELSE [nodes EXCEPT ![n] = r]

\* The edge a spec [type, target] attached to record n stands for.
EdgeOf(n, spec, auth) ==
    [from |-> IF edge_from_new_node(spec.type) THEN n ELSE spec.target,
     to   |-> IF edge_from_new_node(spec.type) THEN spec.target ELSE n,
     type |-> spec.type, auth |-> auth]

EdgeList(n, specs, auth) ==
    [i \in 1..Len(specs) |-> EdgeOf(n, specs[i], auth)]

\* Stage 12: every target is recorded, a successor relation runs from a later
\* to an earlier route generation, and no edge closes a cycle in the graph as
\* it is now.  A record that does not exist yet is in no cycle.
SpecsValid(n, r, specs) ==
    \A i \in 1..Len(specs) :
        LET s == specs[i] IN
        /\ s.target \in Present(nodes)
        /\ s.target # n
        /\ s.type \in SuccessorRelations =>
              /\ nodes[s.target].kind = "RouteGeneration"
              /\ nodes[s.target].gen < r.gen
        /\ n \in Present(nodes) =>
              check_add_edge(edges, EdgeOf(n, s, r.auth))

\* Stage 14 fails at the k-th edge: the record and the edges before the k-th
\* are already in the graph and stay there, while the attempt, the lineage
\* state, the indexes and the generations are not touched.
PartialCommit(n, r, es) ==
    \E k \in 1..Len(es) :
        /\ InsertionStopsAt(add_node(n, r), edges, es, k)
        /\ \A j \in 1..(k - 1) :
              ~InsertionStopsAt(add_node(n, r), edges, es, j)
        /\ nodes' = add_node(n, r)
        /\ edges' = EdgesAfter(edges, es, k - 1)
        /\ UNCHANGED <<lineageVars, marks, indexVars, sessionVars>>

\* Stage 14 succeeds for every edge.
AllInserted(n, r, es) ==
    \A k \in 1..Len(es) : ~InsertionStopsAt(add_node(n, r), edges, es, k)

\* The Duplicate outcome: nothing new was inserted.
IsDuplicate(n, es) ==
    n \in Present(nodes) /\ \A i \in 1..Len(es) : es[i] \in edges

\* Evidence relations promote the declared records they point to.
Promote(ns, es) ==
    [m \in NodeId |->
        IF /\ ns[m].life = "Declared"
           /\ ns[m].kind # "Absent"
           /\ \E i \in 1..Len(es) :
                 es[i].to = m /\ es[i].type \in EvidenceRelations
        THEN [ns[m] EXCEPT !.life = "Current", !.rr = FALSE]
        ELSE ns[m]]

\* The end of every successful commit: generations, counters, currentness of
\* the affected records and of the current record, and the attempt ledger.
Finish(auth, ns, es, ln, affected) ==
    LET mk == [marks EXCEPT !.store = @ + 1]
        l  == [ln EXCEPT !.lgen = @ + 1, !.hist = HistoryCount(ns)]
    IN /\ CanAdvance
       /\ marks' = mk
       /\ lin' = l
       /\ nodes' = reevaluate(ns, affected \cup {l.cur}, l, mk, publishers)
       /\ edges' = es
       /\ attempts' = attempts \cup {<<auth.pub, auth.att>>}
       /\ UNCHANGED sessionVars

\* Index insertion, the last part of a commit that created something.
IndexNode(n, r, es) ==
    /\ indexed' = IF IsDuplicate(n, es) THEN indexed ELSE indexed \cup {n}
    /\ genIndex' = IF r.kind = "RouteGeneration" /\ ~IsDuplicate(n, es)
                   THEN genIndex \cup {r.gen} ELSE genIndex
    /\ shared' = shared

\* Records reached by the edges of a publication.
Targets(es) == {es[i].to : i \in 1..Len(es)}

-----------------------------------------------------------------------------
(* Route publication *)

\* Mutant: the generation index is not consulted.
RouteAdmissible_NoIndex(gen, root, specs) ==
    /\ gen >= lin.gen
    /\ ~root => specs # <<>>
    /\ root => lin.gen = 0

\* Mutant: an older generation is accepted.
RouteAdmissible_AnyGeneration(gen, root, specs) ==
    /\ gen \notin genIndex
    /\ ~root => specs # <<>>
    /\ root => lin.gen = 0

\* Stage 10 for a route state.  The index is keyed by the route: an entry that
\* leads to a record of another lineage of the route refuses nothing here.
RouteAdmissible(gen, root, specs) ==
    /\ gen >= lin.gen
    /\ gen \notin genIndex
    /\ ~root => specs # <<>>
    /\ root => /\ lin.gen = 0
               /\ \A i \in 1..Len(specs) :
                     specs[i].type \notin SuccessorRelations

\* The replaced record leaves the current state; it is Superseded when the
\* publication says so and Historical otherwise.
RetirePrevious(ns, n, es) ==
    IF lin.cur \in {None, n} THEN ns
    ELSE update_node_state(ns, lin.cur,
            IF \E i \in 1..Len(es) :
                  es[i].type = "Supersedes" /\ es[i].to = lin.cur
            THEN "Superseded" ELSE "Historical",
            "HistoricalOnly", FALSE)

\* Mutant: current_node keeps pointing at the previous record.
AdvanceLineage_KeepsNode(n, gen) ==
    [lin EXCEPT !.gen = gen, !.cur = IF @ = None THEN n ELSE @]

AdvanceLineage(n, gen) ==
    [lin EXCEPT !.gen = gen, !.cur = n,
                !.life = IF @ = "Withdrawn" THEN "Active" ELSE @]

\* The checks every commit that creates record r with identity n passes.
Acceptable(auth, n, r, specs) ==
    /\ Admitted(auth)
    /\ IdentityOf(r, n)
    /\ BindingsFresh(r.bind)
    /\ SpecsValid(n, r, specs)
    /\ WithinLimits(Len(specs))

PublishRoute(auth, n, gen, bind, root, specs) ==
    LET r  == NewRecord("RouteGeneration", gen, auth, bind, root, None,
                        "Current")
        es == EdgeList(n, specs, auth)
        ns == RetirePrevious(add_node(n, r), n, es)
    IN /\ Acceptable(auth, n, r, specs)
       /\ RouteAdmissible(gen, root, specs)
       /\ \/ PartialCommit(n, r, es)
          \/ /\ AllInserted(n, r, es)
             /\ Finish(auth, Promote(ns, es), EdgesAfter(edges, es, Len(es)),
                       AdvanceLineage(n, gen), {n, lin.cur} \cup Targets(es))
             /\ IndexNode(n, r, es)

-----------------------------------------------------------------------------
(* Declarations and links *)

\* A declaration carries no edge.  Its route generation is optional (0).
Declare(auth, n, gen, bind) ==
    LET r == NewRecord("Declaration", gen, auth, bind, FALSE, None,
                       "Declared")
    IN /\ Acceptable(auth, n, r, <<>>)
       /\ Finish(auth, add_node(n, r), edges, lin, {n})
       /\ IndexNode(n, r, <<>>)

\* A link adds one edge between two recorded records and promotes a declared
\* target.  DerivedFrom may only join route states of increasing generation.
LinkDerivation(auth, from, to, type) ==
    LET e  == [from |-> from, to |-> to, type |-> type, auth |-> auth]
        ns == IF nodes[to].life = "Declared"
              THEN update_node_state(nodes, to, "Current", nodes[to].cur,
                                     FALSE)
              ELSE nodes
    IN /\ Admitted(auth)
       /\ from # to
       /\ {from, to} \subseteq Present(nodes)
       /\ type \in SuccessorRelations =>
             /\ nodes[from].kind = "RouteGeneration"
             /\ nodes[to].kind = "RouteGeneration"
             /\ nodes[to].gen < nodes[from].gen
       /\ check_add_edge(edges, e)
       /\ Cardinality(edges) < Limits.edges
       /\ lin.hist < Limits.history
       /\ Cardinality(attempts) < Limits.attempts
       /\ e \notin edges => add_edge_ok(nodes, edges, e)
       /\ Finish(auth, ns, edges \cup {e}, lin, {from, to})
       /\ UNCHANGED indexVars

-----------------------------------------------------------------------------
(* Administrative actions *)

\* The record of an administrative action repeats its target's generation.
ActionRecord(auth, target, bind) ==
    NewRecord("AdministrativeAction", nodes[target].gen, auth, bind, FALSE,
              None, "Current")

ActionAdmissible(auth, n, target, bind, specs) ==
    /\ target \in Present(nodes)
    /\ nodes[target].life \notin {"Retired", "Revoked"}
    /\ Acceptable(auth, n, ActionRecord(auth, target, bind), specs)

\* The records with the action record added, before its effect on the target.
WithAction(auth, n, target, bind) ==
    add_node(n, ActionRecord(auth, target, bind))

\* ns: the records with the operation's effect on its target; ln: the lineage
\* it leaves.  Withdrawals, revocations, retirements and invalidations accept
\* any target of the lineage, not only the current record.
Administer(auth, n, target, bind, type, ns, ln) ==
    LET specs == <<[type |-> type, target |-> target]>>
        r     == ActionRecord(auth, target, bind)
        es    == EdgeList(n, specs, auth)
    IN /\ ActionAdmissible(auth, n, target, bind, specs)
       /\ \/ PartialCommit(n, r, es)
          \/ /\ AllInserted(n, r, es)
             /\ Finish(auth, ns, EdgesAfter(edges, es, Len(es)), ln,
                       {n, target})
             /\ IndexNode(n, r, es)

Withdraw(auth, n, target, bind) ==
    Administer(auth, n, target, bind, "Withdraws",
               update_node_state(WithAction(auth, n, target, bind), target,
                                 "Historical", "HistoricalOnly", FALSE),
               [lin EXCEPT !.life = "Withdrawn"])

Revoke(auth, n, target, bind) ==
    Administer(auth, n, target, bind, "RevokedBy",
               update_node_state(WithAction(auth, n, target, bind), target,
                                 "Revoked", "HistoricalOnly", FALSE),
               [lin EXCEPT !.life = "Revoked"])

Retire(auth, n, target, bind) ==
    Administer(auth, n, target, bind, "RetiredBy",
               update_node_state(WithAction(auth, n, target, bind), target,
                                 "Retired", "HistoricalOnly", FALSE),
               [lin EXCEPT !.life = "Retired"])

\* The revalidated mark is set even when the lifecycle could not change.  The
\* request may allow a target other than the current record.
Revalidate(auth, n, target, bind) ==
    Administer(auth, n, target, bind, "Revalidates",
               mark_revalidated(
                   update_node_state(WithAction(auth, n, target, bind),
                       target, "Current", "RevalidationRequired", FALSE),
                   target),
               lin)

Invalidate(auth, n, target, bind) ==
    Administer(auth, n, target, bind, "Invalidates",
               update_node_state(WithAction(auth, n, target, bind), target,
                                 "Invalid", "HistoricalOnly", FALSE),
               lin)

-----------------------------------------------------------------------------
(* Correction *)

\* The replacement repeats the kind, generation and root of its target.
Replacement(auth, target, bind) ==
    NewRecord(nodes[target].kind, nodes[target].gen, auth, bind,
              nodes[target].root, target, "Current")

CorrectionAdmissible(auth, n, target, bind, specs) ==
    /\ target \in Present(nodes)
    /\ nodes[target].kind # "CompactedSummary"
    /\ Acceptable(auth, n, Replacement(auth, target, bind), specs)

\* The successor edges of the target, repeated for the replacement n.
Rebound(es, n, target, auth) ==
    {[e EXCEPT !.from = n, !.auth = auth] :
        e \in {f \in es : f.from = target /\ f.type \in SuccessorRelations}}

\* The rebound edges are inserted in the order of their hashes, and the ones
\* that do not fit are dropped without a report: rb is a largest subset that
\* the graph accepts.
RebindAccepts(ns, es, all, rb) ==
    /\ \A e \in rb : e \notin es /\ add_edge_ok(ns, es \cup (rb \ {e}), e)
    /\ \A e \in all \ rb : e \in es \/ ~add_edge_ok(ns, es \cup rb, e)

Correct(auth, n, target, bind) ==
    LET specs == <<[type |-> "Corrects", target |-> target]>>
        r     == Replacement(auth, target, bind)
        es    == EdgeList(n, specs, auth)
        base  == EdgesAfter(edges, es, Len(es))
        all   == Rebound(base, n, target, auth)
        ns    == update_node_state(
                    set_corrected_by(add_node(n, r), target, n),
                    target, "Invalid", "HistoricalOnly", FALSE)
    IN /\ CorrectionAdmissible(auth, n, target, bind, specs)
       /\ \/ PartialCommit(n, r, es)
          \/ /\ AllInserted(n, r, es)
             /\ \E rb \in SUBSET all :
                   /\ RebindAccepts(add_node(n, r), base, all, rb)
                   /\ Finish(auth, ns, base \cup rb,
                             [lin EXCEPT !.cur = IF @ = target THEN n
                                                 ELSE @],
                             {n, target})
             /\ IndexNode(n, r, es)

-----------------------------------------------------------------------------
(* Compaction *)

\* Mutant: the retained depth the caller asked for is ignored.
Protected_OneEdge(d) ==
    {lin.cur}
    \cup {n \in Present(nodes) : nodes[n].cur = "Current" \/ nodes[n].rr}
    \cup (IF lin.cur = None THEN {} ELSE traverse(edges, lin.cur, 1))

\* Records the present explanation still needs, for a retained depth d.
Protected(d) ==
    {lin.cur}
    \cup {n \in Present(nodes) : nodes[n].cur = "Current" \/ nodes[n].rr}
    \cup (IF lin.cur = None THEN {} ELSE traverse(edges, lin.cur, d))

CompactionCandidates(d) ==
    {n \in NodeId : node_is_history_record(nodes[n])} \ Protected(d)

\* Mutant: the summary loses the route generation.
Tombstone_NoGeneration(r, auth) ==
    [r EXCEPT !.kind = "CompactedSummary", !.auth = auth, !.gen = 0,
              !.life = "Historical", !.cur = "HistoricalOnly"]

Tombstone(r, auth) ==
    [r EXCEPT !.kind = "CompactedSummary", !.auth = auth,
              !.life = "Historical", !.cur = "HistoricalOnly", !.rr = FALSE,
              !.correctedBy = None, !.corrects = None, !.root = FALSE,
              !.bind = NoBinding]

\* S: the candidates the budget reaches, in order of generation (the order
\* within a generation is the order of the hashes).  A summary needs a route
\* generation; a candidate without one sorts first, and the call then fails
\* before it replaced anything.
Compact(auth, d, S) ==
    LET ns == [n \in NodeId |-> IF n \in S THEN Tombstone(nodes[n], auth)
                                ELSE nodes[n]]
    IN /\ S # {}
       /\ S \subseteq CompactionCandidates(d)
       /\ \A n \in CompactionCandidates(d) : nodes[n].gen # 0
       /\ \A m \in S, n \in CompactionCandidates(d) \ S :
             nodes[m].gen <= nodes[n].gen
       /\ CanAdvance
       /\ nodes' = ns
       /\ lin' = [lin EXCEPT !.lgen = @ + 1, !.hist = HistoryCount(ns)]
       /\ marks' = [marks EXCEPT !.store = @ + 1]
       /\ UNCHANGED <<edges, attempts, indexVars, sessionVars>>

-----------------------------------------------------------------------------
(* Publisher sessions *)

\* The reverse index by boot.  Compaction leaves a tombstone under its old
\* keys, but a tombstone is HistoricalOnly whoever recomputes it.
OfBoots(bs) == {n \in indexed : nodes[n].auth.boot \in bs}

\* The first registration sets the epoch; after a reload one registration may
\* raise it.
EpochAccepted(epoch) ==
    \/ marks.epoch \in {0, epoch}
    \/ recovered /\ ~epoch_bootstrapped /\ epoch > marks.epoch

EstablishEpoch(epoch) ==
    /\ EpochAccepted(epoch)
    /\ marks' = [marks EXCEPT !.epoch = epoch]
    /\ epoch_bootstrapped' =
          (epoch_bootstrapped \/ marks.epoch \notin {0, epoch})

\* Mutant: a fenced boot may register again.
SessionRefused_OnlyWhenFull(p, b) ==
    Cardinality({k \in Publishers \X Boots : publishers[k] # "Unknown"})
        >= Limits.publishers

SessionRefused(p, b) ==
    \/ publishers[<<p, b>>] = "Fenced"
    \/ Cardinality({k \in Publishers \X Boots : publishers[k] # "Unknown"})
           >= Limits.publishers

\* A new boot fences the live older boots of its publisher.
register_publisher(p, b, epoch) ==
    LET superseded == {c \in Boots \ {b} : publishers[<<p, c>>] = "Live"}
        ps == [k \in Publishers \X Boots |->
                  IF k = <<p, b>> THEN "Live"
                  ELSE IF k[1] = p /\ k[2] \in superseded THEN "Fenced"
                  ELSE publishers[k]]
    IN /\ EstablishEpoch(epoch)
       /\ ~SessionRefused(p, b)
       /\ publishers' = ps
       /\ nodes' = reevaluate(nodes, OfBoots(superseded), lin, marks', ps)
       /\ UNCHANGED <<edges, lineageVars, indexVars, recovered>>

\* The registration is refused after it established the epoch: the boot is
\* fenced, the registry is full, or the authority scope is empty.
register_refused(epoch) ==
    /\ EstablishEpoch(epoch)
    /\ UNCHANGED <<graphVars, lineageVars, indexVars, publishers, recovered>>

\* Mutant: the records of the fenced boot are not recomputed.
fence_publisher_NoRefresh(p, b) ==
    /\ publishers[<<p, b>>] # "Unknown"
    /\ publishers' = [publishers EXCEPT ![<<p, b>>] = "Fenced"]
    /\ UNCHANGED <<graphVars, lineageVars, marks, indexVars, recovered,
                   epoch_bootstrapped>>

fence_publisher(p, b) ==
    LET ps == [publishers EXCEPT ![<<p, b>>] = "Fenced"]
    IN /\ publishers[<<p, b>>] # "Unknown"
       /\ publishers' = ps
       /\ nodes' = reevaluate(nodes, OfBoots({b}), lin, marks, ps)
       /\ UNCHANGED <<edges, lineageVars, marks, indexVars, recovered,
                      epoch_bootstrapped>>

-----------------------------------------------------------------------------
(* Dependency notifications *)

\* The announced generation of one upstream advances; the records indexed
\* below it are recomputed.
Announce(mk, affected) ==
    /\ CanAdvance
    /\ marks' = [mk EXCEPT !.store = @ + 1]
    /\ nodes' = reevaluate(nodes, affected, lin, marks', publishers)
    /\ UNCHANGED <<edges, lineageVars, indexVars, sessionVars>>

Below(bound, g) == bound # 0 /\ bound < g

NotifyPathAuthority(g) ==
    /\ g > marks.path
    /\ Announce([marks EXCEPT !.path = g],
                {n \in indexed : Below(nodes[n].bind.path, g)})

\* Mutant: the policy generation of an adaptation binding is not indexed.
NotifyPolicy_NoAdaptation(g) ==
    /\ g > marks.policy
    /\ Announce([marks EXCEPT !.policy = g],
                {n \in indexed : Below(nodes[n].bind.policy, g)})

NotifyPolicy(g) ==
    /\ g > marks.policy
    /\ Announce([marks EXCEPT !.policy = g],
                {n \in indexed : \/ Below(nodes[n].bind.policy, g)
                                 \/ Below(nodes[n].bind.adPolicy, g)})

NotifyEvidence(g) ==
    /\ g > marks.evidence
    /\ Announce([marks EXCEPT !.evidence = g],
                {n \in indexed : Below(nodes[n].bind.adEvidence, g)})

\* No record depends on the convergence plan for its currentness.
NotifyPlan(g) ==
    /\ g > marks.plan
    /\ Announce([marks EXCEPT !.plan = g], {})

advance_epoch(epoch) ==
    /\ epoch > marks.epoch
    /\ Announce([marks EXCEPT !.epoch = epoch], indexed)

\* WorkerFence ends the session but does not set the fenced mark.  For a boot
\* nobody registered the call fails after it advanced the store generation.
NotifyWorkerFence(p, b) ==
    LET s  == publishers[<<p, b>>]
        ps == [publishers EXCEPT ![<<p, b>>] =
                  IF @ \in {"Unknown", "Fenced"} THEN @ ELSE "Down"]
    IN /\ CanAdvance
       /\ marks' = [marks EXCEPT !.store = @ + 1]
       /\ publishers' = ps
       /\ nodes' = IF s = "Unknown" THEN nodes
                   ELSE reevaluate(nodes, OfBoots({b}), lin, marks', ps)
       /\ UNCHANGED <<edges, lineageVars, indexVars, recovered,
                      epoch_bootstrapped>>

-----------------------------------------------------------------------------
(* The other lineages of this route *)

\* acquire_lineage registers a lineage whose route another one already has,
\* and keeps it when the commit that asked for it is then rejected.
CreateElsewhere ==
    /\ shared' = TRUE
    /\ UNCHANGED <<graphVars, lineageVars, marks, indexed, genIndex,
                   sessionVars>>

\* A publication or correction in such a lineage takes over the route's index
\* entry for its generation.
PublishElsewhere(gen) ==
    /\ shared
    /\ CanAdvance
    /\ marks' = [marks EXCEPT !.store = @ + 1]
    /\ genIndex' = genIndex \ {gen}
    /\ UNCHANGED <<graphVars, lineageVars, indexed, shared, sessionVars>>

-----------------------------------------------------------------------------
(* Restart *)

\* Mutant: only records that nobody revalidated are demoted.
Demote_KeepsRevalidated(r) ==
    IF r.life = "Current" /\ r.cur = "Current" /\ ~r.reval
    THEN [r EXCEPT !.life = "RevalidationRequired", !.rr = TRUE]
    ELSE r

\* load: a record that is current in both lifecycle and currentness is
\* demoted and flagged.
Demote(r) ==
    IF r.life = "Current" /\ r.cur = "Current"
    THEN [r EXCEPT !.life = "RevalidationRequired",
                   !.cur = "RevalidationRequired", !.rr = TRUE]
    ELSE r

\* The process ends after a save and a new one loads the file: the graph, the
\* lineage, the ledger and the watermarks survive, the sessions do not, and
\* the indexes are rebuilt from the records.  A file with two lineages of one
\* route is refused.
Restart ==
    LET ns == [n \in NodeId |-> Demote(nodes[n])]
        ps == [k \in Publishers \X Boots |-> "Unknown"]
        l  == [lin EXCEPT !.hist = HistoryCount(ns)]
    IN /\ ~shared
       /\ publishers' = ps
       /\ recovered' = TRUE
       /\ epoch_bootstrapped' = FALSE
       /\ lin' = l
       /\ nodes' = reevaluate(ns, NodeId, l, marks, ps)
       /\ indexed' = Present(nodes)
       /\ genIndex' = {nodes[n].gen : n \in
                        {m \in NodeId : nodes[m].kind = "RouteGeneration"}}
       /\ UNCHANGED <<edges, attempts, marks, shared>>

-----------------------------------------------------------------------------
(* The specification *)

\* The edges a client may attach to a publication, in the order it lists them.
SpecLists ==
    UNION {[1..k -> [type : SpecTypes, target : Present(nodes)]] :
              k \in 0..MaxSpecs}

RoutePublication(auth, n) ==
    \E gen \in 1..MaxGen, bind \in BindingSet, root \in BOOLEAN,
       specs \in SpecLists :
        PublishRoute(auth, n, gen, bind, root, specs)

Declaration(auth, n) ==
    \E gen \in 0..MaxGen, bind \in BindingSet : Declare(auth, n, gen, bind)

Link(auth) ==
    \E from, to \in NodeId, type \in LinkTypes \cap SpecTypes :
        LinkDerivation(auth, from, to, type)

Administration(auth, n) ==
    \E target \in Present(nodes), bind \in BindingSet :
        \/ "withdraw" \in Ops /\ Withdraw(auth, n, target, bind)
        \/ "revoke" \in Ops /\ Revoke(auth, n, target, bind)
        \/ "retire" \in Ops /\ Retire(auth, n, target, bind)
        \/ "revalidate" \in Ops /\ Revalidate(auth, n, target, bind)
        \/ "invalidate" \in Ops /\ Invalidate(auth, n, target, bind)

Correction(auth, n) ==
    \E target \in Present(nodes), bind \in BindingSet :
        Correct(auth, n, target, bind)

Compaction(auth) ==
    \E d \in 1..Limits.depth : \E S \in SUBSET CompactionCandidates(d) :
        Compact(auth, d, S)

\* Calls that create records.
Publication ==
    \E auth \in Callers, n \in NodeId :
        \/ "publish" \in Ops /\ RoutePublication(auth, n)
        \/ "declare" \in Ops /\ Declaration(auth, n)
        \/ "correct" \in Ops /\ Correction(auth, n)
        \/ Administration(auth, n)

Maintenance ==
    \E auth \in Callers :
        \/ "link" \in Ops /\ Link(auth)
        \/ "compact" \in Ops /\ Compaction(auth)

Registration ==
    \E epoch \in 1..MaxEpoch :
        \/ \E p \in Publishers, b \in Boots : register_publisher(p, b, epoch)
        \/ "refuse" \in Ops /\ register_refused(epoch)

\* Announcements and fences come from any live session with fabric scope.
Notification ==
    /\ Callers # {}
    /\ \/ /\ "announce" \in Ops
          /\ \E g \in 1..MaxMark :
                \/ NotifyPathAuthority(g)
                \/ NotifyPolicy(g)
                \/ NotifyEvidence(g)
                \/ NotifyPlan(g)
       \/ /\ "epoch" \in Ops
          /\ \E epoch \in 1..MaxEpoch : advance_epoch(epoch)
       \/ \E p \in Publishers, b \in Boots :
             \/ "fence" \in Ops /\ fence_publisher(p, b)
             \/ "worker_fence" \in Ops /\ NotifyWorkerFence(p, b)

Elsewhere ==
    /\ Callers # {}
    /\ CreateElsewhere \/ \E gen \in 1..MaxGen : PublishElsewhere(gen)

Next ==
    \/ Publication
    \/ Maintenance
    \/ Registration
    \/ Notification
    \/ "share" \in Ops /\ Elsewhere
    \/ "restart" \in Ops /\ Restart

Spec == Init /\ [][Next]_vars

-----------------------------------------------------------------------------
(* Invariants *)

\* The graph a lineage holds is one that validate_structure accepts whatever
\* was published, linked, corrected or only half inserted: both ends of every
\* edge are recorded, no edges form a cycle, and the degree bounds hold.
GraphSound ==
    /\ \A e \in edges : {e.from, e.to} \subseteq Present(nodes)
    /\ Acyclic(edges)
    /\ \A n \in NodeId : /\ incoming_count(edges, n) <= Limits.parents
                         /\ outgoing_count(edges, n) <= Limits.children

\* The lineage's current record is a route state of the current generation,
\* through corrections, invalidations, compactions and reloads; no operation
\* leaves current_node pointing at a summary or at another generation.
CurrentRecord ==
    IF lin.gen = 0 THEN lin.cur = None
    ELSE /\ lin.cur \in NodeId
         /\ nodes[lin.cur].kind = "RouteGeneration"
         /\ nodes[lin.cur].gen = lin.gen

\* One route generation has one explanation: of two route-state records of the
\* same generation, one is a correction.  The index lookup of stage 10 and the
\* index rebuilt by load must agree on this.  The index loses entries to another
\* lineage of the route: the statement is about a route with one lineage.
OneOriginalPerGeneration ==
    ~shared => \A m, n \in NodeId :
        /\ nodes[m].kind = "RouteGeneration"
        /\ nodes[n].kind = "RouteGeneration"
        /\ nodes[m].gen = nodes[n].gen
        /\ m # n
        => {nodes[m].corrects, nodes[n].corrects} # {None}

\* A record that was corrected stays marked invalid, is never reported current
\* again, and its marker leads to a recorded replacement that names it (or to
\* the replacement's tombstone).
CorrectedStaysInvalid ==
    \A n \in NodeId : nodes[n].correctedBy # None =>
        LET by == nodes[nodes[n].correctedBy] IN
        /\ nodes[n].life = "Invalid"
        /\ nodes[n].cur = "HistoricalOnly"
        /\ by.kind = "CompactedSummary" \/ by.corrects = n

\* Of the records that are not corrections, only the lineage's current record
\* is reported as the CURRENT route state.
CurrentOriginalIsCurrentRecord ==
    \A n \in NodeId :
        /\ nodes[n].kind = "RouteGeneration"
        /\ nodes[n].corrects = None
        /\ nodes[n].cur = "Current"
        => n = lin.cur

\* The history counter the retention limit is checked against is exact, and
\* the limit is never passed.
HistoryBounded ==
    /\ lin.hist = HistoryCount(nodes)
    /\ lin.hist <= Limits.history

\* A CURRENT record that nobody revalidated is vouched for by a live session:
\* every way a session ends (fence, superseding boot, WorkerFence, restart)
\* reaches the records of its boot.
CurrentIsVouchedFor ==
    \A n \in NodeId :
        nodes[n].cur = "Current" /\ ~nodes[n].reval =>
            publishers[<<nodes[n].auth.pub, nodes[n].auth.boot>>] = "Live"

\* A record bound to an upstream generation older than the announced one, or
\* published under an older coordinator epoch, is not reported CURRENT: each
\* announcement and each epoch advance reaches every record below it.  After
\* a reload an epoch may be raised without that, see the README.
SupersededIsNotCurrent ==
    \A n \in NodeId : nodes[n].cur = "Current" =>
        LET b == nodes[n].bind IN
        /\ ~Below(b.path, marks.path)
        /\ ~Below(b.policy, marks.policy)
        /\ ~Below(b.adPolicy, marks.policy)
        /\ ~Below(b.adEvidence, marks.evidence)
        /\ recovered \/ nodes[n].auth.epoch = marks.epoch

\* A mutation attempt stands for one record.
OneRecordPerAttempt ==
    \A m, n \in Present(nodes) :
        /\ nodes[m].kind # "CompactedSummary"
        /\ nodes[n].kind # "CompactedSummary"
        /\ nodes[m].auth.pub = nodes[n].auth.pub
        /\ nodes[m].auth.att = nodes[n].auth.att
        => m = n

-----------------------------------------------------------------------------
(* Action properties *)

\* Nothing resurrects a retired or revoked lineage: its state, generation and
\* derivation edges are frozen, no record is added, and in a retired lineage no
\* record becomes CURRENT.
TerminalLineageIsFrozen ==
    [][ lin.life \in {"Retired", "Revoked"} =>
          /\ lin'.life = lin.life
          /\ lin'.gen = lin.gen
          /\ lin'.cur = lin.cur
          /\ edges' = edges
          /\ Present(nodes)' = Present(nodes)
          /\ lin.life = "Retired" =>
                \A n \in NodeId : nodes'[n].cur = "Current" =>
                                     nodes[n].cur = "Current" ]_vars

\* History is append-only: no record or edge disappears, and a record's content
\* never changes except into a tombstone that keeps its generation.
HistoryIsAppendOnly ==
    [][ /\ edges \subseteq edges'
        /\ \A n \in Present(nodes) :
              \/ Core(nodes'[n]) = Core(nodes[n])
              \/ /\ nodes'[n].kind = "CompactedSummary"
                 /\ nodes'[n].gen = nodes[n].gen ]_vars

\* A fenced boot is neither live again nor forgotten, whatever registrations,
\* newer boots and notifications follow, until the process ends.
FencedUntilRestart ==
    [][ \/ \A k \in Publishers \X Boots :
              publishers[k] = "Fenced" => publishers'[k] = "Fenced"
        \/ \A k \in Publishers \X Boots : publishers'[k] = "Unknown" ]_vars

\* Compaction keeps the present explanation: at the whole depth the caller asked
\* to retain, no record of the current record's ancestry is replaced by a summary
\* when that ancestry is within the traversal bound; and nothing but a compaction
\* replaces a record.
ExplanationIsKept ==
    [][ LET lost == {n \in Present(nodes) :
                        /\ nodes[n].kind # "CompactedSummary"
                        /\ nodes'[n].kind = "CompactedSummary"}
        IN lost # {} =>
             /\ \E auth \in Callers, d \in 1..Limits.depth :
                   Compact(auth, d, lost)
             /\ \A auth \in Callers, d \in 1..Limits.depth :
                   /\ lin.cur # None
                   /\ Compact(auth, d, lost)
                   /\ Cardinality(Within(edges, lin.cur, d)) <= Limits.results
                   => Within(edges, lin.cur, d) \cap lost = {} ]_vars

\* A reload demotes every CURRENT record, the revalidated ones too.  One that
\* it reports CURRENT was revalidated before, while it was bound ahead of the
\* announced generations, and nothing recomputed it when they caught up.
RestartDemotesAll ==
    [][ Restart => \A n \in NodeId : nodes'[n].cur = "Current" =>
           nodes[n].cur # "Current" /\ nodes[n].reval ]_vars

-----------------------------------------------------------------------------
(* Refinement *)

Lineage == INSTANCE RouteLineage
               WITH life <- lin.life, gen <- lin.gen, shared <- shared

\* Seen through its lifecycle and its generation, the store is the abstract
\* lineage: while the route has one lineage its generations strictly increase,
\* across compactions, corrections and reloads of the index; once another
\* lineage shares the route the current generation may be published again but
\* no older one; a revoked or retired lineage takes no further step.
RefinesRouteLineage == Lineage!Spec

=============================================================================
