------------------------- MODULE StoreState_proofs -------------------------
(***************************************************************************)
(* What a step of ProvenanceStore does to the states of the records, for   *)
(* every value of the constants.  Every commit has one form: it inserts a  *)
(* record or finds it, ages the states of a few records, and recomputes    *)
(* the currentness of those and of the current record (CommitForm and      *)
(* LinkForm).  The invariants are proved once for these forms.             *)
(***************************************************************************)
EXTENDS ProvenanceStore_proofs

\* Lifecycles that no operation leaves for a live one.
PastLives == HistoryLifecycles \cup {"Revoked", "Retired"}

\* What the state fields of one record say about each other.
Coherent(r) ==
    /\ r.kind = "Absent" => r = NoRecord
    /\ r.life \in PastLives => r.cur = "HistoricalOnly"
    /\ r.reval => r.life # "Declared"
    /\ r.life = "RevalidationRequired" => r.rr

Coherence(ns) == \A m \in NodeId : Coherent(ns[m])

\* b is the same record as a, at a later time.
Ages(a, b) ==
    /\ Core(b) = Core(a)
    /\ a.life = "Invalid" => b.life = "Invalid"
    /\ a.life \in PastLives => b.life \in PastLives

\* by is a recorded replacement of m.
Replaces(ns, by, m) == by \in Present(ns) /\ ns[by].corrects = m

\* A commit ages the records in A; at most x becomes a history record or gets
\* a correction marker.
Stage(ns, ms, x, A) ==
    /\ ms \in Nodes
    /\ Coherence(ms)
    /\ \A m \in NodeId : Ages(ns[m], ms[m])
    /\ \A m \in NodeId \ A : ms[m] = ns[m]
    /\ \A m \in NodeId \ {x} :
          node_is_history_record(ms[m]) => node_is_history_record(ns[m])
    /\ \A m \in NodeId :
          \/ ms[m].correctedBy = ns[m].correctedBy
          \/ ms[m].life = "Invalid" /\ Replaces(ns, ms[m].correctedBy, m)

-----------------------------------------------------------------------------
(* The forms of a commit *)

\* A record as the pipeline builds it for a caller.
Built(r, auth) ==
    /\ r \in Records
    /\ r.kind \in NodeKinds \ {"CompactedSummary"}
    /\ r.auth = auth
    /\ r.life \in {"Current", "Declared"}
    /\ r.cur = "HistoricalOnly"
    /\ ~r.rr
    /\ ~r.reval
    /\ r.correctedBy = None

\* A new record is entered in the indexes; a found one may be already there.
Indexes(n, r) ==
    /\ indexed \subseteq indexed'
    /\ indexed' \subseteq indexed \cup {n}
    /\ genIndex \subseteq genIndex'
    /\ shared' = shared
    /\ n \notin Present(nodes) =>
          /\ n \in indexed'
          /\ r.kind = "RouteGeneration" => r.gen \in genIndex'

\* The lineage moves to the published route state.
Advances(n, r, ln) ==
    /\ r.kind = "RouteGeneration"
    /\ r.corrects = None
    /\ r.gen # 0
    /\ r.gen \notin genIndex
    /\ r.gen >= lin.gen
    /\ ln.gen = r.gen
    /\ ln.cur = n
    /\ ln.life = IF lin.life = "Withdrawn" THEN "Active" ELSE lin.life

\* The lineage keeps its generation; n is no original route state.
Remains(n, r, ln) ==
    /\ r.kind = "RouteGeneration" => r.corrects # None
    /\ ln.gen = lin.gen
    /\ ln.cur \in {lin.cur, n}
    /\ ln.life \in {lin.life, "Withdrawn", "Revoked", "Retired"}

\* A complete commit of record r under identity n: ns are the records it
\* leaves, x the one it acts on, ln the lineage it chooses, A what it
\* recomputes.
CommitForm(auth, n, r, x, ns, ln, A) ==
    /\ Built(r, auth)
    /\ Admitted(auth)
    /\ IdentityOf(r, n)
    /\ lin.hist < Limits.history
    /\ Cardinality(Present(nodes)) < Limits.nodes
    /\ Stage(add_node(n, r), ns, x, A)
    /\ n \in A
    /\ ln \in Lineages
    /\ \E es : Finish(auth, ns, es, ln, A)
    /\ Indexes(n, r)
    /\ Advances(n, r, ln) \/ Remains(n, r, ln)
    /\ lin.cur \in NodeId \ {ln.cur} => ns[lin.cur].life \in PastLives

Committing ==
    \E auth \in Callers, n \in NodeId, r \in Records, ns \in Nodes,
       ln \in Lineages : \E x, A : CommitForm(auth, n, r, x, ns, ln, A)

\* A link inserts no record.
Linking ==
    \E auth \in Callers, ns \in Nodes :
        /\ Admitted(auth)
        /\ lin.hist < Limits.history
        /\ \E x, A : /\ Stage(nodes, ns, x, A)
                     /\ \E es : Finish(auth, ns, es, lin, A)
        /\ UNCHANGED indexVars

\* A commit that stops at one of its edges leaves its record behind.
HalfCommitting ==
    \E auth \in Callers, n \in NodeId, r \in Records :
        /\ Built(r, auth)
        /\ Admitted(auth)
        /\ IdentityOf(r, n)
        /\ nodes' = add_node(n, r)
        /\ UNCHANGED <<lineageVars, marks, indexVars, sessionVars>>
        /\ \E specs : /\ Acceptable(auth, n, r, specs)
                      /\ specs \in SpecLists \/ Len(specs) = 1
                      /\ PartialCommit(n, r, EdgeList(n, specs, auth))

-----------------------------------------------------------------------------
(* Stages *)

\* Doing nothing is a stage.
LEMMA IdleStage ==
    ASSUME NEW ns \in Nodes, Coherence(ns), NEW x, NEW A
    PROVE  Stage(ns, ns, x, A)
BY DEF Stage, Ages

\* Stages compose.
LEMMA StageThen ==
    ASSUME NEW a, NEW b, NEW c, NEW x, NEW A, NEW B,
           Stage(a, b, x, A), Stage(b, c, x, B)
    PROVE  Stage(a, c, x, A \cup B)
<1>1. \A m \in NodeId : Ages(a[m], b[m]) /\ Ages(b[m], c[m])
  BY DEF Stage
<1>2. \A m \in NodeId : Ages(a[m], c[m])
  BY <1>1 DEF Ages
<1>3. \A by, m \in NodeId : Replaces(b, by, m) => Replaces(a, by, m)
  BY <1>1 DEF Ages, Core, Replaces, Present
<1>4. ASSUME NEW m \in NodeId
      PROVE  \/ c[m].correctedBy = a[m].correctedBy
             \/ c[m].life = "Invalid" /\ Replaces(a, c[m].correctedBy, m)
  <2>1. CASE c[m].correctedBy = b[m].correctedBy
    BY <1>1, <2>1 DEF Stage, Ages
  <2>2. CASE c[m].life = "Invalid" /\ Replaces(b, c[m].correctedBy, m)
    BY <1>3, <2>2 DEF Replaces, Present
  <2> QED
    BY <2>1, <2>2 DEF Stage
<1>5. \A m \in NodeId \ (A \cup B) : c[m] = a[m]
  BY DEF Stage
<1>6. \A m \in NodeId \ {x} :
         node_is_history_record(c[m]) => node_is_history_record(a[m])
  BY DEF Stage
<1> QED
  BY <1>2, <1>4, <1>5, <1>6 DEF Stage

\* The transition table never leads from a past lifecycle to a live one, and
\* from Invalid nowhere.
LEMMA PastIsClosed ==
    ASSUME NEW a \in NodeLifecycles, NEW b,
           is_valid_lifecycle_transition(a, b)
    PROVE  /\ a \in PastLives => b \in PastLives
           /\ a = "Invalid" => b = "Invalid"
BY DEF is_valid_lifecycle_transition, LifecycleSuccessors, NodeLifecycles,
       PastLives, HistoryLifecycles

\* Every lifecycle may turn invalid.
LEMMA AlwaysInvalidates ==
    ASSUME NEW a \in NodeLifecycles
    PROVE  is_valid_lifecycle_transition(a, "Invalid")
BY DEF is_valid_lifecycle_transition, LifecycleSuccessors, NodeLifecycles

\* A stage that changes one record.
LEMMA OneRecordStage ==
    ASSUME NEW ns \in Nodes, Coherence(ns), NEW x \in NodeId, NEW r \in Records,
           Coherent(r), Ages(ns[x], r),
           \/ r.correctedBy = ns[x].correctedBy
           \/ r.life = "Invalid" /\ Replaces(ns, r.correctedBy, x)
    PROVE  Stage(ns, [ns EXCEPT ![x] = r], x, {x})
<1> DEFINE ms == [ns EXCEPT ![x] = r]
<1>1. ms \in Nodes /\ ms[x] = r /\ \A m \in NodeId \ {x} : ms[m] = ns[m]
  BY DEF Nodes
<1> HIDE DEF ms
<1>2. Coherence(ms)
  BY <1>1 DEF Coherence
<1>3. \A m \in NodeId : Ages(ns[m], ms[m])
  BY <1>1 DEF Ages
<1>4. \A m \in NodeId :
         \/ ms[m].correctedBy = ns[m].correctedBy
         \/ ms[m].life = "Invalid" /\ Replaces(ns, ms[m].correctedBy, m)
  BY <1>1
<1>5. Stage(ns, ms, x, {x})
  BY <1>1, <1>2, <1>3, <1>4 DEF Stage
<1> QED
  BY <1>5 DEF ms

\* update_node_state, as the operations use it, is a stage.
LEMMA UpdateStage ==
    ASSUME NEW ns \in Nodes, Coherence(ns), NEW x \in Present(ns),
           NEW life \in PastLives \cup {"Current"},
           NEW cur \in CurrentnessValues,
           life \in PastLives => cur = "HistoricalOnly"
    PROVE  Stage(ns, update_node_state(ns, x, life, cur, FALSE), x, {x})
<1>0. x \in NodeId /\ ns[x] \in Records /\ ns[x].kind # "Absent"
      /\ ns[x].life \in NodeLifecycles
  BY DEF Present, Nodes, Records
<1>1. CASE ~is_valid_lifecycle_transition(ns[x].life, life)
  BY <1>1, IdleStage DEF update_node_state
<1>2. CASE is_valid_lifecycle_transition(ns[x].life, life)
  <2> DEFINE r == [ns[x] EXCEPT !.life = life, !.cur = cur, !.rr = FALSE]
  <2>1. update_node_state(ns, x, life, cur, FALSE) = [ns EXCEPT ![x] = r]
    BY <1>0, <1>2 DEF update_node_state, Nodes, Records
  <2>2. /\ r \in Records
        /\ r.kind = ns[x].kind /\ r.life = life /\ r.cur = cur
        /\ r.correctedBy = ns[x].correctedBy
        /\ Core(r) = Core(ns[x])
    BY <1>0 DEF Records, PastLives, HistoryLifecycles, NodeLifecycles, Core
  <2>3. Coherent(r)
    <3>1. life # "Declared" /\ life # "RevalidationRequired"
      BY DEF PastLives, HistoryLifecycles
    <3> QED
      BY <1>0, <2>2, <3>1 DEF Coherent
  <2>4. Ages(ns[x], r)
    BY <1>0, <1>2, <2>2, PastIsClosed DEF Ages
  <2> HIDE DEF r
  <2> QED
    BY <1>0, <2>1, <2>2, <2>3, <2>4, OneRecordStage
<1> QED
  BY <1>1, <1>2

\* After an update to a past lifecycle the record is past, whether the update
\* was accepted or not.
LEMMA UpdatedIsPast ==
    ASSUME NEW ns \in Nodes, NEW x \in NodeId, NEW cur,
           NEW life \in {"Historical", "Superseded"}
    PROVE  update_node_state(ns, x, life, cur, FALSE)[x].life \in PastLives
<1>1. ns[x] \in Records /\ ns[x].life \in NodeLifecycles
  BY DEF Nodes, Records
<1>2. CASE is_valid_lifecycle_transition(ns[x].life, life)
  <2>1. update_node_state(ns, x, life, cur, FALSE)[x].life = life
    BY <1>1, <1>2 DEF update_node_state, Nodes, Records
  <2> QED
    BY <2>1 DEF PastLives, HistoryLifecycles
<1>3. CASE ~is_valid_lifecycle_transition(ns[x].life, life)
  <2>1. ns[x].life \in PastLives
    BY <1>1, <1>3 DEF is_valid_lifecycle_transition, LifecycleSuccessors,
                      NodeLifecycles, PastLives, HistoryLifecycles
  <2> QED
    BY <1>3, <2>1 DEF update_node_state
<1> QED
  BY <1>2, <1>3

\* Promoting declared records is a stage and makes no history.
LEMMA PromoteStage ==
    ASSUME NEW ns \in Nodes, Coherence(ns), NEW es, NEW x
    PROVE  Stage(ns, Promote(ns, es), x, Targets(es))
<1> DEFINE ms == Promote(ns, es)
<1>1. ms \in Nodes
  BY PromoteType
<1>2. ASSUME NEW m \in NodeId
      PROVE  \/ ms[m] = ns[m]
             \/ /\ m \in Targets(es)
                /\ ns[m].life = "Declared"
                /\ ns[m].kind # "Absent"
                /\ ms[m] = [ns[m] EXCEPT !.life = "Current", !.rr = FALSE]
  BY DEF Promote, Targets
<1> HIDE DEF ms
<1>3. ASSUME NEW m \in NodeId
      PROVE  /\ Coherent(ms[m])
             /\ Ages(ns[m], ms[m])
             /\ node_is_history_record(ms[m]) => node_is_history_record(ns[m])
             /\ ms[m].correctedBy = ns[m].correctedBy
  <2>1. CASE ms[m] = ns[m]
    BY <2>1 DEF Coherence, Ages
  <2>2. CASE /\ ns[m].life = "Declared"
             /\ ns[m].kind # "Absent"
             /\ ms[m] = [ns[m] EXCEPT !.life = "Current", !.rr = FALSE]
    <3>1. /\ ms[m].life = "Current"
          /\ ms[m].kind # "Absent"
          /\ ms[m].correctedBy = ns[m].correctedBy
          /\ Core(ms[m]) = Core(ns[m])
      BY <2>2 DEF Nodes, Records, Core
    <3>2. ns[m].life \notin PastLives /\ ms[m].life \notin PastLives
          /\ ns[m].life # "Invalid"
      BY <2>2, <3>1 DEF PastLives, HistoryLifecycles
    <3> QED
      BY <3>1, <3>2
         DEF Coherent, Ages, node_is_history_record, HistoryLifecycles
  <2> QED
    BY <1>2, <2>1, <2>2
<1>4. Stage(ns, ms, x, Targets(es))
  BY <1>1, <1>2, <1>3 DEF Stage, Coherence
<1> QED
  BY <1>4 DEF ms

\* So is the revalidation mark, on a record that is not merely declared.
LEMMA RevalidatedStage ==
    ASSUME NEW ns \in Nodes, Coherence(ns), NEW x \in Present(ns),
           ns[x].life # "Declared"
    PROVE  Stage(ns, mark_revalidated(ns, x), x, {x})
<1> DEFINE r == [ns[x] EXCEPT !.reval = TRUE]
<1>0. x \in NodeId /\ ns[x] \in Records /\ ns[x].kind # "Absent"
  BY DEF Present, Nodes
<1>1. mark_revalidated(ns, x) = [ns EXCEPT ![x] = r]
  BY <1>0 DEF mark_revalidated, Nodes, Records
<1>2. /\ r \in Records
      /\ r.kind = ns[x].kind /\ r.life = ns[x].life /\ r.cur = ns[x].cur
      /\ r.rr = ns[x].rr
      /\ r.correctedBy = ns[x].correctedBy
      /\ Core(r) = Core(ns[x])
  BY <1>0 DEF Records, Core
<1>3. Coherent(r) /\ Ages(ns[x], r)
  BY <1>0, <1>2 DEF Coherence, Coherent, Ages
<1> HIDE DEF r
<1> QED
  BY <1>0, <1>1, <1>2, <1>3, OneRecordStage

\* So is the correction of a record by a recorded replacement.
LEMMA CorrectedStage ==
    ASSUME NEW ns \in Nodes, Coherence(ns), NEW x \in Present(ns),
           NEW by \in NodeId, Replaces(ns, by, x)
    PROVE  LET ms == update_node_state(set_corrected_by(ns, x, by), x,
                                       "Invalid", "HistoricalOnly", FALSE)
           IN Stage(ns, ms, x, {x}) /\ ms[x].life = "Invalid"
<1> DEFINE mid == set_corrected_by(ns, x, by)
           ms  == update_node_state(mid, x, "Invalid", "HistoricalOnly", FALSE)
           r   == [ns[x] EXCEPT !.correctedBy = by, !.life = "Invalid",
                                !.cur = "HistoricalOnly", !.rr = FALSE]
<1>0. x \in NodeId /\ ns[x] \in Records /\ ns[x].kind # "Absent"
      /\ ns[x].life \in NodeLifecycles
  BY DEF Present, Nodes, Records
<1>1. mid = [ns EXCEPT ![x] = [ns[x] EXCEPT !.correctedBy = by]]
  BY <1>0 DEF set_corrected_by, Nodes, Records
<1>2. mid[x] = [ns[x] EXCEPT !.correctedBy = by]
      /\ mid[x].life = ns[x].life
  BY <1>0, <1>1 DEF Nodes, Records
<1>3. ms = [mid EXCEPT ![x].life = "Invalid", ![x].cur = "HistoricalOnly",
                       ![x].rr = FALSE]
  BY <1>0, <1>2, AlwaysInvalidates DEF update_node_state
<1>4. ms = [ns EXCEPT ![x] = r]
  BY <1>0, <1>1, <1>2, <1>3 DEF Nodes, Records
<1>5. /\ r \in Records
      /\ r.kind = ns[x].kind /\ r.life = "Invalid"
      /\ r.cur = "HistoricalOnly" /\ r.correctedBy = by
      /\ Core(r) = Core(ns[x])
  BY <1>0 DEF Records, Core, NodeLifecycles, CurrentnessValues
<1>6. Coherent(r) /\ Ages(ns[x], r)
  BY <1>0, <1>5 DEF Coherent, Ages, PastLives, HistoryLifecycles
<1> HIDE DEF r, mid
<1>7. Stage(ns, [ns EXCEPT ![x] = r], x, {x})
  BY <1>0, <1>5, <1>6, OneRecordStage
<1>8. [ns EXCEPT ![x] = r][x] = r
  BY <1>0 DEF Nodes
<1> QED
  BY <1>4, <1>5, <1>7, <1>8 DEF mid

\* Recomputing currentness is a stage and moves no record in or out of the
\* history.
LEMMA ReevaluateStage ==
    ASSUME NEW ns \in Nodes, Coherence(ns), NEW S, NEW ln, NEW mk, NEW ps,
           NEW x
    PROVE  LET ms == reevaluate(ns, S, ln, mk, ps)
           IN Stage(ns, ms, x, S) /\ HistoryCount(ms) = HistoryCount(ns)
<1> DEFINE ms == reevaluate(ns, S, ln, mk, ps)
           c(m) == compute_currentness(ln, ns[m], mk,
                                       publisher_state(ps, ns[m].auth))
<1>1. ms \in Nodes
  BY ReevaluateType
<1>2. ASSUME NEW m \in NodeId
      PROVE  \/ ms[m] = ns[m]
             \/ /\ m \in S
                /\ ns[m].kind # "Absent"
                /\ ms[m] = [ns[m] EXCEPT !.cur = c(m)]
  BY DEF reevaluate
<1>3. ASSUME NEW m \in NodeId, ns[m].life \in PastLives
      PROVE  c(m) = "HistoricalOnly"
  BY <1>3 DEF compute_currentness, PastLives
<1> HIDE DEF ms, c
<1>4. ASSUME NEW m \in NodeId
      PROVE  /\ Coherent(ms[m])
             /\ Ages(ns[m], ms[m])
             /\ node_is_history_record(ms[m])
                   <=> node_is_history_record(ns[m])
             /\ ms[m].correctedBy = ns[m].correctedBy
  <2>1. CASE ms[m] = ns[m]
    BY <2>1 DEF Coherence, Ages
  <2>2. CASE /\ ns[m].kind # "Absent"
             /\ ms[m] = [ns[m] EXCEPT !.cur = c(m)]
    <3>1. /\ ms[m].life = ns[m].life
          /\ ms[m].kind = ns[m].kind
          /\ ms[m].cur = c(m)
          /\ ms[m].rr = ns[m].rr
          /\ ms[m].reval = ns[m].reval
          /\ ms[m].correctedBy = ns[m].correctedBy
          /\ Core(ms[m]) = Core(ns[m])
      BY <2>2 DEF Nodes, Records, Core
    <3> QED
      BY <1>3, <2>2, <3>1
         DEF Coherence, Coherent, Ages, node_is_history_record
  <2> QED
    BY <1>2, <2>1, <2>2
<1>5. Stage(ns, ms, x, S)
  BY <1>1, <1>2, <1>4 DEF Stage, Coherence
<1>6. HistoryCount(ms) = HistoryCount(ns)
  <2>1. {m \in NodeId : node_is_history_record(ms[m])}
           = {m \in NodeId : node_is_history_record(ns[m])}
    BY <1>4
  <2> QED
    BY <2>1 DEF HistoryCount
<1> QED
  BY <1>5, <1>6 DEF ms

-----------------------------------------------------------------------------
(* The operations have these forms *)

\* Inserting a built record keeps the records coherent.
LEMMA AddCoherent ==
    ASSUME TypeOK, Coherence(nodes), NEW n \in NodeId, NEW r, NEW auth,
           Built(r, auth)
    PROVE  /\ add_node(n, r) \in Nodes
           /\ Coherence(add_node(n, r))
           /\ n \in Present(add_node(n, r))
           /\ Present(nodes) \subseteq Present(add_node(n, r))
           /\ \A m \in NodeId \ {n} : add_node(n, r)[m] = nodes[m]
           /\ \A m \in Present(nodes) : add_node(n, r)[m] = nodes[m]
           /\ n \notin Present(nodes) => add_node(n, r)[n] = r
<1>1. r \in Records /\ r.kind # "Absent" /\ nodes \in Nodes
  BY DEF Built, NodeKinds, TypeOK, Nodes
<1>2. Coherent(r)
  BY <1>1 DEF Built, Coherent, PastLives, HistoryLifecycles
<1>3. CASE n \in Present(nodes)
  BY <1>1, <1>3 DEF add_node
<1>4. CASE n \notin Present(nodes)
  <2>1. /\ add_node(n, r) = [nodes EXCEPT ![n] = r]
        /\ add_node(n, r)[n] = r
        /\ \A m \in NodeId \ {n} : add_node(n, r)[m] = nodes[m]
    BY <1>1, <1>4 DEF add_node, Nodes
  <2>2. add_node(n, r) \in Nodes
    BY <1>1, AddNodeType
  <2> QED
    BY <1>1, <1>2, <1>4, <2>1, <2>2 DEF Coherence, Present
<1> QED
  BY <1>3, <1>4

\* The pipeline's records are built.
LEMMA NewRecordBuilt ==
    ASSUME TypeOK, NEW auth \in Callers,
           NEW kind \in NodeKinds \ {"CompactedSummary"},
           NEW gen \in 0..MaxGen, NEW bind \in BindingSet,
           NEW root \in BOOLEAN, NEW corrects \in NodeId \cup {None},
           NEW life \in {"Current", "Declared"}
    PROVE  Built(NewRecord(kind, gen, auth, bind, root, corrects, life), auth)
<1>1. NewRecord(kind, gen, auth, bind, root, corrects, life) \in Records
  BY CallerType, NewRecordType, StoreAssumption DEF NodeLifecycles
<1> QED
  BY <1>1 DEF Built, NewRecord

\* What index insertion does to a record that was not there.
LEMMA IndexNodeIndexes ==
    ASSUME NEW n, NEW r, NEW es, IndexNode(n, r, es)
    PROVE  Indexes(n, r)
BY DEF IndexNode, Indexes, IsDuplicate

\* A half-applied commit.
LEMMA PartialForm ==
    ASSUME NEW auth \in Callers, NEW n \in NodeId, NEW r \in Records,
           Built(r, auth), NEW specs, Acceptable(auth, n, r, specs),
           specs \in SpecLists \/ Len(specs) = 1,
           PartialCommit(n, r, EdgeList(n, specs, auth))
    PROVE  HalfCommitting
<1>1. Admitted(auth) /\ IdentityOf(r, n)
  BY DEF Acceptable
<1>2. /\ nodes' = add_node(n, r)
      /\ UNCHANGED <<lineageVars, marks, indexVars, sessionVars>>
  BY DEF PartialCommit
<1> QED
  BY <1>1, <1>2 DEF HalfCommitting

\* A route publication.
LEMMA PublishRouteForm ==
    ASSUME TypeOK, CurrentRecord, Coherence(nodes), NEW auth \in Callers,
           NEW n \in NodeId, NEW gen \in 1..MaxGen, NEW bind \in BindingSet,
           NEW root \in BOOLEAN, NEW specs \in SpecLists,
           PublishRoute(auth, n, gen, bind, root, specs)
    PROVE  Committing \/ HalfCommitting
<1> DEFINE r  == NewRecord("RouteGeneration", gen, auth, bind, root, None,
                           "Current")
           es == EdgeList(n, specs, auth)
           base == add_node(n, r)
           mid == RetirePrevious(base, n, es)
           ns  == Promote(mid, es)
           ln  == AdvanceLineage(n, gen)
           x   == lin.cur
           A   == {n, lin.cur} \cup Targets(es)
<1>0. gen \in 0..MaxGen /\ gen # 0
  BY StoreAssumption
<1>1. Built(r, auth) /\ r \in Records
  BY <1>0, NewRecordBuilt DEF NodeKinds, Built
<1>2. /\ Admitted(auth) /\ IdentityOf(r, n)
      /\ lin.hist < Limits.history
      /\ Cardinality(Present(nodes)) < Limits.nodes
      /\ gen >= lin.gen /\ gen \notin genIndex
  BY DEF PublishRoute, Acceptable, WithinLimits, RouteAdmissible
<1>3. /\ base \in Nodes
      /\ Coherence(base)
      /\ Present(nodes) \subseteq Present(base)
  BY <1>1, AddCoherent
<1>4. /\ Stage(base, mid, x, {x})
      /\ lin.cur \in NodeId \ {n} => mid[lin.cur].life \in PastLives
  <2>1. CASE lin.cur \in {None, n}
    <3>1. mid = base
      BY <2>1 DEF RetirePrevious
    <3> QED
      BY <1>3, <2>1, <3>1, IdleStage, NodeIdAssumption
  <2>2. CASE lin.cur \notin {None, n}
    <3>1. lin.cur \in Present(base)
      BY <1>3, <2>2 DEF CurrentRecord, Present
    <3>2. PICK l \in {"Historical", "Superseded"} :
             mid = update_node_state(base, lin.cur, l, "HistoricalOnly",
                                     FALSE)
      BY <2>2 DEF RetirePrevious
    <3>3. Stage(base, mid, x, {x})
      BY <1>3, <3>1, <3>2, UpdateStage
         DEF PastLives, HistoryLifecycles, CurrentnessValues
    <3>4. mid[lin.cur].life \in PastLives
      BY <1>3, <3>1, <3>2, UpdatedIsPast DEF Present
    <3> QED
      BY <3>3, <3>4
  <2> QED
    BY <2>1, <2>2
<1>5. mid \in Nodes /\ Coherence(mid)
  BY <1>4 DEF Stage
<1>6. Stage(mid, ns, x, Targets(es))
  BY <1>5, PromoteStage
<1>7. Stage(base, ns, x, A)
  <2>1. Stage(base, ns, x, {x} \cup Targets(es))
    BY <1>4, <1>6, StageThen
  <2> QED
    BY <2>1 DEF Stage
<1>8. lin.cur \in NodeId \ {n} => ns[lin.cur].life \in PastLives
  BY <1>4, <1>6 DEF Stage, Ages
<1>9. ln \in Lineages /\ ln.cur = n /\ Advances(n, r, ln)
  BY <1>0, <1>2 DEF AdvanceLineage, TypeOK, Lineages, LineageLifecycles,
                    Advances, NewRecord
<1>10. ns \in Nodes
  BY <1>6 DEF Stage
<1>11. CASE PartialCommit(n, r, es)
  <2>1. Acceptable(auth, n, r, specs)
    BY DEF PublishRoute
  <2> HIDE DEF r
  <2> QED
    BY <1>1, <1>11, <2>1, PartialForm
<1>12. CASE /\ Finish(auth, ns, EdgesAfter(edges, es, Len(es)), ln, A)
            /\ IndexNode(n, r, es)
  <2>1. Indexes(n, r)
    BY <1>12, IndexNodeIndexes
  <2>2. n \in A
    OBVIOUS
  <2> HIDE DEF r, es, base, mid, ns, ln, x, A
  <2>3. CommitForm(auth, n, r, x, ns, ln, A)
    BY <1>1, <1>2, <1>7, <1>8, <1>9, <1>12, <2>1, <2>2 DEF CommitForm, base
  <2> QED
    BY <1>1, <1>9, <1>10, <2>3 DEF Committing
<1> QED
  BY <1>11, <1>12 DEF PublishRoute

\* A declaration.
LEMMA DeclareForm ==
    ASSUME TypeOK, Coherence(nodes), NEW auth \in Callers, NEW n \in NodeId,
           NEW gen \in 0..MaxGen, NEW bind \in BindingSet,
           Declare(auth, n, gen, bind)
    PROVE  Committing
<1> DEFINE r == NewRecord("Declaration", gen, auth, bind, FALSE, None,
                          "Declared")
           ns == add_node(n, r)
<1>1. Built(r, auth) /\ r \in Records /\ r.kind = "Declaration"
  <2>1. Built(r, auth)
    BY NewRecordBuilt DEF NodeKinds
  <2> QED
    BY <2>1 DEF Built, NewRecord
<1>2. /\ Admitted(auth) /\ IdentityOf(r, n)
      /\ lin.hist < Limits.history
      /\ Cardinality(Present(nodes)) < Limits.nodes
      /\ Finish(auth, ns, edges, lin, {n})
      /\ IndexNode(n, r, <<>>)
  BY DEF Declare, Acceptable, WithinLimits
<1>3. ns \in Nodes /\ Coherence(ns)
  BY <1>1, AddCoherent
<1>4. Stage(ns, ns, n, {n})
  BY <1>3, IdleStage
<1>5. Indexes(n, r)
  BY <1>2, IndexNodeIndexes
<1>6. lin \in Lineages /\ Remains(n, r, lin)
  BY <1>1 DEF TypeOK, Remains
<1> HIDE DEF r
<1>7. CommitForm(auth, n, r, n, ns, lin, {n})
  BY <1>1, <1>2, <1>4, <1>5, <1>6 DEF CommitForm
<1> QED
  BY <1>1, <1>3, <1>6, <1>7 DEF Committing

\* A link.
LEMMA LinkForm ==
    ASSUME TypeOK, Coherence(nodes), NEW auth \in Callers,
           NEW from \in NodeId, NEW to \in NodeId, NEW type \in LinkTypes,
           LinkDerivation(auth, from, to, type)
    PROVE  Linking
<1> DEFINE e  == [from |-> from, to |-> to, type |-> type, auth |-> auth]
           ns == IF nodes[to].life = "Declared"
                 THEN update_node_state(nodes, to, "Current", nodes[to].cur,
                                        FALSE)
                 ELSE nodes
<1>1. nodes \in Nodes /\ nodes[to].cur \in CurrentnessValues
  BY DEF TypeOK, Records, Nodes
<1>2. /\ Admitted(auth)
      /\ lin.hist < Limits.history
      /\ to \in Present(nodes)
      /\ Finish(auth, ns, edges \cup {e}, lin, {from, to})
      /\ UNCHANGED indexVars
  BY DEF LinkDerivation
<1>3. Stage(nodes, ns, to, {to})
  <2>1. Stage(nodes, nodes, to, {to})
    BY <1>1, IdleStage
  <2>2. Stage(nodes, update_node_state(nodes, to, "Current", nodes[to].cur,
                                       FALSE), to, {to})
    BY <1>1, <1>2, UpdateStage DEF PastLives, HistoryLifecycles
  <2> QED
    BY <2>1, <2>2
<1> HIDE DEF ns, e
<1>4. ns \in Nodes /\ Stage(nodes, ns, to, {from, to})
  BY <1>3 DEF Stage
<1> QED
  BY <1>2, <1>4 DEF Linking

\* What the five administrative actions have in common.
LEMMA AdministerForm ==
    ASSUME TypeOK, Coherence(nodes), NEW auth \in Callers, NEW n \in NodeId,
           NEW target \in Present(nodes), NEW bind \in BindingSet, NEW type,
           NEW post,
           Stage(WithAction(auth, n, target, bind), post, target, {target}),
           NEW ln \in Lineages, ln.gen = lin.gen, ln.cur = lin.cur,
           ln.life \in {lin.life, "Withdrawn", "Revoked", "Retired"},
           Administer(auth, n, target, bind, type, post, ln)
    PROVE  Committing \/ HalfCommitting
<1> DEFINE r  == ActionRecord(auth, target, bind)
           specs == <<[type |-> type, target |-> target]>>
           es == EdgeList(n, specs, auth)
           A  == {n, target}
<1>1. /\ Built(r, auth) /\ r \in Records
      /\ r.kind = "AdministrativeAction"
  <2>1. nodes[target].gen \in 0..MaxGen
    BY DEF TypeOK, Records, Present
  <2>2. Built(r, auth)
    BY <2>1, NewRecordBuilt DEF ActionRecord, NodeKinds
  <2> QED
    BY <2>2 DEF Built, ActionRecord, NewRecord
<1>2. /\ Admitted(auth) /\ IdentityOf(r, n)
      /\ lin.hist < Limits.history
      /\ Cardinality(Present(nodes)) < Limits.nodes
  BY DEF Administer, ActionAdmissible, Acceptable, WithinLimits
<1>3. CASE PartialCommit(n, r, es)
  <2>1. Acceptable(auth, n, r, specs) /\ Len(specs) = 1
    BY DEF Administer, ActionAdmissible
  <2> HIDE DEF r, specs
  <2> QED
    BY <1>1, <1>3, <2>1, PartialForm
<1>4. CASE /\ Finish(auth, post, EdgesAfter(edges, es, Len(es)), ln, A)
           /\ IndexNode(n, r, es)
  <2>1. Indexes(n, r)
    BY <1>4, IndexNodeIndexes
  <2>2. n \in A /\ post \in Nodes /\ Stage(add_node(n, r), post, target, A)
    BY DEF Stage, WithAction
  <2>3. Remains(n, r, ln)
    BY <1>1 DEF Remains
  <2> HIDE DEF r, es, A
  <2>4. CommitForm(auth, n, r, target, post, ln, A)
    BY <1>1, <1>2, <1>4, <2>1, <2>2, <2>3 DEF CommitForm
  <2> QED
    BY <1>1, <2>2, <2>4 DEF Committing
<1> QED
  BY <1>3, <1>4 DEF Administer

\* The five administrative actions.
LEMMA AdministrationForm ==
    ASSUME TypeOK, Coherence(nodes), NEW auth \in Callers, NEW n \in NodeId,
           NEW target \in Present(nodes), NEW bind \in BindingSet,
           \/ Withdraw(auth, n, target, bind)
           \/ Revoke(auth, n, target, bind)
           \/ Retire(auth, n, target, bind)
           \/ Revalidate(auth, n, target, bind)
           \/ Invalidate(auth, n, target, bind)
    PROVE  Committing \/ HalfCommitting
<1> DEFINE ns == WithAction(auth, n, target, bind)
           After(life, cur) == update_node_state(ns, target, life, cur, FALSE)
<1>1. Built(ActionRecord(auth, target, bind), auth)
  <2>1. nodes[target].gen \in 0..MaxGen
    BY DEF TypeOK, Records, Present
  <2> QED
    BY <2>1, NewRecordBuilt DEF ActionRecord, NodeKinds
<1>2. ns \in Nodes /\ Coherence(ns) /\ target \in Present(ns)
  BY <1>1, AddCoherent DEF WithAction
<1>3. \A life \in PastLives \cup {"Current"}, cur \in CurrentnessValues :
         (life \in PastLives => cur = "HistoricalOnly") =>
             Stage(ns, After(life, cur), target, {target})
  BY <1>2, UpdateStage
<1>4. \A l \in LineageLifecycles :
         LET ln == [lin EXCEPT !.life = l]
         IN /\ ln \in Lineages
            /\ ln.gen = lin.gen /\ ln.cur = lin.cur /\ ln.life = l
  BY DEF TypeOK, Lineages
<1>5. lin \in Lineages
  BY DEF TypeOK
<1>6. CASE Withdraw(auth, n, target, bind)
  <2>1. Stage(ns, After("Historical", "HistoricalOnly"), target, {target})
    BY <1>3 DEF PastLives, HistoryLifecycles, CurrentnessValues
  <2>2. LET ln == [lin EXCEPT !.life = "Withdrawn"]
        IN /\ ln \in Lineages
           /\ ln.gen = lin.gen /\ ln.cur = lin.cur /\ ln.life = "Withdrawn"
    BY <1>4 DEF LineageLifecycles
  <2> QED
    BY <1>6, <2>1, <2>2, AdministerForm DEF Withdraw
<1>7. CASE Revoke(auth, n, target, bind)
  <2>1. Stage(ns, After("Revoked", "HistoricalOnly"), target, {target})
    BY <1>3 DEF PastLives, HistoryLifecycles, CurrentnessValues
  <2>2. LET ln == [lin EXCEPT !.life = "Revoked"]
        IN /\ ln \in Lineages
           /\ ln.gen = lin.gen /\ ln.cur = lin.cur /\ ln.life = "Revoked"
    BY <1>4 DEF LineageLifecycles
  <2> QED
    BY <1>7, <2>1, <2>2, AdministerForm DEF Revoke
<1>8. CASE Retire(auth, n, target, bind)
  <2>1. Stage(ns, After("Retired", "HistoricalOnly"), target, {target})
    BY <1>3 DEF PastLives, HistoryLifecycles, CurrentnessValues
  <2>2. LET ln == [lin EXCEPT !.life = "Retired"]
        IN /\ ln \in Lineages
           /\ ln.gen = lin.gen /\ ln.cur = lin.cur /\ ln.life = "Retired"
    BY <1>4 DEF LineageLifecycles
  <2> QED
    BY <1>8, <2>1, <2>2, AdministerForm DEF Retire
<1>9. CASE Revalidate(auth, n, target, bind)
  <2> DEFINE mid  == After("Current", "RevalidationRequired")
             post == mark_revalidated(mid, target)
  <2>1. Stage(ns, mid, target, {target})
    BY <1>3 DEF PastLives, HistoryLifecycles, CurrentnessValues
  <2>2. mid[target].life # "Declared"
    <3>1. target \in NodeId /\ ns[target] \in Records
          /\ ns[target].life \in NodeLifecycles
      BY <1>2 DEF Nodes, Records, Present
    <3>2. CASE is_valid_lifecycle_transition(ns[target].life, "Current")
      BY <1>2, <3>1, <3>2 DEF update_node_state, Nodes, Records
    <3>3. CASE ~is_valid_lifecycle_transition(ns[target].life, "Current")
      <4>1. ns[target].life # "Declared"
        BY <3>3 DEF is_valid_lifecycle_transition, LifecycleSuccessors
      <4> QED
        BY <3>3, <4>1 DEF update_node_state
    <3> QED
      BY <3>2, <3>3
  <2>3. mid \in Nodes /\ Coherence(mid) /\ target \in Present(mid)
    BY <1>2, <2>1 DEF Stage, Ages, Core, Present
  <2>4. Stage(mid, post, target, {target})
    BY <2>2, <2>3, RevalidatedStage
  <2>5. Stage(ns, post, target, {target})
    <3>1. Stage(ns, post, target, {target} \cup {target})
      BY <2>1, <2>4, StageThen
    <3>2. {target} \cup {target} = {target}
      OBVIOUS
    <3> QED
      BY <3>1, <3>2
  <2> QED
    BY <1>5, <1>9, <2>5, AdministerForm DEF Revalidate
<1>10. CASE Invalidate(auth, n, target, bind)
  <2>1. Stage(ns, After("Invalid", "HistoricalOnly"), target, {target})
    BY <1>3 DEF PastLives, HistoryLifecycles, CurrentnessValues
  <2> QED
    BY <1>10, <2>1, <1>5, AdministerForm DEF Invalidate
<1> QED
  BY <1>6, <1>7, <1>8, <1>9, <1>10

\* A correction.
LEMMA CorrectForm ==
    ASSUME TypeOK, Coherence(nodes), NEW auth \in Callers, NEW n \in NodeId,
           NEW target \in Present(nodes), NEW bind \in BindingSet,
           Correct(auth, n, target, bind)
    PROVE  Committing \/ HalfCommitting
<1> DEFINE specs == <<[type |-> "Corrects", target |-> target]>>
           r     == Replacement(auth, target, bind)
           es    == EdgeList(n, specs, auth)
           base  == add_node(n, r)
           ns    == update_node_state(set_corrected_by(base, target, n),
                                      target, "Invalid", "HistoricalOnly",
                                      FALSE)
           ln    == [lin EXCEPT !.cur = IF @ = target THEN n ELSE @]
           A     == {n, target}
<1>1. /\ CorrectionAdmissible(auth, n, target, bind, specs)
      /\ \/ PartialCommit(n, r, es)
         \/ \E fs : /\ Finish(auth, ns, fs, ln, A)
                    /\ IndexNode(n, r, es)
  BY DEF Correct
<1>2. target \in NodeId /\ nodes[target] \in Records
  BY DEF Present, TypeOK
<1>3. Built(r, auth) /\ r \in Records /\ r.corrects = target
  <2>1. /\ nodes[target].kind \in NodeKinds \ {"CompactedSummary"}
        /\ nodes[target].gen \in 0..MaxGen
        /\ nodes[target].root \in BOOLEAN
    BY <1>1, <1>2 DEF Present, Records, CorrectionAdmissible
  <2>2. Built(r, auth)
    BY <1>2, <2>1, NewRecordBuilt DEF Replacement
  <2> QED
    BY <2>2 DEF Built, Replacement, NewRecord
<1>4. /\ Admitted(auth) /\ IdentityOf(r, n)
      /\ lin.hist < Limits.history
      /\ Cardinality(Present(nodes)) < Limits.nodes
  BY <1>1 DEF CorrectionAdmissible, Acceptable, WithinLimits
<1>5. /\ base \in Nodes /\ Coherence(base)
      /\ target \in Present(base) /\ n \in Present(base)
  BY <1>3, AddCoherent
<1>6. Replaces(base, n, target)
  <2>1. Core(base[n]) = Core(r)
    BY <1>3, <1>4, AddNodeCore DEF Built, NodeKinds
  <2> QED
    BY <1>3, <1>5, <2>1 DEF Core, Replaces
<1>7. Stage(base, ns, target, {target}) /\ ns[target].life = "Invalid"
  BY <1>5, <1>6, CorrectedStage
<1>8. /\ ln \in Lineages
      /\ ln.gen = lin.gen /\ ln.life = lin.life
      /\ ln.cur = IF lin.cur = target THEN n ELSE lin.cur
  BY DEF TypeOK, Lineages
<1>9. Remains(n, r, ln)
  BY <1>2, <1>3, <1>8, NodeIdAssumption DEF Remains
<1>10. lin.cur \in NodeId \ {ln.cur} => ns[lin.cur].life \in PastLives
  BY <1>7, <1>8 DEF PastLives, HistoryLifecycles
<1>11. CASE PartialCommit(n, r, es)
  <2>1. Acceptable(auth, n, r, specs) /\ Len(specs) = 1
    BY <1>1 DEF CorrectionAdmissible
  <2> HIDE DEF r, specs
  <2> QED
    BY <1>3, <1>11, <2>1, PartialForm
<1>12. CASE \E fs : /\ Finish(auth, ns, fs, ln, A)
                    /\ IndexNode(n, r, es)
  <2>1. PICK fs : Finish(auth, ns, fs, ln, A) /\ IndexNode(n, r, es)
    BY <1>12
  <2>2. Indexes(n, r)
    BY <2>1, IndexNodeIndexes
  <2>3. n \in A /\ ns \in Nodes /\ Stage(base, ns, target, A)
    BY <1>7 DEF Stage
  <2> HIDE DEF r, es, base, ns, ln, A
  <2>4. CommitForm(auth, n, r, target, ns, ln, A)
    BY <1>3, <1>4, <1>8, <1>9, <1>10, <2>1, <2>2, <2>3
       DEF CommitForm, base
  <2> QED
    BY <1>3, <1>8, <2>3, <2>4 DEF Committing
<1> QED
  BY <1>1, <1>11, <1>12

\* Every step is a commit, a link, half a commit, a compaction, or one that
\* inserts and acts on no record.
LEMMA StepForms ==
    ASSUME TypeOK, CurrentRecord, Coherence(nodes), [Next]_vars
    PROVE  \/ Committing
           \/ Linking
           \/ HalfCommitting
           \/ \E auth \in Callers : \E d, S : Compact(auth, d, S)
           \/ Registration
           \/ Notification
           \/ Elsewhere
           \/ Restart
           \/ UNCHANGED vars
<1>1. CASE Publication
  <2> SUFFICES ASSUME NEW auth \in Callers, NEW n \in NodeId,
                      \/ RoutePublication(auth, n)
                      \/ Declaration(auth, n)
                      \/ Correction(auth, n)
                      \/ Administration(auth, n)
               PROVE  Committing \/ HalfCommitting
    BY <1>1 DEF Publication
  <2>1. CASE RoutePublication(auth, n)
    BY <2>1, PublishRouteForm DEF RoutePublication
  <2>2. CASE Declaration(auth, n)
    BY <2>2, DeclareForm DEF Declaration
  <2>3. CASE Correction(auth, n)
    BY <2>3, CorrectForm DEF Correction
  <2>4. CASE Administration(auth, n)
    BY <2>4, AdministrationForm DEF Administration
  <2> QED
    BY <2>1, <2>2, <2>3, <2>4
<1>2. CASE Maintenance
  <2> SUFFICES ASSUME NEW auth \in Callers,
                      Link(auth) \/ Compaction(auth)
               PROVE  Linking \/ \E d, S : Compact(auth, d, S)
    BY <1>2 DEF Maintenance
  <2>1. CASE Link(auth)
    BY <2>1, LinkForm DEF Link
  <2>2. CASE Compaction(auth)
    BY <2>2 DEF Compaction
  <2> QED
    BY <2>1, <2>2
<1> QED
  BY <1>1, <1>2 DEF Next

-----------------------------------------------------------------------------
(* The invariant of the record states *)

\* A correction marker is on an invalid record and leads to its replacement or
\* to the replacement's tombstone.
Markers(ns) ==
    \A m \in NodeId : ns[m].correctedBy # None =>
        /\ ns[m].life = "Invalid"
        /\ ns[m].correctedBy \in Present(ns)
        /\ \/ ns[ns[m].correctedBy].kind = "CompactedSummary"
           \/ ns[ns[m].correctedBy].corrects = m

StateInv == Coherence(nodes) /\ Markers(nodes) /\ HistoryBounded

\* Inserting a record leads no marker astray and adds no history.
LEMMA AddState ==
    ASSUME TypeOK, StateInv, NEW n \in NodeId, NEW r, NEW auth,
           Built(r, auth)
    PROVE  /\ Markers(add_node(n, r))
           /\ HistoryCount(add_node(n, r)) = HistoryCount(nodes)
<1> DEFINE base == add_node(n, r)
<1>1. CASE n \in Present(nodes)
  BY <1>1 DEF add_node, StateInv
<1>2. CASE n \notin Present(nodes)
  <2>1. /\ base[n] = r
        /\ \A m \in NodeId \ {n} : base[m] = nodes[m]
        /\ Present(nodes) \subseteq Present(base)
    BY <1>2, AddCoherent DEF StateInv
  <2>2. nodes[n] = NoRecord
    BY <1>2 DEF StateInv, Coherence, Coherent, Present
  <2>3. r.correctedBy = None /\ ~node_is_history_record(r)
    BY DEF Built, node_is_history_record, HistoryLifecycles
  <2>4. ~node_is_history_record(nodes[n])
    BY <2>2 DEF NoRecord, node_is_history_record, NodeKinds
  <2> HIDE DEF base
  <2>5. Markers(base)
    <3> SUFFICES ASSUME NEW m \in NodeId, base[m].correctedBy # None
                 PROVE  /\ base[m].life = "Invalid"
                        /\ base[m].correctedBy \in Present(base)
                        /\ \/ base[base[m].correctedBy].kind
                                = "CompactedSummary"
                           \/ base[base[m].correctedBy].corrects = m
      BY DEF Markers
    <3>1. m # n /\ base[m] = nodes[m]
      BY <2>1, <2>3
    <3>2. /\ nodes[m].life = "Invalid"
          /\ nodes[m].correctedBy \in Present(nodes)
          /\ \/ nodes[nodes[m].correctedBy].kind = "CompactedSummary"
             \/ nodes[nodes[m].correctedBy].corrects = m
      BY <3>1 DEF StateInv, Markers
    <3>3. nodes[m].correctedBy \in NodeId \ {n}
      BY <1>2, <3>2 DEF Present
    <3> QED
      BY <2>1, <3>1, <3>2, <3>3
  <2>6. {m \in NodeId : node_is_history_record(base[m])}
           = {m \in NodeId : node_is_history_record(nodes[m])}
    BY <2>1, <2>3, <2>4
  <2> QED
    BY <2>5, <2>6 DEF HistoryCount, base
<1> QED
  BY <1>1, <1>2

\* Aging keeps the markers right.
LEMMA StageMarkers ==
    ASSUME NEW ns, NEW ms, NEW x, NEW A, Markers(ns), Stage(ns, ms, x, A)
    PROVE  Markers(ms)
<1> SUFFICES ASSUME NEW m \in NodeId, ms[m].correctedBy # None
             PROVE  /\ ms[m].life = "Invalid"
                    /\ ms[m].correctedBy \in Present(ms)
                    /\ \/ ms[ms[m].correctedBy].kind = "CompactedSummary"
                       \/ ms[ms[m].correctedBy].corrects = m
  BY DEF Markers
<1>1. \A k \in NodeId : /\ ms[k].kind = ns[k].kind
                        /\ ms[k].corrects = ns[k].corrects
                        /\ ns[k].life = "Invalid" => ms[k].life = "Invalid"
  BY DEF Stage, Ages, Core
<1>2. CASE ms[m].correctedBy = ns[m].correctedBy
  <2>1. /\ ns[m].life = "Invalid"
        /\ ns[m].correctedBy \in Present(ns)
        /\ \/ ns[ns[m].correctedBy].kind = "CompactedSummary"
           \/ ns[ns[m].correctedBy].corrects = m
    BY <1>2 DEF Markers
  <2> QED
    BY <1>1, <1>2, <2>1 DEF Present
<1>3. CASE ms[m].life = "Invalid" /\ Replaces(ns, ms[m].correctedBy, m)
  BY <1>1, <1>3 DEF Replaces, Present
<1> QED
  BY <1>2, <1>3 DEF Stage

\* One commit adds at most one record to the history.
LEMMA StageHistory ==
    ASSUME NEW ns, NEW ms, NEW x, NEW A, Stage(ns, ms, x, A),
           HistoryCount(ns) < Limits.history
    PROVE  HistoryCount(ms) <= Limits.history
<1> DEFINE old == {m \in NodeId : node_is_history_record(ns[m])}
           new == {m \in NodeId : node_is_history_record(ms[m])}
<1>1. IsFiniteSet(old)
  BY NodeIdAssumption, FS_Subset
<1>2. new \subseteq old \cup {x}
  BY DEF Stage
<1>3. Cardinality(old) < Limits.history
  BY DEF HistoryCount
<1> HIDE DEF old, new
<1>4. /\ IsFiniteSet(old \cup {x})
      /\ Cardinality(old \cup {x}) = IF x \in old THEN Cardinality(old)
                                     ELSE Cardinality(old) + 1
  BY <1>1, FS_AddElement
<1>5. /\ Cardinality(new) <= Cardinality(old \cup {x})
      /\ Cardinality(new) \in Nat
  BY <1>2, <1>4, FS_Subset, FS_CardinalityType
<1>6. Cardinality(old) \in Nat /\ Limits.history \in Nat
  BY <1>1, FS_CardinalityType, LimitsAreValid
<1>7. Cardinality(new) <= Limits.history
  BY <1>3, <1>4, <1>5, <1>6
<1> QED
  BY <1>7 DEF new, HistoryCount

\* What the end of a commit leaves, whatever the commit did before.
LEMMA FinishNodes ==
    ASSUME NEW auth, NEW ns, NEW es, NEW ln \in Lineages, NEW A,
           Finish(auth, ns, es, ln, A)
    PROVE  /\ nodes' = reevaluate(ns, A \cup {ln.cur}, lin', marks',
                                  publishers)
           /\ lin'.cur = ln.cur /\ lin'.gen = ln.gen
           /\ lin'.life = ln.life
           /\ attempts' = attempts \cup {<<auth.pub, auth.att>>}
           /\ UNCHANGED sessionVars
<1> DEFINE l == [ln EXCEPT !.lgen = @ + 1, !.hist = HistoryCount(ns)]
<1>1. l.cur = ln.cur /\ l.gen = ln.gen /\ l.life = ln.life
  BY DEF Lineages
<1>2. /\ lin' = l
      /\ nodes' = reevaluate(ns, A \cup {l.cur}, lin', marks', publishers)
      /\ attempts' = attempts \cup {<<auth.pub, auth.att>>}
      /\ UNCHANGED sessionVars
  BY DEF Finish
<1> HIDE DEF l
<1> QED
  BY <1>1, <1>2

\* What the end of a commit leaves, as a stage.
LEMMA FinishStage ==
    ASSUME NEW base, NEW ns \in Nodes, NEW x, NEW A, Stage(base, ns, x, A),
           NEW auth, NEW es, NEW ln \in Lineages,
           Finish(auth, ns, es, ln, A)
    PROVE  /\ Stage(base, nodes', x, A \cup {ln.cur})
           /\ lin'.hist = HistoryCount(nodes')
           /\ HistoryCount(nodes') = HistoryCount(ns)
           /\ lin' = [ln EXCEPT !.lgen = @ + 1, !.hist = HistoryCount(ns)]
           /\ marks' = [marks EXCEPT !.store = @ + 1]
           /\ nodes' = reevaluate(ns, A \cup {ln.cur}, lin', marks',
                                  publishers)
           /\ attempts' = attempts \cup {<<auth.pub, auth.att>>}
           /\ UNCHANGED sessionVars
<1> DEFINE l == [ln EXCEPT !.lgen = @ + 1, !.hist = HistoryCount(ns)]
<1>1. l.cur = ln.cur /\ l.hist = HistoryCount(ns)
  BY DEF Lineages
<1>2. /\ lin' = l
      /\ marks' = [marks EXCEPT !.store = @ + 1]
      /\ nodes' = reevaluate(ns, A \cup {l.cur}, lin', marks', publishers)
      /\ attempts' = attempts \cup {<<auth.pub, auth.att>>}
      /\ UNCHANGED sessionVars
  BY DEF Finish
<1> HIDE DEF l
<1>3. nodes' = reevaluate(ns, A \cup {ln.cur}, lin', marks', publishers)
  BY <1>1, <1>2
<1>4. /\ Stage(ns, nodes', x, A \cup {ln.cur})
      /\ HistoryCount(nodes') = HistoryCount(ns)
  <2>1. Coherence(ns)
    BY DEF Stage
  <2> QED
    BY <1>3, <2>1, ReevaluateStage
<1>5. Stage(base, nodes', x, A \cup (A \cup {ln.cur}))
  BY <1>4, StageThen
<1>6. Stage(base, nodes', x, A \cup {ln.cur})
  BY <1>5 DEF Stage
<1> QED
  BY <1>1, <1>2, <1>3, <1>4, <1>6 DEF l

\* A commit on top of base keeps the invariant.
LEMMA CommitState ==
    ASSUME TypeOK, StateInv, NEW base, Markers(base),
           HistoryCount(base) = HistoryCount(nodes),
           NEW ns \in Nodes, NEW x, NEW A, Stage(base, ns, x, A),
           lin.hist < Limits.history,
           NEW auth, NEW es, NEW ln \in Lineages,
           Finish(auth, ns, es, ln, A)
    PROVE  StateInv'
<1>1. /\ Stage(base, nodes', x, A \cup {ln.cur})
      /\ lin'.hist = HistoryCount(nodes')
  BY FinishStage
<1>2. Coherence(nodes') /\ Markers(nodes')
  BY <1>1, StageMarkers DEF Stage
<1>3. HistoryCount(base) < Limits.history
  BY DEF StateInv, HistoryBounded
<1>4. HistoryCount(nodes') <= Limits.history
  BY <1>1, <1>3, StageHistory
<1> QED
  BY <1>1, <1>2, <1>4 DEF StateInv, HistoryBounded

\* A step that only ages states and moves nothing in or out of the history
\* keeps it too.
LEMMA AgingState ==
    ASSUME StateInv, NEW x, NEW A, Stage(nodes, nodes', x, A),
           HistoryCount(nodes') = HistoryCount(nodes), lin'.hist = lin.hist
    PROVE  StateInv'
<1>1. Coherence(nodes') /\ Markers(nodes')
  BY StageMarkers DEF Stage, StateInv
<1> QED
  BY <1>1 DEF StateInv, HistoryBounded

\* A step that recomputes currentness is of that kind.
LEMMA RecomputeState ==
    ASSUME TypeOK, StateInv, NEW S, NEW mk, NEW ps,
           nodes' = reevaluate(nodes, S, lin, mk, ps), lin' = lin
    PROVE  StateInv'
<1>1. nodes \in Nodes /\ Coherence(nodes)
  BY DEF TypeOK, Nodes, StateInv
<1>2. /\ Stage(nodes, nodes', None, S)
      /\ HistoryCount(nodes') = HistoryCount(nodes)
  BY <1>1, ReevaluateStage
<1> QED
  BY <1>2, AgingState

\* A registration keeps the invariant.
LEMMA RegistrationState ==
    ASSUME TypeOK, StateInv, Registration
    PROVE  StateInv'
<1>1. ASSUME NEW p, NEW b, NEW epoch, register_publisher(p, b, epoch)
      PROVE  StateInv'
  BY <1>1, RecomputeState DEF register_publisher, lineageVars
<1>2. ASSUME NEW epoch, register_refused(epoch)
      PROVE  StateInv'
  BY <1>2 DEF register_refused, graphVars, lineageVars, StateInv,
              HistoryBounded
<1> QED
  BY <1>1, <1>2 DEF Registration

\* An announcement or a fence keeps it.
LEMMA NotificationState ==
    ASSUME TypeOK, StateInv, Notification
    PROVE  StateInv'
<1>1. ASSUME NEW mk, NEW S, Announce(mk, S)
      PROVE  StateInv'
  BY <1>1, RecomputeState DEF Announce, lineageVars
<1>2. ASSUME NEW p, NEW b, fence_publisher(p, b)
      PROVE  StateInv'
  BY <1>2, RecomputeState DEF fence_publisher, lineageVars
<1>3. ASSUME NEW p, NEW b, NotifyWorkerFence(p, b)
      PROVE  StateInv'
  <2>1. CASE nodes' = nodes /\ lin' = lin
    BY <2>1 DEF StateInv, HistoryBounded
  <2>2. CASE nodes' # nodes
    BY <1>3, <2>2, RecomputeState DEF NotifyWorkerFence, lineageVars
  <2> QED
    BY <1>3, <2>1, <2>2 DEF NotifyWorkerFence, lineageVars
<1> QED
  BY <1>1, <1>2, <1>3
     DEF Notification, NotifyPathAuthority, NotifyPolicy, NotifyEvidence,
         NotifyPlan, advance_epoch

\* A compaction keeps it: tombstones carry no marker and are no history.
LEMMA CompactState ==
    ASSUME TypeOK, StateInv, NEW auth, NEW d, NEW S, Compact(auth, d, S)
    PROVE  StateInv'
<1>1. /\ S \subseteq NodeId
      /\ nodes' = [n \in NodeId |-> IF n \in S THEN Tombstone(nodes[n], auth)
                                    ELSE nodes[n]]
      /\ lin'.hist = HistoryCount(nodes')
  BY DEF Compact, CompactionCandidates, TypeOK, Lineages
<1>2. ASSUME NEW m \in S
      PROVE  /\ nodes'[m].kind = "CompactedSummary"
             /\ nodes'[m].life = "Historical"
             /\ nodes'[m].cur = "HistoricalOnly"
             /\ nodes'[m].correctedBy = None
  <2>1. m \in NodeId /\ nodes[m] \in Records
    BY <1>1 DEF TypeOK
  <2> QED
    BY <1>1, <2>1 DEF Tombstone, Records
<1>3. \A m \in NodeId \ S : nodes'[m] = nodes[m]
  BY <1>1
<1>4. Coherence(nodes')
  <2> SUFFICES ASSUME NEW m \in NodeId
               PROVE  Coherent(nodes'[m])
    BY DEF Coherence
  <2>1. CASE m \in S
    BY <1>2, <2>1 DEF Coherent
  <2>2. CASE m \notin S
    BY <1>3, <2>2 DEF StateInv, Coherence
  <2> QED
    BY <2>1, <2>2
<1>5. Markers(nodes')
  <2> SUFFICES ASSUME NEW m \in NodeId, nodes'[m].correctedBy # None
               PROVE  /\ nodes'[m].life = "Invalid"
                      /\ nodes'[m].correctedBy \in Present(nodes')
                      /\ \/ nodes'[nodes'[m].correctedBy].kind
                              = "CompactedSummary"
                         \/ nodes'[nodes'[m].correctedBy].corrects = m
    BY DEF Markers
  <2>1. nodes'[m] = nodes[m]
    BY <1>2, <1>3
  <2>2. /\ nodes[m].life = "Invalid"
        /\ nodes[m].correctedBy \in Present(nodes)
        /\ \/ nodes[nodes[m].correctedBy].kind = "CompactedSummary"
           \/ nodes[nodes[m].correctedBy].corrects = m
    BY <2>1 DEF StateInv, Markers
  <2> QED
    BY <1>2, <1>3, <2>1, <2>2 DEF Present
<1>6. lin'.hist <= Limits.history
  <2> DEFINE old == {m \in NodeId : node_is_history_record(nodes[m])}
             new == {m \in NodeId : node_is_history_record(nodes'[m])}
  <2>1. new \subseteq old
    BY <1>2, <1>3 DEF node_is_history_record
  <2>2. IsFiniteSet(old)
    BY NodeIdAssumption, FS_Subset
  <2>3. lin'.hist = Cardinality(new) /\ Cardinality(old) <= Limits.history
    BY <1>1 DEF HistoryCount, StateInv, HistoryBounded
  <2> HIDE DEF old, new
  <2>4. /\ Cardinality(new) <= Cardinality(old)
        /\ Cardinality(new) \in Nat /\ Cardinality(old) \in Nat
        /\ Limits.history \in Nat
    BY <2>1, <2>2, FS_Subset, FS_CardinalityType, LimitsAreValid
  <2> QED
    BY <2>3, <2>4
<1> QED
  BY <1>1, <1>4, <1>5, <1>6 DEF StateInv, HistoryBounded

\* The demotion of a reload is a stage.
LEMMA DemoteStage ==
    ASSUME TypeOK, StateInv
    PROVE  LET ns == [n \in NodeId |-> Demote(nodes[n])]
           IN /\ Stage(nodes, ns, None, NodeId)
              /\ HistoryCount(ns) = HistoryCount(nodes)
<1> DEFINE ns == [n \in NodeId |-> Demote(nodes[n])]
<1>1. ASSUME NEW m \in NodeId
      PROVE  /\ ns[m] \in Records
             /\ Core(ns[m]) = Core(nodes[m])
             /\ ns[m].correctedBy = nodes[m].correctedBy
             /\ \/ ns[m] = nodes[m]
                \/ /\ nodes[m].life = "Current"
                   /\ nodes[m].kind # "Absent"
                   /\ ns[m].life = "RevalidationRequired"
                   /\ ns[m].rr
  <2>1. nodes[m] \in Records /\ Coherent(nodes[m])
    BY DEF TypeOK, StateInv, Coherence
  <2>2. ns[m] = Demote(nodes[m])
    OBVIOUS
  <2>3. CASE ~(nodes[m].life = "Current" /\ nodes[m].cur = "Current")
    BY <2>1, <2>2, <2>3 DEF Demote
  <2>4. CASE nodes[m].life = "Current" /\ nodes[m].cur = "Current"
    <3>1. nodes[m].kind # "Absent"
      BY <2>1, <2>4 DEF Coherent, NoRecord
    <3>2. ns[m] \in Records /\ Core(ns[m]) = Core(nodes[m])
      BY <2>1, <2>2, DemoteCore
    <3>3. /\ ns[m].correctedBy = nodes[m].correctedBy
          /\ ns[m].life = "RevalidationRequired"
          /\ ns[m].rr
      BY <2>1, <2>2, <2>4 DEF Demote, Records
    <3> QED
      BY <2>4, <3>1, <3>2, <3>3
  <2> QED
    BY <2>3, <2>4
<1>2. ns \in Nodes
  BY <1>1 DEF Nodes
<1> HIDE DEF ns
<1>3. ASSUME NEW m \in NodeId
      PROVE  /\ Coherent(ns[m])
             /\ Ages(nodes[m], ns[m])
             /\ node_is_history_record(ns[m])
                   <=> node_is_history_record(nodes[m])
  <2>1. CASE ns[m] = nodes[m]
    BY <2>1 DEF StateInv, Coherence, Ages
  <2>2. CASE /\ nodes[m].life = "Current"
             /\ nodes[m].kind # "Absent"
             /\ ns[m].life = "RevalidationRequired"
             /\ ns[m].rr
    <3>1. ns[m].kind = nodes[m].kind /\ Core(ns[m]) = Core(nodes[m])
      BY <1>1 DEF Core
    <3> QED
      BY <2>2, <3>1 DEF Coherent, Ages, node_is_history_record, PastLives,
                        HistoryLifecycles
  <2> QED
    BY <1>1, <2>1, <2>2
<1>4. Stage(nodes, ns, None, NodeId)
  BY <1>1, <1>2, <1>3 DEF Stage, Coherence
<1>5. {m \in NodeId : node_is_history_record(ns[m])}
         = {m \in NodeId : node_is_history_record(nodes[m])}
  BY <1>3
<1> QED
  BY <1>4, <1>5 DEF HistoryCount, ns

\* A reload keeps the invariant.
LEMMA RestartState ==
    ASSUME TypeOK, StateInv, Restart
    PROVE  StateInv'
<1> DEFINE ns == [n \in NodeId |-> Demote(nodes[n])]
           ps == [k \in Publishers \X Boots |-> "Unknown"]
           l  == [lin EXCEPT !.hist = HistoryCount(ns)]
<1>1. /\ nodes' = reevaluate(ns, NodeId, l, marks, ps)
      /\ lin' = l
  BY DEF Restart
<1>2. /\ Stage(nodes, ns, None, NodeId)
      /\ HistoryCount(ns) = HistoryCount(nodes)
  BY DemoteStage
<1>3. lin'.hist = HistoryCount(ns)
  BY <1>1 DEF TypeOK, Lineages
<1> HIDE DEF ns, ps, l
<1>4. /\ Stage(ns, nodes', None, NodeId)
      /\ HistoryCount(nodes') = HistoryCount(ns)
  <2>1. ns \in Nodes /\ Coherence(ns)
    BY <1>2 DEF Stage
  <2> QED
    BY <1>1, <2>1, ReevaluateStage
<1>5. Stage(nodes, nodes', None, NodeId \cup NodeId)
  BY <1>2, <1>4, StageThen
<1>6. lin'.hist = lin.hist
  BY <1>2, <1>3 DEF StateInv, HistoryBounded
<1> QED
  BY <1>2, <1>4, <1>5, <1>6, AgingState

\* The invariant is inductive.
LEMMA StepState ==
    ASSUME TypeOK, CurrentRecord, StateInv, [Next]_vars
    PROVE  StateInv'
<1>1. CASE Committing
  <2>1. PICK auth \in Callers, n \in NodeId, r \in Records, ns \in Nodes,
             ln \in Lineages : \E x, A : CommitForm(auth, n, r, x, ns, ln, A)
    BY <1>1 DEF Committing
  <2>2. PICK x, A : CommitForm(auth, n, r, x, ns, ln, A)
    BY <2>1
  <2>3. PICK es : Finish(auth, ns, es, ln, A)
    BY <2>2 DEF CommitForm
  <2>4. /\ Built(r, auth)
        /\ Stage(add_node(n, r), ns, x, A)
        /\ lin.hist < Limits.history
    BY <2>2 DEF CommitForm
  <2>5. /\ Markers(add_node(n, r))
        /\ HistoryCount(add_node(n, r)) = HistoryCount(nodes)
    BY <2>4, AddState
  <2> QED
    BY <2>3, <2>4, <2>5, CommitState
<1>2. CASE Linking
  <2>1. PICK auth \in Callers, ns \in Nodes :
           /\ lin.hist < Limits.history
           /\ \E x, A : /\ Stage(nodes, ns, x, A)
                        /\ \E es : Finish(auth, ns, es, lin, A)
    BY <1>2 DEF Linking
  <2>2. PICK x, A : /\ Stage(nodes, ns, x, A)
                    /\ \E es : Finish(auth, ns, es, lin, A)
    BY <2>1
  <2>3. PICK es : Finish(auth, ns, es, lin, A)
    BY <2>2
  <2>4. lin \in Lineages /\ Markers(nodes)
    BY DEF TypeOK, StateInv
  <2> QED
    BY <2>1, <2>2, <2>3, <2>4, CommitState
<1>3. CASE HalfCommitting
  <2>1. PICK auth \in Callers, n \in NodeId, r \in Records :
           /\ Built(r, auth)
           /\ nodes' = add_node(n, r)
           /\ UNCHANGED lineageVars
    BY <1>3 DEF HalfCommitting
  <2>2. /\ Markers(nodes')
        /\ HistoryCount(nodes') = HistoryCount(nodes)
        /\ Coherence(nodes')
    BY <2>1, AddState, AddCoherent DEF StateInv
  <2> QED
    BY <2>1, <2>2 DEF StateInv, HistoryBounded, lineageVars
<1>4. CASE \E auth \in Callers : \E d, S : Compact(auth, d, S)
  BY <1>4, CompactState
<1>5. CASE Registration
  BY <1>5, RegistrationState
<1>6. CASE Notification
  BY <1>6, NotificationState
<1>7. CASE Restart
  BY <1>7, RestartState
<1>8. CASE Elsewhere
  <2>1. nodes' = nodes /\ lin' = lin
    BY <1>8, ElsewhereKeeps
  <2> QED
    BY <2>1 DEF StateInv, HistoryBounded
<1>9. CASE UNCHANGED vars
  BY <1>9 DEF vars, StateInv, HistoryBounded
<1>10. Coherence(nodes)
  BY DEF StateInv
<1> QED
  BY <1>1, <1>2, <1>3, <1>4, <1>5, <1>6, <1>7, <1>8, <1>9, <1>10, StepForms

\* It holds of an empty store.
LEMMA InitState == Init => StateInv
<1> SUFFICES ASSUME Init
             PROVE  StateInv
  OBVIOUS
<1>1. \A m \in NodeId : nodes[m] = NoRecord
  BY DEF Init
<1>2. Coherence(nodes) /\ Markers(nodes)
  <2>1. /\ NoRecord.life = "Declared" /\ NoRecord.correctedBy = None
        /\ NoRecord.reval = FALSE
    BY DEF NoRecord
  <2>2. Coherent(NoRecord)
    BY <2>1 DEF Coherent, PastLives, HistoryLifecycles
  <2> QED
    BY <1>1, <2>1, <2>2 DEF Coherence, Markers
<1>3. {m \in NodeId : node_is_history_record(nodes[m])} = {}
  BY <1>1 DEF node_is_history_record, NoRecord, NodeKinds
<1>4. HistoryCount(nodes) = 0 /\ lin.hist = 0
  BY <1>3, FS_EmptySet DEF HistoryCount, Init
<1>5. 0 <= Limits.history
  BY LimitsAreValid
<1> QED
  BY <1>2, <1>4, <1>5 DEF StateInv, HistoryBounded

\* The invariant holds in every reachable state.
LEMMA StateInvariance == Spec => []StateInv
<1>1. TypeOK /\ CurrentRecord /\ StateInv /\ [Next]_vars => StateInv'
  BY StepState
<1> QED
  BY <1>1, InitState, TypeCorrect, CurrentRecordHolds, PTL DEF Spec

-----------------------------------------------------------------------------
(* Theorems that hold of every behaviour *)

\* A corrected record stays invalid and leads to its replacement.
THEOREM CorrectedRecordsStayInvalid == Spec => []CorrectedStaysInvalid
<1>1. StateInv => CorrectedStaysInvalid
  <2> SUFFICES ASSUME StateInv, NEW n \in NodeId,
                      nodes[n].correctedBy # None
               PROVE  /\ nodes[n].life = "Invalid"
                      /\ nodes[n].cur = "HistoricalOnly"
                      /\ \/ nodes[nodes[n].correctedBy].kind
                              = "CompactedSummary"
                         \/ nodes[nodes[n].correctedBy].corrects = n
    BY DEF CorrectedStaysInvalid
  <2>1. /\ nodes[n].life = "Invalid"
        /\ \/ nodes[nodes[n].correctedBy].kind = "CompactedSummary"
           \/ nodes[nodes[n].correctedBy].corrects = n
    BY DEF StateInv, Markers
  <2>2. Coherent(nodes[n])
    BY DEF StateInv, Coherence
  <2>3. nodes[n].cur = "HistoricalOnly"
    BY <2>1, <2>2 DEF Coherent, PastLives, HistoryLifecycles
  <2> QED
    BY <2>1, <2>3
<1> QED
  BY <1>1, StateInvariance, PTL

\* The history counter is exact and never passes its limit.
THEOREM HistoryStaysBounded == Spec => []HistoryBounded
<1>1. StateInv => HistoryBounded
  BY DEF StateInv
<1> QED
  BY <1>1, StateInvariance, PTL

\* The steps that change the session registry.
LEMMA SessionSteps ==
    ASSUME TypeOK, CurrentRecord, StateInv, [Next]_vars
    PROVE  \/ publishers' = publishers
           \/ Registration
           \/ Notification
           \/ Restart
<1>1. CASE Committing
  BY <1>1 DEF Committing, CommitForm, Finish, sessionVars
<1>2. CASE Linking
  BY <1>2 DEF Linking, Finish, sessionVars
<1>3. CASE HalfCommitting
  BY <1>3 DEF HalfCommitting, sessionVars
<1>4. CASE \E auth \in Callers : \E d, S : Compact(auth, d, S)
  BY <1>4 DEF Compact, sessionVars
<1>5. CASE Elsewhere
  BY <1>5, ElsewhereKeeps
<1>6. CASE UNCHANGED vars
  BY <1>6 DEF vars
<1>7. Coherence(nodes)
  BY DEF StateInv
<1> QED
  BY <1>1, <1>2, <1>3, <1>4, <1>5, <1>6, <1>7, StepForms

\* Once fenced, a boot is neither live nor forgotten before the process ends.
THEOREM FencedForGood == Spec => FencedUntilRestart
<1>1. ASSUME TypeOK, CurrentRecord, StateInv, [Next]_vars
      PROVE  \/ \A k \in Publishers \X Boots :
                   publishers[k] = "Fenced" => publishers'[k] = "Fenced"
             \/ \A k \in Publishers \X Boots : publishers'[k] = "Unknown"
  <2>1. CASE publishers' = publishers
    BY <2>1
  <2>2. CASE Registration
    <3>1. ASSUME NEW p \in Publishers, NEW b \in Boots, NEW epoch,
                 register_publisher(p, b, epoch),
                 NEW k \in Publishers \X Boots, publishers[k] = "Fenced"
          PROVE  publishers'[k] = "Fenced"
      <4>1. k # <<p, b>>
        BY <3>1 DEF register_publisher, SessionRefused
      <4> QED
        BY <3>1, <4>1 DEF register_publisher
    <3>2. ASSUME NEW epoch, register_refused(epoch)
          PROVE  publishers' = publishers
      BY <3>2 DEF register_refused
    <3> QED
      BY <2>2, <3>1, <3>2 DEF Registration
  <2>3. CASE Notification
    <3>1. ASSUME NEW mk, NEW S, Announce(mk, S)
          PROVE  publishers' = publishers
      BY <3>1 DEF Announce, sessionVars
    <3>2. ASSUME NEW p \in Publishers, NEW b \in Boots,
                 fence_publisher(p, b) \/ NotifyWorkerFence(p, b),
                 NEW k \in Publishers \X Boots, publishers[k] = "Fenced"
          PROVE  publishers'[k] = "Fenced"
      BY <1>1, <3>2 DEF fence_publisher, NotifyWorkerFence, TypeOK
    <3> QED
      BY <2>3, <3>1, <3>2
         DEF Notification, NotifyPathAuthority, NotifyPolicy, NotifyEvidence,
             NotifyPlan, advance_epoch
  <2>4. CASE Restart
    BY <2>4 DEF Restart
  <2> QED
    BY <1>1, <2>1, <2>2, <2>3, <2>4, SessionSteps
<1> QED
  BY <1>1, TypeCorrect, CurrentRecordHolds, StateInvariance, PTL
     DEF Spec, FencedUntilRestart

\* Without sessions, a record is CURRENT only if it was revalidated and needs
\* no revalidation.
LEMMA UnvouchedCurrent ==
    ASSUME NEW ln, NEW r \in Records, NEW mk,
           compute_currentness(ln, r, mk, "Unknown") = "Current"
    PROVE  r.reval /\ ~r.rr /\ r.life \notin PastLives
BY DEF compute_currentness, PastLives

\* A reload leaves no record CURRENT that was CURRENT before it.
THEOREM ReloadDemotes == Spec => RestartDemotesAll
<1>1. ASSUME TypeOK, StateInv, Restart, NEW n \in NodeId,
             nodes'[n].cur = "Current"
      PROVE  nodes[n].cur # "Current" /\ nodes[n].reval
  <2> DEFINE ns == [m \in NodeId |-> Demote(nodes[m])]
             ps == [k \in Publishers \X Boots |-> "Unknown"]
             l  == [lin EXCEPT !.hist = HistoryCount(ns)]
             c  == compute_currentness(l, ns[n], marks,
                                       publisher_state(ps, ns[n].auth))
  <2>1. nodes' = reevaluate(ns, NodeId, l, marks, ps)
    BY <1>1 DEF Restart
  <2>2. nodes[n] \in Records /\ Coherent(nodes[n]) /\ ns[n] = Demote(nodes[n])
    BY <1>1 DEF TypeOK, StateInv, Coherence
  <2>3. /\ ns[n] \in Records
        /\ ns[n].cur = "Current" => nodes[n].cur = "Current"
        /\ ns[n].kind = nodes[n].kind
    BY <2>2, DemoteCore DEF Core
  <2>4. ns[n].kind # "Absent"
    <3>1. CASE ns[n].kind = "Absent"
      <4>1. nodes'[n] = ns[n]
        BY <2>1, <3>1 DEF reevaluate
      <4>2. nodes[n].cur = "Current" /\ nodes[n] = NoRecord
        BY <1>1, <2>2, <2>3, <3>1, <4>1 DEF Coherent
      <4> QED
        BY <4>2 DEF NoRecord
    <3> QED
      BY <3>1
  <2>5. c = "Current"
    <3>1. nodes'[n] = [ns[n] EXCEPT !.cur = c]
      BY <2>1, <2>4 DEF reevaluate
    <3> HIDE DEF c
    <3> QED
      BY <1>1, <2>3, <3>1 DEF Records
  <2>6. publisher_state(ps, ns[n].auth) = "Unknown"
    <3>1. ns[n].auth \in Authorities
      BY <2>3 DEF Records
    <3>2. CASE ns[n].auth.pub = None \/ ns[n].auth.boot = None
      BY <3>2 DEF publisher_state
    <3>3. CASE ns[n].auth.pub # None /\ ns[n].auth.boot # None
      <4>1. <<ns[n].auth.pub, ns[n].auth.boot>> \in Publishers \X Boots
        BY <3>1, <3>3 DEF Authorities
      <4> QED
        BY <3>3, <4>1 DEF publisher_state
    <3> QED
      BY <3>2, <3>3
  <2>7. ns[n].reval /\ ~ns[n].rr /\ ns[n].life \notin PastLives
    BY <2>3, <2>5, <2>6, UnvouchedCurrent
  <2> HIDE DEF ns
  <2>8. ~(nodes[n].life = "Current" /\ nodes[n].cur = "Current")
    BY <2>2, <2>7 DEF Demote, Records
  <2>9. ns[n] = nodes[n]
    BY <2>2, <2>8 DEF Demote
  <2>10. nodes[n].life = "Current"
    BY <2>2, <2>7, <2>9
       DEF Coherent, Records, NodeLifecycles, PastLives, HistoryLifecycles
  <2> QED
    BY <2>7, <2>8, <2>9, <2>10
<1>2. TypeOK /\ StateInv =>
         (Restart => \A n \in NodeId : nodes'[n].cur = "Current" =>
                       nodes[n].cur # "Current" /\ nodes[n].reval)
  BY <1>1
<1> QED
  BY <1>2, TypeCorrect, StateInvariance, PTL DEF RestartDemotesAll

=============================================================================
