----------------------- MODULE StoreComplete_proofs ------------------------
(***************************************************************************)
(* Properties of ProvenanceStore that a commit which stops at one of its   *)
(* edges breaks, proved of the behaviours in which none does.              *)
(*                                                                         *)
(* PartialCommit leaves a record that the attempt ledger, the generation   *)
(* index and the reverse indexes do not know: the announcements and the    *)
(* fences miss it, and its attempt and generation can be used again.  The  *)
(* theorems therefore assume []NothingHalfInserted, and TLC finds each of  *)
(* their conclusions violated without it.                                  *)
(***************************************************************************)
EXTENDS StoreGraph_proofs

\* Every recorded record is in the indexes.
NothingHalfInserted == Present(nodes) \subseteq indexed

\* The index keeps an entry for every generation of the only lineage of its
\* route.
IndexComplete ==
    ~shared => \A m \in NodeId : nodes[m].kind = "RouteGeneration" =>
                  nodes[m].gen \in genIndex

\* The ledger knows the attempt of every record and only the current route
\* state among the originals is not past.  The generation index knows the
\* generation of every route state as long as the route has one lineage.
RegistryInv ==
    /\ indexed \subseteq Present(nodes)
    /\ \A m \in Present(nodes) : nodes[m].kind # "CompactedSummary" =>
          <<nodes[m].auth.pub, nodes[m].auth.att>> \in attempts
    /\ OneRecordPerAttempt
    /\ IndexComplete
    /\ OneOriginalPerGeneration
    /\ \A m \in NodeId :
          nodes[m].kind = "RouteGeneration" /\ nodes[m].corrects = None =>
              m = lin.cur \/ nodes[m].life \in PastLives

\* A commit records a new record: a found one would have its attempt in the
\* ledger, and the call would have been answered from there.
LEMMA CommitIsNew ==
    ASSUME TypeOK, RegistryInv, NEW n \in NodeId, NEW r, NEW auth,
           Built(r, auth), Admitted(auth), IdentityOf(r, n)
    PROVE  n \notin Present(nodes)
<1> SUFFICES ASSUME n \in Present(nodes)
             PROVE  FALSE
  OBVIOUS
<1>1. Core(nodes[n]) = Core(r)
  BY DEF IdentityOf
<1>2. nodes[n].kind = r.kind /\ nodes[n].auth = auth
  BY <1>1 DEF Core, Built
<1>3. r.kind # "CompactedSummary"
  BY DEF Built
<1> QED
  BY <1>2, <1>3 DEF RegistryInv, Admitted

\* So no commit stops half way when nothing is left half inserted.
LEMMA NoHalfCommit ==
    ASSUME TypeOK, StateInv, RegistryInv, NothingHalfInserted',
           HalfCommitting
    PROVE  FALSE
<1>1. PICK auth \in Callers, n \in NodeId, r \in Records :
         /\ Built(r, auth)
         /\ Admitted(auth)
         /\ IdentityOf(r, n)
         /\ nodes' = add_node(n, r)
         /\ UNCHANGED indexVars
  BY DEF HalfCommitting
<1>2. n \notin Present(nodes)
  BY <1>1, CommitIsNew
<1>3. n \in Present(nodes')
  BY <1>1, AddCoherent DEF StateInv
<1> QED
  BY <1>1, <1>2, <1>3 DEF NothingHalfInserted, RegistryInv, indexVars

\* A commit keeps the registry.
LEMMA CommitRegistry ==
    ASSUME TypeOK, StateInv, RegistryInv, NEW auth \in Callers,
           NEW n \in NodeId, NEW r \in Records, NEW x, NEW ns \in Nodes,
           NEW ln \in Lineages, NEW A, CommitForm(auth, n, r, x, ns, ln, A)
    PROVE  RegistryInv'
<1> DEFINE base == add_node(n, r)
<1>1. /\ Built(r, auth) /\ Admitted(auth)
      /\ Stage(base, ns, x, A)
      /\ Indexes(n, r)
      /\ Advances(n, r, ln) \/ Remains(n, r, ln)
      /\ lin.cur \in NodeId \ {ln.cur} => ns[lin.cur].life \in PastLives
  BY DEF CommitForm
<1>2. n \notin Present(nodes)
  BY CommitIsNew DEF CommitForm
<1>3. PICK es : Finish(auth, ns, es, ln, A)
  BY DEF CommitForm
<1>4. Stage(base, nodes', x, A \cup {ln.cur})
  <2>1. Stage(base, ns, x, A)
    BY <1>1
  <2> HIDE DEF base
  <2> QED
    BY <1>3, <2>1, FinishStage
<1>5. /\ lin'.cur = ln.cur
      /\ attempts' = attempts \cup {<<auth.pub, auth.att>>}
      /\ nodes' = reevaluate(ns, A \cup {ln.cur}, lin', marks', publishers)
  BY <1>3, FinishNodes
<1>6. /\ \A m \in NodeId \ {n} : base[m] = nodes[m]
      /\ base[n] = r
  BY <1>1, <1>2, AddCoherent DEF StateInv
<1>7. \A m \in NodeId : /\ Ages(base[m], nodes'[m])
                        /\ Ages(ns[m], nodes'[m])
  <2>1. Coherence(ns)
    BY <1>1 DEF Stage
  <2>2. Stage(ns, nodes', x, A \cup {ln.cur})
    BY <1>5, <2>1, ReevaluateStage
  <2> QED
    BY <1>4, <2>2 DEF Stage
<1> HIDE DEF base
<1>8. ASSUME NEW m \in NodeId \ {n}
      PROVE  /\ nodes'[m].kind = nodes[m].kind
             /\ nodes'[m].gen = nodes[m].gen
             /\ nodes'[m].auth = nodes[m].auth
             /\ nodes'[m].corrects = nodes[m].corrects
             /\ nodes[m].life \in PastLives => nodes'[m].life \in PastLives
             /\ ns[m].life \in PastLives => nodes'[m].life \in PastLives
  BY <1>6, <1>7 DEF Ages, Core
<1>9. /\ nodes'[n].kind = r.kind /\ nodes'[n].gen = r.gen
      /\ nodes'[n].auth = auth /\ nodes'[n].corrects = r.corrects
  BY <1>1, <1>6, <1>7 DEF Ages, Core, Built
<1>10. r.kind # "Absent" /\ r.kind # "CompactedSummary"
  BY <1>1 DEF Built, NodeKinds
<1>11. (indexed \subseteq Present(nodes))'
  BY <1>1, <1>8, <1>9, <1>10 DEF RegistryInv, Indexes, Present
<1>12. (\A m \in Present(nodes) : nodes[m].kind # "CompactedSummary" =>
           <<nodes[m].auth.pub, nodes[m].auth.att>> \in attempts)'
  BY <1>5, <1>8, <1>9 DEF RegistryInv, Present
<1>13. \A m \in Present(nodes') \ {n} :
          nodes'[m].kind # "CompactedSummary" =>
              <<nodes'[m].auth.pub, nodes'[m].auth.att>> \in attempts
  BY <1>8 DEF RegistryInv, Present
<1>14. OneRecordPerAttempt'
  <2>0. OneRecordPerAttempt
    BY DEF RegistryInv
  <2> SUFFICES ASSUME NEW k \in Present(nodes'), NEW m \in Present(nodes'),
                      nodes'[k].kind # "CompactedSummary",
                      nodes'[m].kind # "CompactedSummary",
                      nodes'[k].auth.pub = nodes'[m].auth.pub,
                      nodes'[k].auth.att = nodes'[m].auth.att
               PROVE  k = m
    BY DEF OneRecordPerAttempt
  <2>1. CASE k # n /\ m # n
    BY <1>8, <2>0, <2>1 DEF OneRecordPerAttempt, Present
  <2>2. CASE k = n /\ m # n
    BY <1>1, <1>9, <1>13, <2>2 DEF Admitted
  <2>3. CASE k # n /\ m = n
    BY <1>1, <1>9, <1>13, <2>3 DEF Admitted
  <2> QED
    BY <2>1, <2>2, <2>3
<1>15. IndexComplete'
  BY <1>1, <1>2, <1>8, <1>9 DEF RegistryInv, Indexes, IndexComplete
<1>16. r.kind = "RouteGeneration" =>
          \/ r.corrects # None
          \/ r.gen \notin genIndex /\ ln.cur = n
  BY <1>1 DEF Advances, Remains
<1>17. OneOriginalPerGeneration'
  <2>0. ~shared => /\ OneOriginalPerGeneration
                   /\ \A m \in NodeId : nodes[m].kind = "RouteGeneration" =>
                         nodes[m].gen \in genIndex
    BY DEF RegistryInv, IndexComplete
  <2>4. shared' = shared
    BY <1>1 DEF Indexes
  <2> SUFFICES ASSUME ~shared, NEW k \in NodeId, NEW m \in NodeId,
                      nodes'[k].kind = "RouteGeneration",
                      nodes'[m].kind = "RouteGeneration",
                      nodes'[k].gen = nodes'[m].gen,
                      k # m
               PROVE  {nodes'[k].corrects, nodes'[m].corrects} # {None}
    BY <2>4 DEF OneOriginalPerGeneration
  <2>1. CASE k # n /\ m # n
    <3>1. /\ nodes[k].kind = "RouteGeneration"
          /\ nodes[m].kind = "RouteGeneration"
          /\ nodes[k].gen = nodes[m].gen
          /\ nodes'[k].corrects = nodes[k].corrects
          /\ nodes'[m].corrects = nodes[m].corrects
      BY <1>8, <2>1
    <3>2. {nodes[k].corrects, nodes[m].corrects} # {None}
      BY <2>0, <3>1 DEF OneOriginalPerGeneration
    <3> QED
      BY <3>1, <3>2
  <2>2. CASE k = n /\ m # n
    BY <1>8, <1>9, <1>16, <2>0, <2>2
  <2>3. CASE k # n /\ m = n
    BY <1>8, <1>9, <1>16, <2>0, <2>3
  <2> QED
    BY <2>1, <2>2, <2>3
<1>18. ASSUME NEW m \in NodeId, nodes'[m].kind = "RouteGeneration",
              nodes'[m].corrects = None
       PROVE  m = lin'.cur \/ nodes'[m].life \in PastLives
  <2>1. CASE m = n
    BY <1>5, <1>9, <1>16, <1>18, <2>1
  <2>2. CASE m # n
    <3>1. m = lin.cur \/ nodes[m].life \in PastLives
      BY <1>8, <1>18, <2>2 DEF RegistryInv
    <3>2. CASE nodes[m].life \in PastLives
      BY <1>8, <2>2, <3>2
    <3>3. CASE m = lin.cur
      BY <1>1, <1>5, <1>8, <2>2, <3>3
    <3> QED
      BY <3>1, <3>2, <3>3
  <2> QED
    BY <2>1, <2>2
<1> QED
  BY <1>11, <1>12, <1>14, <1>15, <1>17, <1>18 DEF RegistryInv

\* So does a step that inserts no record and keeps the registries and the
\* current record.
LEMMA AgingRegistry ==
    ASSUME RegistryInv, NEW x, NEW A, Stage(nodes, nodes', x, A),
           attempts \subseteq attempts', UNCHANGED indexVars,
           lin'.cur = lin.cur
    PROVE  RegistryInv'
<1>1. \A m \in NodeId :
         /\ nodes'[m].kind = nodes[m].kind
         /\ nodes'[m].gen = nodes[m].gen
         /\ nodes'[m].auth = nodes[m].auth
         /\ nodes'[m].corrects = nodes[m].corrects
         /\ nodes[m].life \in PastLives => nodes'[m].life \in PastLives
  BY DEF Stage, Ages, Core
<1>2. Present(nodes') = Present(nodes)
  BY <1>1 DEF Present
<1>3. UNCHANGED <<indexed, genIndex, shared>>
  BY DEF indexVars
<1>4. (indexed \subseteq Present(nodes))'
  BY <1>2, <1>3 DEF RegistryInv
<1>5. (\A m \in Present(nodes) : nodes[m].kind # "CompactedSummary" =>
          <<nodes[m].auth.pub, nodes[m].auth.att>> \in attempts)'
  BY <1>1, <1>2 DEF RegistryInv, Present
<1>6. OneRecordPerAttempt'
  BY <1>1, <1>2 DEF RegistryInv, OneRecordPerAttempt, Present
<1>7. IndexComplete'
  BY <1>1, <1>3 DEF RegistryInv, IndexComplete
<1>8. OneOriginalPerGeneration'
  <2>1. OneOriginalPerGeneration
    BY DEF RegistryInv
  <2> QED
    BY <1>1, <1>3, <2>1 DEF OneOriginalPerGeneration
<1>9. (\A m \in NodeId :
          nodes[m].kind = "RouteGeneration" /\ nodes[m].corrects = None =>
              m = lin.cur \/ nodes[m].life \in PastLives)'
  BY <1>1 DEF RegistryInv
<1> QED
  BY <1>4, <1>5, <1>6, <1>7, <1>8, <1>9 DEF RegistryInv

\* A compaction only takes route states and attempts away.
LEMMA CompactRegistry ==
    ASSUME TypeOK, RegistryInv, NEW auth, NEW d, NEW S, Compact(auth, d, S)
    PROVE  RegistryInv'
<1>1. /\ S \subseteq CompactionCandidates(d)
      /\ nodes' = [n \in NodeId |-> IF n \in S THEN Tombstone(nodes[n], auth)
                                    ELSE nodes[n]]
      /\ lin'.cur = lin.cur
      /\ UNCHANGED <<attempts, indexed, genIndex, shared>>
  BY DEF Compact, indexVars, TypeOK, Lineages
<1>2. \A m \in S : m \in NodeId /\ nodes'[m].kind = "CompactedSummary"
  <2> TAKE m \in S
  <2>1. m \in NodeId /\ nodes[m] \in Records
    BY <1>1 DEF TypeOK, CompactionCandidates
  <2> QED
    BY <1>1, <2>1 DEF Tombstone, Records
<1>3. \A m \in NodeId \ S : nodes'[m] = nodes[m]
  BY <1>1
<1>4. \A m \in S : nodes[m].kind # "Absent"
  BY <1>1 DEF CompactionCandidates, node_is_history_record, NodeKinds
<1>5. Present(nodes') = Present(nodes)
  BY <1>2, <1>3, <1>4 DEF Present
<1>6. (indexed \subseteq Present(nodes))'
  BY <1>1, <1>5 DEF RegistryInv
<1>7. (\A m \in Present(nodes) : nodes[m].kind # "CompactedSummary" =>
          <<nodes[m].auth.pub, nodes[m].auth.att>> \in attempts)'
  BY <1>1, <1>2, <1>3, <1>5 DEF RegistryInv, Present
<1>8. OneRecordPerAttempt'
  <2>1. OneRecordPerAttempt
    BY DEF RegistryInv
  <2> QED
    BY <1>2, <1>3, <1>5, <2>1 DEF OneRecordPerAttempt, Present
<1>9. IndexComplete'
  BY <1>1, <1>2, <1>3 DEF RegistryInv, IndexComplete
<1>10. OneOriginalPerGeneration'
  <2>1. OneOriginalPerGeneration
    BY DEF RegistryInv
  <2>2. \A m \in NodeId : nodes'[m].kind = "RouteGeneration" =>
           nodes'[m] = nodes[m]
    BY <1>2, <1>3
  <2> SUFFICES ASSUME ~shared, NEW m \in NodeId, NEW n \in NodeId,
                      nodes'[m].kind = "RouteGeneration",
                      nodes'[n].kind = "RouteGeneration",
                      nodes'[m].gen = nodes'[n].gen, m # n
               PROVE  {nodes'[m].corrects, nodes'[n].corrects} # {None}
    BY <1>1 DEF OneOriginalPerGeneration
  <2>3. nodes'[m] = nodes[m] /\ nodes'[n] = nodes[n]
    BY <2>2
  <2> QED
    BY <2>1, <2>3 DEF OneOriginalPerGeneration
<1>11. (\A m \in NodeId :
           nodes[m].kind = "RouteGeneration" /\ nodes[m].corrects = None =>
               m = lin.cur \/ nodes[m].life \in PastLives)'
  BY <1>1, <1>2, <1>3 DEF RegistryInv
<1> QED
  BY <1>6, <1>7, <1>8, <1>9, <1>10, <1>11 DEF RegistryInv

\* What a reload does to the records, as a stage.
LEMMA RestartStage ==
    ASSUME TypeOK, StateInv, Restart
    PROVE  Stage(nodes, nodes', None, NodeId)
<1> DEFINE ns == [n \in NodeId |-> Demote(nodes[n])]
           ps == [k \in Publishers \X Boots |-> "Unknown"]
           l  == [lin EXCEPT !.hist = HistoryCount(ns)]
<1>1. nodes' = reevaluate(ns, NodeId, l, marks, ps)
  BY DEF Restart
<1>2. Stage(nodes, ns, None, NodeId)
  BY DemoteStage
<1> HIDE DEF ns, ps, l
<1>3. ns \in Nodes /\ Coherence(ns)
  BY <1>2 DEF Stage
<1>4. Stage(ns, nodes', None, NodeId)
  BY <1>1, <1>3, ReevaluateStage
<1>5. Stage(nodes, nodes', None, NodeId \cup NodeId)
  BY <1>2, <1>4, StageThen
<1>6. NodeId \cup NodeId = NodeId
  OBVIOUS
<1> QED
  BY <1>5, <1>6

\* A reload rebuilds the indexes from the records.
LEMMA RestartRegistry ==
    ASSUME TypeOK, StateInv, RegistryInv, Restart
    PROVE  RegistryInv'
<1>1. \A m \in NodeId :
         /\ nodes'[m].kind = nodes[m].kind
         /\ nodes'[m].gen = nodes[m].gen
         /\ nodes'[m].auth = nodes[m].auth
         /\ nodes'[m].corrects = nodes[m].corrects
         /\ nodes[m].life \in PastLives => nodes'[m].life \in PastLives
  BY RestartStage DEF Stage, Ages, Core
<1>2. /\ attempts' = attempts
      /\ lin'.cur = lin.cur
      /\ indexed' = Present(nodes)
      /\ genIndex' = {nodes[n].gen : n \in
                        {m \in NodeId : nodes[m].kind = "RouteGeneration"}}
      /\ shared' = shared
  BY DEF Restart, TypeOK, Lineages
<1>3. Present(nodes') = Present(nodes)
  BY <1>1 DEF Present
<1>4. (indexed \subseteq Present(nodes))'
  BY <1>2, <1>3
<1>5. (\A m \in Present(nodes) : nodes[m].kind # "CompactedSummary" =>
          <<nodes[m].auth.pub, nodes[m].auth.att>> \in attempts)'
  BY <1>1, <1>2, <1>3 DEF RegistryInv, Present
<1>6. OneRecordPerAttempt'
  <2>1. OneRecordPerAttempt
    BY DEF RegistryInv
  <2> QED
    BY <1>1, <1>3, <2>1 DEF OneRecordPerAttempt, Present
<1>7. IndexComplete'
  BY <1>1, <1>2 DEF IndexComplete
<1>8. OneOriginalPerGeneration'
  <2>1. OneOriginalPerGeneration
    BY DEF RegistryInv
  <2> QED
    BY <1>1, <1>2, <2>1 DEF OneOriginalPerGeneration
<1>9. (\A m \in NodeId :
          nodes[m].kind = "RouteGeneration" /\ nodes[m].corrects = None =>
              m = lin.cur \/ nodes[m].life \in PastLives)'
  BY <1>1, <1>2 DEF RegistryInv
<1> QED
  BY <1>4, <1>5, <1>6, <1>7, <1>8, <1>9 DEF RegistryInv

\* Recomputing currentness keeps the registry.
LEMMA RecomputeRegistry ==
    ASSUME TypeOK, StateInv, RegistryInv, NEW S, NEW mk, NEW ps,
           nodes' = reevaluate(nodes, S, lin, mk, ps),
           UNCHANGED <<lineageVars, indexVars>>
    PROVE  RegistryInv'
<1>1. nodes \in Nodes /\ Coherence(nodes)
  BY DEF TypeOK, Nodes, StateInv
<1>2. Stage(nodes, nodes', None, S)
  BY <1>1, ReevaluateStage
<1> QED
  BY <1>2, AgingRegistry DEF lineageVars

\* So does doing nothing to the records.
LEMMA IdleRegistry ==
    ASSUME RegistryInv, UNCHANGED <<nodes, lineageVars, indexVars>>
    PROVE  RegistryInv'
BY DEF RegistryInv, lineageVars, indexVars, OneRecordPerAttempt,
       IndexComplete, OneOriginalPerGeneration

\* A call in another lineage of the route takes index entries away, and from
\* then on the route is shared.
LEMMA ElsewhereRegistry ==
    ASSUME TypeOK, RegistryInv, Elsewhere
    PROVE  RegistryInv'
<1>1. UNCHANGED <<nodes, lin, attempts, indexed>> /\ shared'
  BY ElsewhereKeeps
<1> QED
  BY <1>1 DEF RegistryInv, OneRecordPerAttempt, IndexComplete,
              OneOriginalPerGeneration

\* As long as nothing is left half inserted, the registry invariant is
\* inductive.
LEMMA StepRegistry ==
    ASSUME TypeOK, CurrentRecord, StateInv, RegistryInv,
           NothingHalfInserted', [Next]_vars
    PROVE  RegistryInv'
<1>1. CASE Committing
  BY <1>1, CommitRegistry DEF Committing
<1>2. CASE Linking
  <2>1. PICK auth \in Callers, ns \in Nodes :
           /\ \E x, A : /\ Stage(nodes, ns, x, A)
                        /\ \E es : Finish(auth, ns, es, lin, A)
           /\ UNCHANGED indexVars
    BY <1>2 DEF Linking
  <2>2. PICK x, A : /\ Stage(nodes, ns, x, A)
                    /\ \E es : Finish(auth, ns, es, lin, A)
    BY <2>1
  <2>3. PICK es : Finish(auth, ns, es, lin, A)
    BY <2>2
  <2>4. lin \in Lineages
    BY DEF TypeOK
  <2>5. Stage(nodes, nodes', x, A \cup {lin.cur})
    BY <2>2, <2>3, <2>4, FinishStage
  <2>6. lin'.cur = lin.cur /\ attempts \subseteq attempts'
    BY <2>3, <2>4, FinishNodes DEF Finish
  <2> QED
    BY <2>1, <2>5, <2>6, AgingRegistry
<1>3. CASE HalfCommitting
  BY <1>3, NoHalfCommit
<1>4. CASE \E auth \in Callers : \E d, S : Compact(auth, d, S)
  BY <1>4, CompactRegistry
<1>5. CASE Registration
  <2>1. ASSUME NEW p, NEW b, NEW epoch, register_publisher(p, b, epoch)
        PROVE  RegistryInv'
    BY <2>1, RecomputeRegistry DEF register_publisher
  <2>2. ASSUME NEW epoch, register_refused(epoch)
        PROVE  RegistryInv'
    BY <2>2, IdleRegistry DEF register_refused, graphVars
  <2> QED
    BY <1>5, <2>1, <2>2 DEF Registration
<1>6. CASE Notification
  <2>1. ASSUME NEW mk, NEW S, Announce(mk, S)
        PROVE  RegistryInv'
    BY <2>1, RecomputeRegistry DEF Announce
  <2>2. ASSUME NEW p, NEW b, fence_publisher(p, b)
        PROVE  RegistryInv'
    BY <2>2, RecomputeRegistry DEF fence_publisher
  <2>3. ASSUME NEW p, NEW b, NotifyWorkerFence(p, b)
        PROVE  RegistryInv'
    BY <2>3, RecomputeRegistry, IdleRegistry DEF NotifyWorkerFence
  <2> QED
    BY <1>6, <2>1, <2>2, <2>3
       DEF Notification, NotifyPathAuthority, NotifyPolicy, NotifyEvidence,
           NotifyPlan, advance_epoch
<1>7. CASE Restart
  BY <1>7, RestartRegistry
<1>8. CASE Elsewhere
  BY <1>8, ElsewhereRegistry
<1>9. CASE UNCHANGED vars
  BY <1>9, IdleRegistry DEF vars, lineageVars, indexVars
<1>10. Coherence(nodes)
  BY DEF StateInv
<1> QED
  BY <1>1, <1>2, <1>3, <1>4, <1>5, <1>6, <1>7, <1>8, <1>9, <1>10, StepForms

\* It holds of an empty store.
LEMMA InitRegistry == Init => RegistryInv
<1> SUFFICES ASSUME Init
             PROVE  RegistryInv
  OBVIOUS
<1>1. \A m \in NodeId : nodes[m].kind = "Absent"
  BY DEF Init, NoRecord
<1>2. Present(nodes) = {} /\ indexed = {}
  BY <1>1 DEF Present, Init
<1> QED
  BY <1>1, <1>2 DEF RegistryInv, OneRecordPerAttempt, IndexComplete,
                    OneOriginalPerGeneration

\* The registry invariant holds while nothing is left half inserted.
LEMMA RegistryInvariance == Spec /\ []NothingHalfInserted => []RegistryInv
<1>1. /\ TypeOK /\ CurrentRecord /\ StateInv /\ RegistryInv
      /\ NothingHalfInserted' /\ [Next]_vars
      => RegistryInv'
  BY StepRegistry
<1> QED
  BY <1>1, InitRegistry, TypeCorrect, CurrentRecordHolds, StateInvariance, PTL
     DEF Spec

\* While nothing is left half inserted, an attempt stands for one record.
THEOREM AttemptsNameOneRecord ==
    Spec /\ []NothingHalfInserted => []OneRecordPerAttempt
<1>1. RegistryInv => OneRecordPerAttempt
  BY DEF RegistryInv
<1> QED
  BY <1>1, RegistryInvariance, PTL

\* While nothing is left half inserted, a generation has one original, as long
\* as no other lineage shares the route.
THEOREM GenerationsHaveOneOriginal ==
    Spec /\ []NothingHalfInserted => []OneOriginalPerGeneration
<1>1. RegistryInv => OneOriginalPerGeneration
  BY DEF RegistryInv
<1> QED
  BY <1>1, RegistryInvariance, PTL

\* While nothing is left half inserted, only the lineage's current record is
\* an original that is reported CURRENT.
THEOREM OnlyHeadIsCurrent ==
    Spec /\ []NothingHalfInserted => []CurrentOriginalIsCurrentRecord
<1>1. RegistryInv /\ StateInv => CurrentOriginalIsCurrentRecord
  <2> SUFFICES ASSUME RegistryInv, StateInv, NEW n \in NodeId,
                      nodes[n].kind = "RouteGeneration",
                      nodes[n].corrects = None,
                      nodes[n].cur = "Current"
               PROVE  n = lin.cur
    BY DEF CurrentOriginalIsCurrentRecord
  <2>1. Coherent(nodes[n])
    BY DEF StateInv, Coherence
  <2>2. nodes[n].life \notin PastLives
    BY <2>1 DEF Coherent
  <2> QED
    BY <2>2 DEF RegistryInv
<1> QED
  BY <1>1, RegistryInvariance, StateInvariance, PTL

-----------------------------------------------------------------------------
(* Currentness *)

\* What a CURRENT record can rely on: a live session unless it was
\* revalidated, no binding below an announced generation, and the epoch.
Vouched(r, mk, ps, rec) ==
    r.cur = "Current" =>
        /\ ~r.reval => publisher_state(ps, r.auth) = "Live"
        /\ ~Below(r.bind.path, mk.path)
        /\ ~Below(r.bind.policy, mk.policy)
        /\ ~Below(r.bind.adPolicy, mk.policy)
        /\ ~Below(r.bind.adEvidence, mk.evidence)
        /\ rec \/ r.auth.epoch = mk.epoch

\* Records exist only under an epoch, and the CURRENT ones are vouched for.
VouchInv ==
    /\ Present(nodes) # {} => marks.epoch # 0
    /\ \A m \in NodeId : Vouched(nodes[m], marks, publishers, recovered)

Sessions == [Publishers \X Boots -> SessionStates]

\* The three outcomes of publisher_state.
LEMMA LivenessType ==
    ASSUME NEW ps \in Sessions, NEW auth \in Authorities
    PROVE  publisher_state(ps, auth) \in {"Unknown", "Live", "Fenced"}
<1>1. CASE auth.pub = None \/ auth.boot = None
  BY <1>1 DEF publisher_state
<1>2. CASE auth.pub # None /\ auth.boot # None
  <2>1. <<auth.pub, auth.boot>> \in Publishers \X Boots
    BY <1>2 DEF Authorities
  <2>2. ps[<<auth.pub, auth.boot>>] \in SessionStates
    BY <2>1 DEF Sessions
  <2> QED
    BY <1>2, <2>2 DEF publisher_state, SessionStates
<1> QED
  BY <1>1, <1>2

\* compute_currentness answers Current only for a record that is vouched for.
LEMMA ComputedVouched ==
    ASSUME NEW ln, NEW r \in Records, NEW mk \in Marks, NEW ps \in Sessions,
           NEW rec, rec \/ mk.epoch # 0,
           compute_currentness(ln, r, mk, publisher_state(ps, r.auth))
               = "Current"
    PROVE  /\ ~r.reval => publisher_state(ps, r.auth) = "Live"
           /\ ~Below(r.bind.path, mk.path)
           /\ ~Below(r.bind.policy, mk.policy)
           /\ ~Below(r.bind.adPolicy, mk.policy)
           /\ ~Below(r.bind.adEvidence, mk.evidence)
           /\ rec \/ r.auth.epoch = mk.epoch
<1> DEFINE s == publisher_state(ps, r.auth)
<1>1. r.auth \in Authorities /\ r.bind \in Bindings
  BY DEF Records
<1>2. s \in {"Unknown", "Live", "Fenced"}
  BY <1>1, LivenessType
<1> HIDE DEF s
<1>3. compute_currentness(ln, r, mk, s) = "Current"
  BY DEF s
<1>4. /\ ~differs(r.bind.path, mk.path)
      /\ ~differs(r.bind.policy, mk.policy)
      /\ ~differs(r.bind.adPolicy, mk.policy)
      /\ ~differs(r.bind.adEvidence, mk.evidence)
      /\ ~(mk.epoch # 0 /\ r.auth.epoch # mk.epoch)
  BY <1>3 DEF compute_currentness
<1>5. r.reval \/ s = "Live"
  BY <1>2, <1>3 DEF compute_currentness
<1>6. ASSUME NEW a \in Nat, NEW g \in Nat, ~differs(a, g)
      PROVE  ~Below(a, g)
  BY <1>6 DEF differs, Below
<1>7. /\ r.bind.path \in Nat /\ r.bind.policy \in Nat
      /\ r.bind.adPolicy \in Nat /\ r.bind.adEvidence \in Nat
      /\ mk.path \in Nat /\ mk.policy \in Nat /\ mk.evidence \in Nat
  BY <1>1, StoreAssumption DEF Bindings, Marks
<1>8. /\ ~Below(r.bind.path, mk.path)
      /\ ~Below(r.bind.policy, mk.policy)
      /\ ~Below(r.bind.adPolicy, mk.policy)
      /\ ~Below(r.bind.adEvidence, mk.evidence)
  BY <1>4, <1>6, <1>7
<1> QED
  BY <1>4, <1>5, <1>8 DEF s

\* A recomputed record is vouched for.
LEMMA ReevaluateVouched ==
    ASSUME NEW ns \in Nodes, Coherence(ns), NEW S, NEW ln,
           NEW mk \in Marks, NEW ps \in Sessions,
           NEW rec, rec \/ mk.epoch # 0,
           \A m \in NodeId \ S : Vouched(ns[m], mk, ps, rec)
    PROVE  \A m \in NodeId :
              Vouched(reevaluate(ns, S, ln, mk, ps)[m], mk, ps, rec)
<1> TAKE m \in NodeId
<1> DEFINE t == reevaluate(ns, S, ln, mk, ps)[m]
           c == compute_currentness(ln, ns[m], mk,
                                    publisher_state(ps, ns[m].auth))
<1>1. ns[m] \in Records
  BY DEF Nodes
<1>2. CASE m \in S /\ ns[m].kind # "Absent"
  <2>1. t = [ns[m] EXCEPT !.cur = c]
    BY <1>2 DEF reevaluate
  <2> HIDE DEF t
  <2>2. CASE c = "Current"
    <3>1. Vouched([ns[m] EXCEPT !.cur = "Current"], mk, ps, rec)
      <4> DEFINE r == ns[m]
      <4>1. /\ ~r.reval => publisher_state(ps, r.auth) = "Live"
            /\ ~Below(r.bind.path, mk.path)
            /\ ~Below(r.bind.policy, mk.policy)
            /\ ~Below(r.bind.adPolicy, mk.policy)
            /\ ~Below(r.bind.adEvidence, mk.evidence)
            /\ rec \/ r.auth.epoch = mk.epoch
        BY <1>1, <2>2, ComputedVouched
      <4>2. /\ [r EXCEPT !.cur = "Current"].reval = r.reval
            /\ [r EXCEPT !.cur = "Current"].auth = r.auth
            /\ [r EXCEPT !.cur = "Current"].bind = r.bind
        BY <1>1 DEF Records
      <4> HIDE DEF r
      <4>3. Vouched([r EXCEPT !.cur = "Current"], mk, ps, rec)
        BY <4>1, <4>2 DEF Vouched
      <4> QED
        BY <4>3 DEF r
    <3> QED
      BY <2>1, <2>2, <3>1 DEF t
  <2>3. CASE c # "Current"
    <3> HIDE DEF c
    <3>1. t.cur = c
      BY <1>1, <2>1 DEF Records
    <3>2. t.cur # "Current"
      BY <2>3, <3>1
    <3>3. Vouched(t, mk, ps, rec)
      BY <3>2 DEF Vouched
    <3> QED
      BY <3>3 DEF t
  <2> QED
    BY <2>2, <2>3
<1>3. CASE ns[m].kind = "Absent"
  <2>1. ns[m] = NoRecord
    BY <1>3 DEF Coherence, Coherent
  <2>2. t = ns[m]
    BY <1>3 DEF reevaluate
  <2>3. t.cur = "HistoricalOnly"
    BY <2>1, <2>2 DEF NoRecord
  <2> QED
    BY <2>3 DEF Vouched
<1>4. CASE m \notin S
  <2>1. t = ns[m]
    BY <1>4 DEF reevaluate
  <2> QED
    BY <1>4, <2>1
<1> QED
  BY <1>2, <1>3, <1>4

\* Vouching depends on the announced generations and the epoch only.
LEMMA StoreGenerationVouches ==
    ASSUME NEW mk \in Marks, NEW r, NEW ps, NEW rec, Vouched(r, mk, ps, rec)
    PROVE  Vouched(r, [mk EXCEPT !.store = @ + 1], ps, rec)
BY DEF Vouched, Marks

\* The end of a commit on top of base, the records with at most those of A
\* changed.
LEMMA FinishVouched ==
    ASSUME TypeOK, TypeOK', VouchInv, NEW base, NEW ns \in Nodes, NEW x,
           NEW A, Stage(base, ns, x, A),
           \A m \in NodeId \ A : base[m] = nodes[m],
           NEW auth \in Callers, NEW es, NEW ln \in Lineages,
           Finish(auth, ns, es, ln, A)
    PROVE  VouchInv'
<1>1. /\ nodes' = reevaluate(ns, A \cup {ln.cur}, lin', marks', publishers)
      /\ marks' = [marks EXCEPT !.store = @ + 1]
      /\ UNCHANGED sessionVars
  <2>1. nodes' = reevaluate(ns, A \cup {ln.cur}, lin', marks', publishers)
    BY FinishNodes
  <2> QED
    BY <2>1 DEF Finish
<1>2. marks.epoch # 0 /\ marks \in Marks
  BY DEF Callers, Authorized, TypeOK
<1>3. marks'.epoch = marks.epoch /\ marks' \in Marks
  BY <1>1, <1>2 DEF Marks, TypeOK
<1>4. Coherence(ns) /\ \A m \in NodeId \ A : ns[m] = nodes[m]
  BY DEF Stage
<1>5. ASSUME NEW m \in NodeId \ (A \cup {ln.cur})
      PROVE  Vouched(ns[m], marks', publishers, recovered)
  <2>1. Vouched(nodes[m], marks, publishers, recovered)
    BY DEF VouchInv
  <2>2. Vouched(nodes[m], marks', publishers, recovered)
    BY <1>1, <1>2, <2>1, StoreGenerationVouches
  <2> QED
    BY <1>4, <2>2
<1>6. publishers \in Sessions
  BY DEF TypeOK, Sessions
<1>7. \A m \in NodeId : Vouched(nodes'[m], marks', publishers, recovered)
  BY <1>1, <1>2, <1>3, <1>4, <1>5, <1>6, ReevaluateVouched
<1> QED
  BY <1>1, <1>2, <1>3, <1>7 DEF VouchInv, sessionVars

\* A step that recomputes the records in S.  The others keep their state, and
\* must be vouched for by what the step leaves.
LEMMA RecomputeVouched ==
    ASSUME TypeOK, TypeOK', StateInv, VouchInv, NEW S, marks'.epoch # 0,
           nodes' = reevaluate(nodes, S, lin, marks', publishers'),
           \A m \in Present(nodes) \ S :
              nodes[m].cur = "Current" =>
                 Vouched(nodes[m], marks', publishers', recovered')
    PROVE  VouchInv'
<1>1. nodes \in Nodes /\ Coherence(nodes)
  BY DEF TypeOK, Nodes, StateInv
<1>2. publishers' \in Sessions /\ marks' \in Marks
  BY DEF TypeOK, Sessions
<1>3. ASSUME NEW m \in NodeId \ S
      PROVE  Vouched(nodes[m], marks', publishers', recovered')
  <2>1. CASE m \in Present(nodes) /\ nodes[m].cur = "Current"
    BY <2>1
  <2>2. CASE m \notin Present(nodes)
    <3>1. nodes[m] = NoRecord
      BY <1>1, <2>2 DEF Present, Coherence, Coherent
    <3> QED
      BY <3>1 DEF Vouched, NoRecord
  <2>3. CASE nodes[m].cur # "Current"
    BY <2>3 DEF Vouched
  <2> QED
    BY <2>1, <2>2, <2>3
<1>4. \A m \in NodeId : Vouched(nodes'[m], marks', publishers', recovered')
  BY <1>1, <1>2, <1>3, ReevaluateVouched
<1> QED
  BY <1>4 DEF VouchInv

\* An epoch is established: no record loses what it relies on.
LEMMA EpochVouched ==
    ASSUME TypeOK, VouchInv, NEW epoch \in 1..MaxEpoch,
           EstablishEpoch(epoch), NEW m \in Present(nodes), NEW ps,
           nodes[m].cur = "Current" /\ ~nodes[m].reval =>
               publisher_state(ps, nodes[m].auth) = "Live"
    PROVE  Vouched(nodes[m], marks', ps, recovered)
<1>1. m \in NodeId /\ marks.epoch # 0 /\ marks \in Marks
  BY DEF VouchInv, Present, TypeOK
<1>2. /\ marks'.path = marks.path /\ marks'.policy = marks.policy
      /\ marks'.evidence = marks.evidence /\ marks'.epoch = epoch
  BY <1>1 DEF EstablishEpoch, Marks
<1>3. marks.epoch = epoch \/ recovered
  BY <1>1 DEF EstablishEpoch, EpochAccepted
<1>4. Vouched(nodes[m], marks, publishers, recovered)
  BY <1>1 DEF VouchInv
<1> QED
  BY <1>2, <1>3, <1>4 DEF Vouched

\* A registration reaches the records of the boots it supersedes.
LEMMA RegistrationVouched ==
    ASSUME TypeOK, TypeOK', StateInv, NothingHalfInserted, VouchInv,
           Registration
    PROVE  VouchInv'
<1>1. ASSUME NEW epoch \in 1..MaxEpoch, NEW p \in Publishers,
             NEW b \in Boots, register_publisher(p, b, epoch)
      PROVE  VouchInv'
  <2> DEFINE superseded == {c \in Boots \ {b} : publishers[<<p, c>>] = "Live"}
             S == OfBoots(superseded)
  <2>1. /\ EstablishEpoch(epoch)
        /\ nodes' = reevaluate(nodes, S, lin, marks', publishers')
        /\ recovered' = recovered
        /\ \A k \in Publishers \X Boots :
              publishers'[k] = IF k = <<p, b>> THEN "Live"
                               ELSE IF k[1] = p /\ k[2] \in superseded
                                    THEN "Fenced"
                               ELSE publishers[k]
    BY <1>1 DEF register_publisher
  <2>2. marks'.epoch # 0
    BY <2>1 DEF EstablishEpoch, TypeOK, Marks
  <2>3. ASSUME NEW m \in Present(nodes) \ S, nodes[m].cur = "Current"
        PROVE  Vouched(nodes[m], marks', publishers', recovered')
    <3> DEFINE k == <<nodes[m].auth.pub, nodes[m].auth.boot>>
    <3>1. nodes[m] \in Records /\ nodes[m].auth \in Authorities
      BY DEF Present, TypeOK, Records
    <3>2. nodes[m].auth.boot \notin superseded
      BY DEF OfBoots, NothingHalfInserted
    <3>3. ASSUME ~nodes[m].reval
          PROVE  publisher_state(publishers', nodes[m].auth) = "Live"
      <4>1. publisher_state(publishers, nodes[m].auth) = "Live"
        BY <2>3, <3>3 DEF VouchInv, Vouched, Present
      <4>2. /\ nodes[m].auth.pub # None /\ nodes[m].auth.boot # None
            /\ publishers[k] = "Live"
        BY <4>1 DEF publisher_state
      <4>3. k \in Publishers \X Boots /\ k[2] = nodes[m].auth.boot
        BY <3>1, <4>2 DEF Authorities
      <4>4. publishers'[k] = "Live"
        BY <2>1, <3>2, <4>2, <4>3
      <4> QED
        BY <4>2, <4>4 DEF publisher_state
    <3> QED
      BY <2>1, <3>3, EpochVouched
  <2> HIDE DEF S
  <2> QED
    BY <2>1, <2>2, <2>3, RecomputeVouched
<1>2. ASSUME NEW epoch \in 1..MaxEpoch, register_refused(epoch)
      PROVE  VouchInv'
  <2>1. /\ EstablishEpoch(epoch)
        /\ UNCHANGED <<nodes, publishers, recovered>>
    BY <1>2 DEF register_refused, graphVars
  <2>2. marks'.epoch # 0
    BY <2>1 DEF EstablishEpoch, TypeOK, Marks
  <2>3. ASSUME NEW m \in NodeId
        PROVE  Vouched(nodes[m], marks', publishers, recovered)
    <3>1. Vouched(nodes[m], marks, publishers, recovered)
      BY DEF VouchInv
    <3>2. CASE m \in Present(nodes)
      BY <2>1, <3>1, <3>2, EpochVouched DEF Vouched
    <3>3. CASE m \notin Present(nodes)
      <4>1. nodes[m] = NoRecord
        BY <3>3 DEF Present, StateInv, Coherence, Coherent
      <4> QED
        BY <4>1 DEF Vouched, NoRecord
    <3> QED
      BY <3>2, <3>3
  <2> QED
    BY <2>1, <2>2, <2>3 DEF VouchInv
<1> QED
  BY <1>1, <1>2 DEF Registration

\* A session that ends reaches the records of its boot.
LEMMA EndedSessionVouched ==
    ASSUME TypeOK, TypeOK', StateInv, NothingHalfInserted, VouchInv,
           NEW b \in Boots, marks'.epoch # 0,
           \/ marks' = marks
           \/ marks' = [marks EXCEPT !.store = @ + 1],
           \A k \in Publishers \X Boots :
              k[2] # b => publishers'[k] = publishers[k],
           recovered' = recovered,
           nodes' = reevaluate(nodes, OfBoots({b}), lin, marks', publishers')
    PROVE  VouchInv'
<1>1. ASSUME NEW m \in Present(nodes) \ OfBoots({b}),
             nodes[m].cur = "Current"
      PROVE  Vouched(nodes[m], marks', publishers', recovered')
  <2> DEFINE k == <<nodes[m].auth.pub, nodes[m].auth.boot>>
  <2>1. nodes[m] \in Records /\ nodes[m].auth \in Authorities /\ m \in NodeId
    BY DEF Present, TypeOK, Records
  <2>2. nodes[m].auth.boot # b
    BY DEF OfBoots, NothingHalfInserted
  <2>3. Vouched(nodes[m], marks, publishers, recovered)
    BY <2>1 DEF VouchInv
  <2>4. ASSUME ~nodes[m].reval
        PROVE  publisher_state(publishers', nodes[m].auth) = "Live"
    <3>1. publisher_state(publishers, nodes[m].auth) = "Live"
      BY <1>1, <2>3, <2>4 DEF Vouched
    <3>2. /\ nodes[m].auth.pub # None /\ nodes[m].auth.boot # None
          /\ publishers[k] = "Live"
      BY <3>1 DEF publisher_state
    <3>3. k \in Publishers \X Boots /\ k[2] = nodes[m].auth.boot
      BY <2>1, <3>2 DEF Authorities
    <3>4. publishers'[k] = "Live"
      BY <2>2, <3>2, <3>3
    <3> QED
      BY <3>2, <3>4 DEF publisher_state
  <2>5. Vouched(nodes[m], marks, publishers', recovered)
    BY <2>3, <2>4 DEF Vouched
  <2>6. marks \in Marks
    BY DEF TypeOK
  <2> QED
    BY <2>5, <2>6, StoreGenerationVouches
<1> QED
  BY <1>1, RecomputeVouched

\* An announcement mk reaches every record it takes something from.
LEMMA AnnounceVouched ==
    ASSUME TypeOK, TypeOK', StateInv, NothingHalfInserted, VouchInv,
           NEW mk \in Marks, mk.epoch # 0, NEW S, Announce(mk, S),
           \A m \in indexed \ S :
              Vouched(nodes[m], marks, publishers, recovered) =>
                 Vouched(nodes[m], mk, publishers, recovered)
    PROVE  VouchInv'
<1>1. /\ marks' = [mk EXCEPT !.store = @ + 1]
      /\ nodes' = reevaluate(nodes, S, lin, marks', publishers')
      /\ publishers' = publishers /\ recovered' = recovered
  BY DEF Announce, sessionVars
<1>2. marks'.epoch # 0
  BY <1>1 DEF Marks
<1>3. ASSUME NEW m \in Present(nodes) \ S
      PROVE  Vouched(nodes[m], marks', publishers', recovered')
  <2>1. m \in indexed \ S /\ m \in NodeId
    BY DEF NothingHalfInserted, Present
  <2>2. Vouched(nodes[m], mk, publishers, recovered)
    BY <2>1 DEF VouchInv
  <2> QED
    BY <1>1, <2>2, StoreGenerationVouches
<1> QED
  BY <1>1, <1>2, <1>3, RecomputeVouched

\* Every notification keeps the invariant.
LEMMA NotificationVouched ==
    ASSUME TypeOK, TypeOK', StateInv, NothingHalfInserted, VouchInv,
           Notification
    PROVE  VouchInv'
<1>1. marks.epoch # 0 /\ marks \in Marks
  BY DEF Notification, Callers, Authorized, TypeOK
<1>2. ASSUME NEW g \in 1..MaxMark, NotifyPathAuthority(g)
      PROVE  VouchInv'
  <2> DEFINE mk == [marks EXCEPT !.path = g]
             S  == {n \in indexed : Below(nodes[n].bind.path, g)}
  <2>1. Announce(mk, S)
    BY <1>2 DEF NotifyPathAuthority
  <2>2. /\ mk \in Marks /\ mk.epoch = marks.epoch /\ mk.path = g
        /\ mk.policy = marks.policy /\ mk.evidence = marks.evidence
    BY <1>1, StoreAssumption DEF Marks
  <2> HIDE DEF mk
  <2>3. \A m \in indexed \ S :
           Vouched(nodes[m], marks, publishers, recovered) =>
              Vouched(nodes[m], mk, publishers, recovered)
    BY <2>2 DEF Vouched
  <2> HIDE DEF S
  <2> QED
    BY <1>1, <2>1, <2>2, <2>3, AnnounceVouched
<1>3. ASSUME NEW g \in 1..MaxMark, NotifyPolicy(g)
      PROVE  VouchInv'
  <2> DEFINE mk == [marks EXCEPT !.policy = g]
             S  == {n \in indexed : \/ Below(nodes[n].bind.policy, g)
                                    \/ Below(nodes[n].bind.adPolicy, g)}
  <2>1. Announce(mk, S)
    BY <1>3 DEF NotifyPolicy
  <2>2. /\ mk \in Marks /\ mk.epoch = marks.epoch /\ mk.policy = g
        /\ mk.path = marks.path /\ mk.evidence = marks.evidence
    BY <1>1, StoreAssumption DEF Marks
  <2> HIDE DEF mk
  <2>3. \A m \in indexed \ S :
           Vouched(nodes[m], marks, publishers, recovered) =>
              Vouched(nodes[m], mk, publishers, recovered)
    BY <2>2 DEF Vouched
  <2> HIDE DEF S
  <2> QED
    BY <1>1, <2>1, <2>2, <2>3, AnnounceVouched
<1>4. ASSUME NEW g \in 1..MaxMark, NotifyEvidence(g)
      PROVE  VouchInv'
  <2> DEFINE mk == [marks EXCEPT !.evidence = g]
             S  == {n \in indexed : Below(nodes[n].bind.adEvidence, g)}
  <2>1. Announce(mk, S)
    BY <1>4 DEF NotifyEvidence
  <2>2. /\ mk \in Marks /\ mk.epoch = marks.epoch /\ mk.evidence = g
        /\ mk.path = marks.path /\ mk.policy = marks.policy
    BY <1>1, StoreAssumption DEF Marks
  <2> HIDE DEF mk
  <2>3. \A m \in indexed \ S :
           Vouched(nodes[m], marks, publishers, recovered) =>
              Vouched(nodes[m], mk, publishers, recovered)
    BY <2>2 DEF Vouched
  <2> HIDE DEF S
  <2> QED
    BY <1>1, <2>1, <2>2, <2>3, AnnounceVouched
<1>5. ASSUME NEW g \in 1..MaxMark, NotifyPlan(g)
      PROVE  VouchInv'
  <2> DEFINE mk == [marks EXCEPT !.plan = g]
  <2>1. Announce(mk, {})
    BY <1>5 DEF NotifyPlan
  <2>2. /\ mk \in Marks /\ mk.epoch = marks.epoch /\ mk.path = marks.path
        /\ mk.policy = marks.policy /\ mk.evidence = marks.evidence
    BY <1>1, StoreAssumption DEF Marks
  <2> HIDE DEF mk
  <2>3. \A m \in indexed \ {} :
           Vouched(nodes[m], marks, publishers, recovered) =>
              Vouched(nodes[m], mk, publishers, recovered)
    BY <2>2 DEF Vouched
  <2> QED
    BY <1>1, <2>1, <2>2, <2>3, AnnounceVouched
<1>6. ASSUME NEW epoch \in 1..MaxEpoch, advance_epoch(epoch)
      PROVE  VouchInv'
  <2> DEFINE mk == [marks EXCEPT !.epoch = epoch]
  <2>1. Announce(mk, indexed)
    BY <1>6 DEF advance_epoch
  <2>2. mk \in Marks /\ mk.epoch # 0
    BY <1>1, StoreAssumption DEF Marks
  <2> HIDE DEF mk
  <2> QED
    BY <2>1, <2>2, AnnounceVouched
<1>7. ASSUME NEW p \in Publishers, NEW b \in Boots, fence_publisher(p, b)
      PROVE  VouchInv'
  <2>1. /\ publishers' = [publishers EXCEPT ![<<p, b>>] = "Fenced"]
        /\ marks' = marks /\ recovered' = recovered
        /\ nodes' = reevaluate(nodes, OfBoots({b}), lin, marks', publishers')
    BY <1>7 DEF fence_publisher
  <2>2. \A k \in Publishers \X Boots :
           k[2] # b => publishers'[k] = publishers[k]
    BY <2>1 DEF TypeOK
  <2> QED
    BY <1>1, <2>1, <2>2, EndedSessionVouched
<1>8. ASSUME NEW p \in Publishers, NEW b \in Boots, NotifyWorkerFence(p, b)
      PROVE  VouchInv'
  <2> DEFINE s == publishers[<<p, b>>]
  <2>1. /\ publishers' = [publishers EXCEPT ![<<p, b>>] =
                             IF @ \in {"Unknown", "Fenced"} THEN @
                             ELSE "Down"]
        /\ marks' = [marks EXCEPT !.store = @ + 1]
        /\ recovered' = recovered
        /\ nodes' = IF s = "Unknown" THEN nodes
                    ELSE reevaluate(nodes, OfBoots({b}), lin, marks',
                                    publishers')
    BY <1>8 DEF NotifyWorkerFence
  <2>2. marks'.epoch = marks.epoch
    BY <1>1, <2>1 DEF Marks
  <2>3. CASE s # "Unknown"
    <3>1. \A k \in Publishers \X Boots :
             k[2] # b => publishers'[k] = publishers[k]
      BY <2>1 DEF TypeOK
    <3> QED
      BY <1>1, <2>1, <2>2, <2>3, <3>1, EndedSessionVouched
  <2>4. CASE s = "Unknown"
    <3>1. publishers' = publishers /\ nodes' = nodes
      BY <2>1, <2>4 DEF TypeOK
    <3>2. \A m \in NodeId : Vouched(nodes[m], marks', publishers, recovered)
      BY <1>1, <2>1, StoreGenerationVouches DEF VouchInv
    <3> QED
      BY <1>1, <2>1, <2>2, <3>1, <3>2 DEF VouchInv
  <2> QED
    BY <2>3, <2>4
<1> QED
  BY <1>2, <1>3, <1>4, <1>5, <1>6, <1>7, <1>8 DEF Notification

\* Compaction turns records into summaries, which are not CURRENT.
LEMMA CompactVouched ==
    ASSUME TypeOK, VouchInv, NEW auth \in Callers, NEW d, NEW S,
           Compact(auth, d, S)
    PROVE  VouchInv'
<1>1. /\ nodes' = [n \in NodeId |-> IF n \in S THEN Tombstone(nodes[n], auth)
                                    ELSE nodes[n]]
      /\ marks' = [marks EXCEPT !.store = @ + 1]
      /\ UNCHANGED sessionVars
  BY DEF Compact
<1>2. marks.epoch # 0 /\ marks \in Marks
  BY DEF Callers, Authorized, TypeOK
<1>3. marks'.epoch = marks.epoch
  BY <1>1, <1>2 DEF Marks
<1>4. ASSUME NEW m \in NodeId
      PROVE  Vouched(nodes'[m], marks', publishers, recovered)
  <2>1. CASE m \in S
    <3>1. nodes'[m] = Tombstone(nodes[m], auth) /\ nodes[m] \in Records
      BY <1>1, <2>1 DEF TypeOK
    <3>2. nodes'[m].cur = "HistoricalOnly"
      BY <3>1 DEF Tombstone, Records
    <3> QED
      BY <3>2 DEF Vouched
  <2>2. CASE m \notin S
    <3>1. nodes'[m] = nodes[m]
      BY <1>1, <2>2
    <3>2. Vouched(nodes[m], marks, publishers, recovered)
      BY DEF VouchInv
    <3> QED
      BY <1>1, <1>2, <3>1, <3>2, StoreGenerationVouches
  <2> QED
    BY <2>1, <2>2
<1> QED
  BY <1>1, <1>2, <1>3, <1>4 DEF VouchInv, sessionVars

\* A reload recomputes every record.
LEMMA RestartVouched ==
    ASSUME TypeOK, TypeOK', StateInv, VouchInv, Restart
    PROVE  VouchInv'
<1> DEFINE ns == [n \in NodeId |-> Demote(nodes[n])]
<1>1. /\ nodes' = reevaluate(ns, NodeId, lin', marks', publishers')
      /\ marks' = marks
      /\ recovered' = TRUE
  BY DEF Restart
<1>2. ns \in Nodes /\ Coherence(ns)
  BY DemoteStage DEF Stage
<1> HIDE DEF ns
<1>3. publishers' \in Sessions /\ marks' \in Marks
  BY DEF TypeOK, Sessions
<1>4. \A m \in NodeId : Vouched(nodes'[m], marks', publishers', recovered')
  BY <1>1, <1>2, <1>3, ReevaluateVouched
<1>5. \A m \in NodeId : nodes'[m].kind = nodes[m].kind
  BY RestartStage DEF Stage, Ages, Core
<1> QED
  BY <1>1, <1>4, <1>5 DEF VouchInv, Present

\* A call in another lineage of the route advances the store generation.
LEMMA ElsewhereVouched ==
    ASSUME TypeOK, VouchInv, Elsewhere
    PROVE  VouchInv'
<1>1. /\ UNCHANGED <<nodes, publishers, recovered>>
      /\ marks'.path = marks.path /\ marks'.policy = marks.policy
      /\ marks'.evidence = marks.evidence /\ marks'.epoch = marks.epoch
  BY ElsewhereKeeps
<1> QED
  BY <1>1 DEF VouchInv, Vouched

\* The invariant is inductive.  Only the steps that look records up in an
\* index need NothingHalfInserted.
LEMMA StepVouched ==
    ASSUME TypeOK, TypeOK', CurrentRecord, StateInv, NothingHalfInserted,
           VouchInv, [Next]_vars
    PROVE  VouchInv'
<1>0. nodes \in Nodes /\ Coherence(nodes) /\ lin \in Lineages
  BY DEF TypeOK, Nodes, StateInv
<1>1. CASE Committing
  <2>1. PICK auth \in Callers, n \in NodeId, r \in Records, ns \in Nodes,
             ln \in Lineages : \E x, A : CommitForm(auth, n, r, x, ns, ln, A)
    BY <1>1 DEF Committing
  <2>2. PICK x, A : CommitForm(auth, n, r, x, ns, ln, A)
    BY <2>1
  <2>3. PICK es : Finish(auth, ns, es, ln, A)
    BY <2>2 DEF CommitForm
  <2>4. Stage(add_node(n, r), ns, x, A) /\ n \in A
    BY <2>2 DEF CommitForm
  <2>5. \A m \in NodeId \ A : add_node(n, r)[m] = nodes[m]
    BY <1>0, <2>4 DEF add_node, Nodes
  <2> QED
    BY <2>3, <2>4, <2>5, FinishVouched
<1>2. CASE Linking
  <2>1. PICK auth \in Callers, ns \in Nodes :
           \E x, A : /\ Stage(nodes, ns, x, A)
                     /\ \E es : Finish(auth, ns, es, lin, A)
    BY <1>2 DEF Linking
  <2>2. PICK x, A : /\ Stage(nodes, ns, x, A)
                    /\ \E es : Finish(auth, ns, es, lin, A)
    BY <2>1
  <2>3. PICK es : Finish(auth, ns, es, lin, A)
    BY <2>2
  <2> QED
    BY <1>0, <2>2, <2>3, FinishVouched
<1>3. CASE HalfCommitting
  <2>1. PICK auth \in Callers, n \in NodeId, r \in Records :
           /\ Built(r, auth)
           /\ nodes' = add_node(n, r)
           /\ UNCHANGED <<marks, sessionVars>>
    BY <1>3 DEF HalfCommitting
  <2>2. marks.epoch # 0
    BY DEF Callers, Authorized
  <2>3. ASSUME NEW m \in NodeId
        PROVE  Vouched(nodes'[m], marks, publishers, recovered)
    <3>1. nodes'[m] = nodes[m] \/ nodes'[m] = r
      BY <1>0, <2>1 DEF add_node, Nodes
    <3> QED
      BY <2>1, <3>1 DEF VouchInv, Vouched, Built
  <2> QED
    BY <2>1, <2>2, <2>3 DEF VouchInv, sessionVars
<1>4. CASE \E auth \in Callers : \E d, S : Compact(auth, d, S)
  BY <1>4, CompactVouched
<1>5. CASE Registration
  BY <1>5, RegistrationVouched
<1>6. CASE Notification
  BY <1>6, NotificationVouched
<1>7. CASE Restart
  BY <1>7, RestartVouched
<1>8. CASE Elsewhere
  BY <1>8, ElsewhereVouched
<1>9. CASE UNCHANGED vars
  BY <1>9 DEF vars, VouchInv
<1> QED
  BY <1>0, <1>1, <1>2, <1>3, <1>4, <1>5, <1>6, <1>7, <1>8, <1>9, StepForms

\* It holds while nothing is left half inserted.
LEMMA VouchInvariance == Spec /\ []NothingHalfInserted => []VouchInv
<1>1. Init => VouchInv
  <2> SUFFICES ASSUME Init
               PROVE  VouchInv
    OBVIOUS
  <2>1. \A m \in NodeId : nodes[m] = NoRecord
    BY DEF Init
  <2>2. Present(nodes) = {}
    BY <2>1 DEF Present, NoRecord
  <2>3. NoRecord.cur = "HistoricalOnly"
    BY DEF NoRecord
  <2> QED
    BY <2>1, <2>2, <2>3 DEF VouchInv, Vouched
<1>2. /\ TypeOK /\ TypeOK' /\ CurrentRecord /\ StateInv
      /\ NothingHalfInserted /\ VouchInv /\ [Next]_vars
      => VouchInv'
  BY StepVouched
<1> QED
  BY <1>1, <1>2, TypeCorrect, CurrentRecordHolds, StateInvariance, PTL
     DEF Spec

\* While nothing is left half inserted, a CURRENT record that nobody
\* revalidated has a live session, through fences, superseding boots, worker
\* fences and reloads.
THEOREM CurrentIsVouched ==
    Spec /\ []NothingHalfInserted => []CurrentIsVouchedFor
<1>1. VouchInv => CurrentIsVouchedFor
  <2> SUFFICES ASSUME VouchInv, NEW n \in NodeId,
                      nodes[n].cur = "Current", ~nodes[n].reval
               PROVE  publishers[<<nodes[n].auth.pub, nodes[n].auth.boot>>]
                         = "Live"
    BY DEF CurrentIsVouchedFor
  <2>1. publisher_state(publishers, nodes[n].auth) = "Live"
    BY DEF VouchInv, Vouched
  <2> QED
    BY <2>1 DEF publisher_state
<1> QED
  BY <1>1, VouchInvariance, PTL

\* While nothing is left half inserted, no CURRENT record is bound below an
\* announced generation or, until a reload, to an older epoch.
THEOREM SupersededIsNeverCurrent ==
    Spec /\ []NothingHalfInserted => []SupersededIsNotCurrent
<1>1. VouchInv => SupersededIsNotCurrent
  BY DEF VouchInv, Vouched, SupersededIsNotCurrent
<1> QED
  BY <1>1, VouchInvariance, PTL

-----------------------------------------------------------------------------
(* Refinement *)

\* A complete commit is a step of the abstract lineage or leaves it alone.
\* While the route has one lineage the generation it publishes is later than
\* the current one, because the index holds the current one.
LEMMA CommitRefines ==
    ASSUME TypeOK, CurrentRecord, RegistryInv, NEW auth \in Callers,
           NEW n \in NodeId, NEW r \in Records, NEW x, NEW ns \in Nodes,
           NEW ln \in Lineages, NEW A, CommitForm(auth, n, r, x, ns, ln, A)
    PROVE  Lineage!Next \/ UNCHANGED <<lin.life, lin.gen, shared>>
<1>1. /\ Admitted(auth)
      /\ Advances(n, r, ln) \/ Remains(n, r, ln)
      /\ shared' = shared
  BY DEF CommitForm, Indexes
<1>2. lin'.life = ln.life /\ lin'.gen = ln.gen
  <2>1. PICK es : Finish(auth, ns, es, ln, A)
    BY DEF CommitForm
  <2> QED
    BY <2>1, FinishNodes
<1>3. lin.life \in {"Active", "Withdrawn"}
  BY <1>1 DEF Admitted, TypeOK, Lineages, LineageLifecycles
<1>4. Lineage!Open
  BY <1>3 DEF Lineage!Open
<1>5. CASE Advances(n, r, ln)
  <2>1. lin.gen \in Nat /\ r.gen \in Nat
    BY StoreAssumption DEF TypeOK, Lineages, Records
  <2>2. r.gen # lin.gen \/ shared
    <3>1. CASE lin.gen = 0
      BY <1>5, <3>1 DEF Advances
    <3>2. CASE lin.gen # 0
      <4>1. lin.gen \in genIndex \/ shared
        BY <3>2 DEF CurrentRecord, RegistryInv, IndexComplete
      <4> QED
        BY <1>5, <4>1 DEF Advances
    <3> QED
      BY <3>1, <3>2
  <2>3. /\ lin'.gen = r.gen /\ lin'.gen \in Nat
        /\ lin'.gen > lin.gen \/ r.gen = lin.gen
    BY <1>2, <1>5, <2>1 DEF Advances
  <2>4. lin'.life = "Active"
    BY <1>2, <1>3, <1>5 DEF Advances
  <2>5. lin'.gen > lin.gen \/ (shared /\ lin'.gen = lin.gen)
    BY <2>2, <2>3, Zenon
  <2> QED
    BY <1>1, <1>4, <2>3, <2>4, <2>5 DEF Lineage!Next, Lineage!Publish
<1>6. CASE Remains(n, r, ln)
  <2>1. lin'.gen = lin.gen
    BY <1>2, <1>6 DEF Remains
  <2>2. CASE lin'.life = lin.life
    BY <1>1, <2>1, <2>2
  <2>3. CASE lin'.life \in {"Withdrawn", "Revoked", "Retired"}
    BY <1>1, <1>4, <2>1, <2>3 DEF Lineage!Next, Lineage!End
  <2> QED
    BY <1>2, <1>6, <2>2, <2>3 DEF Remains
<1> QED
  BY <1>1, <1>5, <1>6

\* So is every other step.
LEMMA StepRefines ==
    ASSUME TypeOK, CurrentRecord, StateInv, RegistryInv, [Next]_vars
    PROVE  Lineage!Next \/ UNCHANGED <<lin.life, lin.gen, shared>>
<1>0. lin \in Lineages /\ Coherence(nodes)
  BY DEF TypeOK, StateInv
<1>1. CASE Committing
  BY <1>1, CommitRefines DEF Committing
<1>2. CASE Linking
  <2>1. PICK auth, ns, A, es : Finish(auth, ns, es, lin, A)
    BY <1>2 DEF Linking
  <2>2. shared' = shared
    BY <1>2 DEF Linking, indexVars
  <2> QED
    BY <1>0, <2>1, <2>2, FinishNodes
<1>3. CASE HalfCommitting
  BY <1>3 DEF HalfCommitting, lineageVars, indexVars
<1>4. CASE \E auth \in Callers : \E d, S : Compact(auth, d, S)
  BY <1>0, <1>4 DEF Compact, Lineages, indexVars
<1>5. CASE Registration
  <2>1. shared' = shared
    BY <1>5 DEF Registration, register_publisher, register_refused, indexVars
  <2> QED
    BY <1>5, <2>1, RegistrationQuiet DEF Quiet, SameHead
<1>6. CASE Notification
  <2>1. UNCHANGED indexVars
    BY <1>6 DEF Notification, NotifyPathAuthority, NotifyPolicy,
                NotifyEvidence, NotifyPlan, advance_epoch, Announce,
                fence_publisher, NotifyWorkerFence
  <2> QED
    BY <1>6, <2>1, NotificationQuiet DEF Quiet, SameHead, indexVars
<1>7. CASE Restart
  <2>1. shared' = shared
    BY <1>7 DEF Restart
  <2> QED
    BY <1>7, <2>1, RestartQuiet DEF Quiet, SameHead
<1>8. CASE Elsewhere
  BY <1>8, ElsewhereKeeps DEF Lineage!Next, Lineage!Share
<1>9. CASE UNCHANGED vars
  BY <1>9 DEF vars
<1> QED
  BY <1>0, <1>1, <1>2, <1>3, <1>4, <1>5, <1>6, <1>7, <1>8, <1>9, StepForms

\* While nothing is left half inserted, the store implements the abstract
\* lineage: published generations strictly increase, through withdrawals,
\* corrections, compactions and reloads, until another lineage shares the
\* route, and never decrease; an ended lineage stays ended.
THEOREM StoreRefinesRouteLineage ==
    Spec /\ []NothingHalfInserted => RefinesRouteLineage
<1>1. Init => Lineage!Init
  BY DEF Init, Lineage!Init
<1>2. TypeOK /\ CurrentRecord /\ StateInv /\ RegistryInv /\ [Next]_vars
      => [Lineage!Next]_<<lin.life, lin.gen, shared>>
  BY StepRefines
<1> QED
  BY <1>1, <1>2, TypeCorrect, CurrentRecordHolds, StateInvariance,
     RegistryInvariance, PTL DEF Spec, RefinesRouteLineage, Lineage!Spec

-----------------------------------------------------------------------------
(* When nothing is left half inserted *)

\* Publications attach no edge that points to their own record.
OutgoingSpecs == \A type \in SpecTypes : edge_from_new_node(type)

\* Every record has room for the edges of one more call.
HasRoom ==
    \A n \in NodeId, k \in 1..MaxSpecs \cup {1} :
        /\ incoming_count(edges, n) + k <= Limits.parents
        /\ outgoing_count(edges, n) + k <= Limits.children

\* The edges that a list of specs stands for.
LEMMA EdgeListLength ==
    ASSUME NEW n, NEW specs, Len(specs) \in Nat, NEW auth
    PROVE  /\ Len(EdgeList(n, specs, auth)) = Len(specs)
           /\ \A i \in 1..Len(specs) :
                 EdgeList(n, specs, auth)[i] = EdgeOf(n, specs[i], auth)
<1> DEFINE es == EdgeList(n, specs, auth)
           T  == {EdgeOf(n, specs[i], auth) : i \in 1..Len(specs)}
<1>1. es \in [1..Len(specs) -> T]
  BY DEF EdgeList
<1>2. \A i \in 1..Len(specs) : es[i] = EdgeOf(n, specs[i], auth)
  BY DEF EdgeList
<1> HIDE DEF es, T
<1>3. es \in Seq(T)
  BY <1>1, SeqDef
<1>4. Len(es) = Len(specs)
  BY <1>1, <1>3, LenProperties
<1> QED
  BY <1>2, <1>4 DEF es

\* Inserting j edges adds at most j.
LEMMA EdgesAfterCount ==
    ASSUME NEW es, IsFiniteSet(es), NEW s, NEW j \in Nat
    PROVE  /\ IsFiniteSet(EdgesAfter(es, s, j))
           /\ Cardinality(EdgesAfter(es, s, j)) <= Cardinality(es) + j
<1> DEFINE T == {s[i] : i \in 1..j}
           f == [i \in 1..j |-> s[i]]
<1>1. f \in Surjection(1..j, T)
  <2>1. f \in [1..j -> T]
    OBVIOUS
  <2>2. \A y \in T : \E i \in 1..j : f[i] = y
    OBVIOUS
  <2> HIDE DEF f, T
  <2> QED
    BY <2>1, <2>2 DEF Surjection
<1>2. IsFiniteSet(1..j) /\ Cardinality(1..j) = j
  BY FS_Interval
<1> HIDE DEF f
<1>3. IsFiniteSet(T) /\ Cardinality(T) <= j
  <2> HIDE DEF T
  <2> QED
    BY <1>1, <1>2, FS_Surjection
<1>4. EdgesAfter(es, s, j) = es \cup T
  BY DEF EdgesAfter
<1> HIDE DEF T
<1>5. IsFiniteSet(es \cap T)
  BY <1>3, FS_Subset
<1>6. /\ IsFiniteSet(es \cup T)
      /\ Cardinality(es \cup T) =
            Cardinality(es) + Cardinality(T) - Cardinality(es \cap T)
  BY <1>3, FS_Union
<1>7. /\ Cardinality(es) \in Nat /\ Cardinality(T) \in Nat
      /\ Cardinality(es \cap T) \in Nat
  BY <1>3, <1>5, FS_CardinalityType
<1> QED
  BY <1>3, <1>4, <1>6, <1>7

\* So every record gains at most j on either side.
LEMMA DegreeAfter ==
    ASSUME NEW es, IsFiniteSet(es), NEW s, NEW j \in Nat, NEW m
    PROVE  /\ incoming_count(EdgesAfter(es, s, j), m)
                 <= incoming_count(es, m) + j
           /\ outgoing_count(EdgesAfter(es, s, j), m)
                 <= outgoing_count(es, m) + j
<1>1. ASSUME NEW C, NEW D, C \subseteq es, D \subseteq EdgesAfter(C, s, j)
      PROVE  Cardinality(D) <= Cardinality(C) + j
  <2>1. IsFiniteSet(C)
    BY <1>1, FS_Subset
  <2>2. /\ IsFiniteSet(EdgesAfter(C, s, j))
        /\ Cardinality(EdgesAfter(C, s, j)) <= Cardinality(C) + j
    BY <2>1, EdgesAfterCount
  <2>3. /\ IsFiniteSet(D)
        /\ Cardinality(D) <= Cardinality(EdgesAfter(C, s, j))
    BY <1>1, <2>2, FS_Subset
  <2>4. /\ Cardinality(C) \in Nat /\ Cardinality(D) \in Nat
        /\ Cardinality(EdgesAfter(C, s, j)) \in Nat
    BY <2>1, <2>2, <2>3, FS_CardinalityType
  <2> QED
    BY <2>2, <2>3, <2>4
<1>2. /\ {f \in EdgesAfter(es, s, j) : f.to = m}
            \subseteq EdgesAfter({f \in es : f.to = m}, s, j)
      /\ {f \in EdgesAfter(es, s, j) : f.from = m}
            \subseteq EdgesAfter({f \in es : f.from = m}, s, j)
  BY DEF EdgesAfter
<1>3. {f \in es : f.to = m} \subseteq es /\ {f \in es : f.from = m} \subseteq es
  OBVIOUS
<1> QED
  BY <1>1, <1>2, <1>3 DEF incoming_count, outgoing_count

\* Then the insertion of a new record's edges does not stop.
LEMMA NothingStops ==
    ASSUME HasRoom, GraphInv, nodes \in Nodes,
           NEW n \in NodeId \ Present(nodes),
           NEW r \in Records, r.kind # "Absent", NEW auth, NEW specs,
           Len(specs) \in Nat, 1..Len(specs) \subseteq 1..MaxSpecs \cup {1},
           \/ \A i \in 1..Len(specs) : edge_from_new_node(specs[i].type)
           \/ Len(specs) = 1,
           SpecsValid(n, r, specs),
           Cardinality(edges) + Len(specs) <= Limits.edges,
           PartialCommit(n, r, EdgeList(n, specs, auth))
    PROVE  FALSE
<1> DEFINE es == EdgeList(n, specs, auth)
           ns == add_node(n, r)
<1>0. /\ Len(es) = Len(specs)
      /\ \A i \in 1..Len(specs) : es[i] = EdgeOf(n, specs[i], auth)
  BY EdgeListLength
<1>1. PICK k \in 1..Len(es) : InsertionStopsAt(ns, edges, es, k)
  BY DEF PartialCommit
<1> DEFINE t == specs[k].target
           before == EdgesAfter(edges, es, k - 1)
           e == es[k]
<1>2. /\ k \in 1..Len(specs) /\ k - 1 \in Nat
      /\ e = EdgeOf(n, specs[k], auth)
  BY <1>0, <1>1
<1>3. t \in Present(nodes) /\ t # n /\ t \in NodeId
  BY <1>2 DEF SpecsValid, Present
<1>4. /\ {e.from, e.to} = {n, t}
      /\ e.from = IF edge_from_new_node(specs[k].type) THEN n ELSE t
      /\ e.to = IF edge_from_new_node(specs[k].type) THEN t ELSE n
  BY <1>2 DEF EdgeOf
<1>5. IsFiniteSet(edges) /\ \A f \in edges : {f.from, f.to}
                                                \subseteq Present(nodes)
  BY DEF GraphInv, SoundGraph
<1>6. /\ IsFiniteSet(before)
      /\ Cardinality(before) <= Cardinality(edges) + (k - 1)
  BY <1>2, <1>5, EdgesAfterCount
<1>7. /\ Limits.edges \in Nat /\ Limits.parents \in Nat
      /\ Limits.children \in Nat
  BY LimitsAreValid
<1>8. Cardinality(before) < Limits.edges
  <2>1. Cardinality(before) \in Nat /\ Cardinality(edges) \in Nat
    BY <1>5, <1>6, FS_CardinalityType
  <2> HIDE DEF before
  <2> QED
    BY <1>2, <1>6, <1>7, <2>1
<1>9. {e.from, e.to} \subseteq Present(ns)
  BY <1>3, <1>4 DEF add_node, Present, Nodes
<1>10. /\ incoming_count(before, e.to) < Limits.parents
       /\ outgoing_count(before, e.from) < Limits.children
  <2>1. e.to \in NodeId /\ e.from \in NodeId /\ k \in 1..MaxSpecs \cup {1}
    BY <1>2, <1>3, <1>4
  <2> HIDE DEF e
  <2>2. /\ incoming_count(before, e.to)
              <= incoming_count(edges, e.to) + (k - 1)
        /\ outgoing_count(before, e.from)
              <= outgoing_count(edges, e.from) + (k - 1)
    BY <1>2, <1>5, DegreeAfter
  <2>3. /\ incoming_count(edges, e.to) + k <= Limits.parents
        /\ outgoing_count(edges, e.from) + k <= Limits.children
    BY <2>1 DEF HasRoom
  <2>4. /\ incoming_count(edges, e.to) \in Nat
        /\ outgoing_count(edges, e.from) \in Nat
    <3>1. /\ IsFiniteSet({f \in edges : f.to = e.to})
          /\ IsFiniteSet({f \in edges : f.from = e.from})
      BY <1>5, FS_Subset
    <3> QED
      BY <3>1, FS_CardinalityType DEF incoming_count, outgoing_count
  <2>5. /\ incoming_count(before, e.to) \in Nat
        /\ outgoing_count(before, e.from) \in Nat
    <3> HIDE DEF before
    <3>1. /\ IsFiniteSet({f \in before : f.to = e.to})
          /\ IsFiniteSet({f \in before : f.from = e.from})
      BY <1>6, FS_Subset
    <3> QED
      BY <3>1, FS_CardinalityType DEF incoming_count, outgoing_count
  <2> HIDE DEF before
  <2> QED
    BY <1>2, <1>7, <2>2, <2>3, <2>4, <2>5
<1>11. check_add_edge(before, e)
  <2>1. \A f \in before : f \in edges \/ \E i \in 1..(k - 1) : f = es[i]
    BY DEF EdgesAfter
  <2>2. CASE edge_from_new_node(specs[k].type)
    <3> DEFINE S == NodeId \ {n}
    <3>1. ClosedUnder(before, S)
      <4> SUFFICES ASSUME NEW f \in before, f.from \in S
                   PROVE  f.to \in S
        BY DEF ClosedUnder
      <4>1. CASE f \in edges
        BY <1>5, <4>1 DEF Present
      <4>2. ASSUME NEW i \in 1..(k - 1), f = es[i]
            PROVE  FALSE
        <5>1. i \in 1..Len(specs) /\ edge_from_new_node(specs[i].type)
          BY <1>2, <4>2
        <5>2. f.from = n
          <6>1. f = EdgeOf(n, specs[i], auth)
            BY <1>0, <4>2, <5>1
          <6> QED
            BY <5>1, <6>1 DEF EdgeOf
        <5> QED
          BY <5>2
      <4> QED
        BY <2>1, <4>1, <4>2
    <3>2. e.from = n /\ e.to = t
      BY <1>4, <2>2
    <3>3. S \in SUBSET NodeId /\ t \in S /\ n \notin S
      BY <1>3
    <3> HIDE DEF S, before, e, t
    <3> QED
      BY <3>1, <3>2, <3>3 DEF check_add_edge, Reaches
  <2>3. CASE ~edge_from_new_node(specs[k].type)
    <3>1. Len(specs) = 1 /\ k = 1
      BY <1>2, <2>3
    <3>2. before = edges
      BY <2>1, <3>1 DEF EdgesAfter
    <3>3. ClosedUnder(before, {n})
      BY <1>5, <3>2 DEF ClosedUnder
    <3>4. e.from = t /\ e.to = n
      BY <1>4, <2>3
    <3> HIDE DEF before, e, t
    <3> QED
      BY <1>3, <3>3, <3>4 DEF check_add_edge, Reaches
  <2> QED
    BY <2>2, <2>3
<1>12. ~add_edge_ok(ns, before, e)
  BY <1>1 DEF InsertionStopsAt
<1> QED
  BY <1>8, <1>9, <1>10, <1>11, <1>12 DEF add_edge_ok

\* So every step leaves all recorded records in the indexes.
LEMMA StepComplete ==
    ASSUME OutgoingSpecs, HasRoom, TypeOK, CurrentRecord, StateInv, GraphInv,
           RegistryInv, NothingHalfInserted, [Next]_vars
    PROVE  NothingHalfInserted'
<1>0. nodes \in Nodes /\ Coherence(nodes) /\ lin \in Lineages
  BY DEF TypeOK, Nodes, StateInv
<1>1. ASSUME NEW auth \in Callers, NEW n \in NodeId, NEW r \in Records,
             NEW x, NEW ns \in Nodes, NEW ln \in Lineages, NEW A,
             CommitForm(auth, n, r, x, ns, ln, A)
      PROVE  NothingHalfInserted'
  <2>1. /\ Built(r, auth) /\ Admitted(auth) /\ IdentityOf(r, n)
        /\ Stage(add_node(n, r), ns, x, A)
        /\ Indexes(n, r)
    BY <1>1 DEF CommitForm
  <2>2. n \notin Present(nodes)
    BY <2>1, CommitIsNew
  <2>3. indexed \cup {n} \subseteq indexed'
    BY <2>1, <2>2 DEF Indexes
  <2>4. PICK es : Finish(auth, ns, es, ln, A)
    BY <1>1 DEF CommitForm
  <2> DEFINE base == add_node(n, r)
  <2>5. Stage(base, ns, x, A)
    BY <2>1
  <2>6. \A m \in NodeId \ {n} : base[m] = nodes[m]
    BY <1>0 DEF add_node, Nodes
  <2> HIDE DEF base
  <2>7. Stage(base, nodes', x, A \cup {ln.cur})
    BY <2>4, <2>5, FinishStage
  <2>8. \A m \in NodeId \ {n} : nodes'[m].kind = nodes[m].kind
    BY <2>6, <2>7 DEF Stage, Ages, Core
  <2> QED
    BY <2>3, <2>8 DEF NothingHalfInserted, Present
<1>2. CASE Linking
  <2>1. PICK auth \in Callers, ns \in Nodes :
           /\ \E x, A : /\ Stage(nodes, ns, x, A)
                        /\ \E es : Finish(auth, ns, es, lin, A)
           /\ UNCHANGED indexVars
    BY <1>2 DEF Linking
  <2>2. PICK x, A : /\ Stage(nodes, ns, x, A)
                    /\ \E es : Finish(auth, ns, es, lin, A)
    BY <2>1
  <2>3. PICK es : Finish(auth, ns, es, lin, A)
    BY <2>2
  <2>4. Stage(nodes, nodes', x, A \cup {lin.cur})
    BY <1>0, <2>2, <2>3, FinishStage
  <2>5. \A m \in NodeId : nodes'[m].kind = nodes[m].kind
    BY <2>4 DEF Stage, Ages, Core
  <2> QED
    BY <2>1, <2>5 DEF NothingHalfInserted, Present, indexVars
<1>3. CASE HalfCommitting
  <2>1. PICK auth \in Callers, n \in NodeId, r \in Records :
           /\ Built(r, auth) /\ Admitted(auth) /\ IdentityOf(r, n)
           /\ \E specs : /\ Acceptable(auth, n, r, specs)
                         /\ specs \in SpecLists \/ Len(specs) = 1
                         /\ PartialCommit(n, r, EdgeList(n, specs, auth))
    BY <1>3 DEF HalfCommitting
  <2>2. PICK specs : /\ Acceptable(auth, n, r, specs)
                     /\ specs \in SpecLists \/ Len(specs) = 1
                     /\ PartialCommit(n, r, EdgeList(n, specs, auth))
    BY <2>1
  <2>3. n \in NodeId \ Present(nodes) /\ r.kind # "Absent"
    BY <2>1, CommitIsNew DEF Built, NodeKinds
  <2>4. /\ SpecsValid(n, r, specs)
        /\ Cardinality(edges) + Len(specs) <= Limits.edges
    BY <2>2 DEF Acceptable, WithinLimits
  <2>5. /\ Len(specs) \in Nat
        /\ 1..Len(specs) \subseteq 1..MaxSpecs \cup {1}
        /\ \/ \A i \in 1..Len(specs) : edge_from_new_node(specs[i].type)
           \/ Len(specs) = 1
    <3>1. CASE specs \in SpecLists
      <4>1. specs \in Seq([type : EdgeTypes, target : NodeId])
        BY <3>1, SpecListsType
      <4>2. PICK k \in 0..MaxSpecs :
               specs \in [1..k -> [type : SpecTypes,
                                   target : Present(nodes)]]
        BY <3>1 DEF SpecLists
      <4>3. Len(specs) = k /\ Len(specs) \in Nat
        BY <4>1, <4>2, LenProperties, StoreAssumption
      <4> QED
        BY <4>2, <4>3, StoreAssumption DEF OutgoingSpecs
    <3>2. CASE Len(specs) = 1
      <4>1. 1..1 = {1}
        OBVIOUS
      <4> QED
        BY <3>2, <4>1
    <3> QED
      BY <2>2, <3>1, <3>2
  <2> QED
    BY <1>0, <2>2, <2>3, <2>4, <2>5, NothingStops
<1>4. ASSUME NEW auth, NEW d, NEW S, Compact(auth, d, S)
      PROVE  NothingHalfInserted'
  <2>1. /\ nodes' = [n \in NodeId |-> IF n \in S
                                      THEN Tombstone(nodes[n], auth)
                                      ELSE nodes[n]]
        /\ S \subseteq Present(nodes)
        /\ UNCHANGED indexVars
    BY <1>4 DEF Compact, CompactionCandidates, Present,
                node_is_history_record, NodeKinds
  <2>2. \A m \in NodeId \ S : nodes'[m] = nodes[m]
    BY <2>1
  <2> QED
    BY <2>1, <2>2 DEF NothingHalfInserted, Present, indexVars
<1>5. ASSUME Quiet, UNCHANGED indexVars
      PROVE  NothingHalfInserted'
  <2>1. Present(nodes') = Present(nodes)
    BY <1>5, SameCoresPresent DEF Quiet
  <2> QED
    BY <1>5, <2>1 DEF NothingHalfInserted, indexVars
<1>6. CASE Registration
  <2>1. UNCHANGED indexVars
    BY <1>6 DEF Registration, register_publisher, register_refused
  <2> QED
    BY <1>5, <1>6, <2>1, RegistrationQuiet
<1>7. CASE Notification
  <2>1. UNCHANGED indexVars
    BY <1>7 DEF Notification, NotifyPathAuthority, NotifyPolicy,
                NotifyEvidence, NotifyPlan, advance_epoch, Announce,
                fence_publisher, NotifyWorkerFence
  <2> QED
    BY <1>5, <1>7, <2>1, NotificationQuiet
<1>8. CASE Restart
  <2>1. Present(nodes') = Present(nodes)
    BY <1>8, RestartQuiet, SameCoresPresent DEF Quiet
  <2>2. indexed' = Present(nodes)
    BY <1>8 DEF Restart
  <2> QED
    BY <2>1, <2>2 DEF NothingHalfInserted
<1>9. CASE UNCHANGED vars
  BY <1>9 DEF vars, NothingHalfInserted
<1>10. CASE Committing
  BY <1>1, <1>10 DEF Committing
<1>11. CASE Elsewhere
  BY <1>11, ElsewhereKeeps DEF NothingHalfInserted
<1> QED
  BY <1>0, <1>2, <1>3, <1>4, <1>6, <1>7, <1>8, <1>9, <1>10, <1>11, StepForms

\* While every record has room for the edges of one more call, no commit stops
\* half way: the theorems above hold of such a behaviour.
THEOREM RoomyGraphsComplete ==
    ASSUME OutgoingSpecs
    PROVE  Spec /\ []HasRoom => []NothingHalfInserted
<1>1. Init => RegistryInv /\ NothingHalfInserted
  <2>1. Init => NothingHalfInserted
    BY DEF Init, NothingHalfInserted, Present, NoRecord
  <2> QED
    BY <2>1, InitRegistry
<1>2. /\ HasRoom /\ TypeOK /\ CurrentRecord /\ StateInv /\ GraphInv
      /\ RegistryInv /\ NothingHalfInserted /\ [Next]_vars
      => (RegistryInv /\ NothingHalfInserted)'
  <2> SUFFICES ASSUME HasRoom, TypeOK, CurrentRecord, StateInv, GraphInv,
                      RegistryInv, NothingHalfInserted, [Next]_vars
               PROVE  RegistryInv' /\ NothingHalfInserted'
    OBVIOUS
  <2>1. NothingHalfInserted'
    BY StepComplete
  <2> QED
    BY <2>1, StepRegistry
<1> QED
  BY <1>1, <1>2, TypeCorrect, CurrentRecordHolds, StateInvariance,
     GraphInvariance, PTL DEF Spec

=============================================================================
