----------------------- MODULE ProvenanceStore_proofs -----------------------
(***************************************************************************)
(* Theorems about ProvenanceStore, for every value of its constants: its   *)
(* types, and what a step does to recorded history.                        *)
(***************************************************************************)
EXTENDS ProvenanceStore, FiniteSetTheorems, SequenceTheorems, TLAPS

Specs == [type : SpecTypes, target : NodeId]
Nodes == [NodeId -> Records]

-----------------------------------------------------------------------------
(* The operators the actions are built from *)

\* The currentness function is total: whatever the states, it returns one of
\* the nine documented values.
LEMMA CurrentnessType ==
    ASSUME NEW ln, NEW r, NEW mk, NEW s
    PROVE  compute_currentness(ln, r, mk, s) \in CurrentnessValues
BY DEF compute_currentness, CurrentnessValues

\* The bounded history counter is a natural number.
LEMMA HistoryCountType ==
    ASSUME NEW ns
    PROVE  HistoryCount(ns) \in Nat
<1>1. {n \in NodeId : node_is_history_record(ns[n])} \subseteq NodeId
  OBVIOUS
<1>2. IsFiniteSet({n \in NodeId : node_is_history_record(ns[n])})
  BY <1>1, NodeIdAssumption, FS_Subset
<1> QED
  BY <1>2, FS_CardinalityType DEF HistoryCount

\* Recomputing currentness keeps the records well formed.
LEMMA ReevaluateType ==
    ASSUME NEW ns \in Nodes, NEW S, NEW ln, NEW mk, NEW ps
    PROVE  reevaluate(ns, S, ln, mk, ps) \in Nodes
<1> SUFFICES ASSUME NEW n \in NodeId
             PROVE  [ns[n] EXCEPT !.cur =
                        compute_currentness(ln, ns[n], mk,
                            publisher_state(ps, ns[n].auth))] \in Records
  BY DEF reevaluate, Nodes
<1>1. compute_currentness(ln, ns[n], mk, publisher_state(ps, ns[n].auth))
         \in CurrentnessValues
  BY CurrentnessType
<1>2. ns[n] \in Records
  BY DEF Nodes
<1> QED
  BY <1>1, <1>2 DEF Records

\* A state update keeps the records well formed.
LEMMA UpdateType ==
    ASSUME NEW ns \in Nodes, NEW n \in NodeId, NEW life \in NodeLifecycles,
           NEW cur \in CurrentnessValues, NEW rr \in BOOLEAN
    PROVE  update_node_state(ns, n, life, cur, rr) \in Nodes
<1>1. CASE ~is_valid_lifecycle_transition(ns[n].life, life)
  BY <1>1 DEF update_node_state
<1>2. CASE is_valid_lifecycle_transition(ns[n].life, life)
  <2>1. ns[n] \in Records
    BY DEF Nodes
  <2>2. [ns[n] EXCEPT !.life = life, !.cur = cur, !.rr = rr] \in Records
    BY <2>1 DEF Records
  <2> QED
    BY <1>2, <2>1, <2>2 DEF update_node_state, Nodes, Records
<1> QED
  BY <1>1, <1>2

-----------------------------------------------------------------------------
(* The parts of a commit *)

\* A caller is a full authority with a live session.
LEMMA CallerType ==
    ASSUME TypeOK, NEW auth \in Callers
    PROVE  /\ auth \in Authorities
           /\ <<auth.pub, auth.att>> \in Publishers \X Attempts
BY DEF TypeOK, Callers, Authorities, Marks

\* The edges of a publication are well formed, and so is every prefix of them.
LEMMA EdgeListType ==
    ASSUME NEW n \in NodeId, NEW specs \in Seq([type : EdgeTypes,
           target : NodeId]), NEW auth \in Authorities
    PROVE  /\ EdgeList(n, specs, auth) \in Seq(Edges)
           /\ Len(EdgeList(n, specs, auth)) = Len(specs)
<1> DEFINE es == EdgeList(n, specs, auth)
<1>1. \A i \in 1..Len(specs) : EdgeOf(n, specs[i], auth) \in Edges
  <2> TAKE i \in 1..Len(specs)
  <2>1. specs[i] \in [type : EdgeTypes, target : NodeId]
    BY ElementOfSeq
  <2> QED
    BY <2>1 DEF EdgeOf, Edges
<1>2. es \in [1..Len(specs) -> Edges]
  BY <1>1 DEF EdgeList
<1>3. Len(specs) \in Nat
  OBVIOUS
<1> QED
  BY <1>2, <1>3, SeqDef, LenProperties

\* The edge set after some insertions is well formed.
LEMMA EdgesAfterType ==
    ASSUME NEW es \in SUBSET Edges, NEW s \in Seq(Edges),
           NEW k \in Nat, k <= Len(s)
    PROVE  EdgesAfter(es, s, k) \subseteq Edges
<1>1. \A i \in 1..k : s[i] \in Edges
  <2> TAKE i \in 1..k
  <2>1. i \in 1..Len(s)
    OBVIOUS
  <2> QED
    BY <2>1
<1> QED
  BY <1>1 DEF EdgesAfter

\* Inserting a well-formed record keeps the records well formed.
LEMMA AddNodeType ==
    ASSUME nodes \in Nodes, NEW n \in NodeId, NEW r \in Records
    PROVE  add_node(n, r) \in Nodes
BY DEF add_node, Nodes

\* A record of the pipeline is well formed.
LEMMA NewRecordType ==
    ASSUME NEW kind \in NodeKinds, NEW gen \in 0..MaxGen,
           NEW auth \in Authorities, NEW bind \in Bindings,
           NEW root \in BOOLEAN, NEW corrects \in NodeId \cup {None},
           NEW life \in NodeLifecycles
    PROVE  NewRecord(kind, gen, auth, bind, root, corrects, life) \in Records
BY DEF NewRecord, Records, CurrentnessValues

\* The end of a successful commit keeps every variable well formed.
LEMMA FinishType ==
    ASSUME TypeOK, NEW auth \in Callers, NEW ns \in Nodes,
           NEW es \in SUBSET Edges, NEW ln \in Lineages, NEW S,
           Finish(auth, ns, es, ln, S)
    PROVE  /\ nodes' \in [NodeId -> Records]
           /\ edges' \subseteq Edges
           /\ lin' \in Lineages
           /\ attempts' \subseteq Publishers \X Attempts
           /\ marks' \in Marks
           /\ publishers' \in [Publishers \X Boots -> SessionStates]
           /\ recovered' \in BOOLEAN
           /\ epoch_bootstrapped' \in BOOLEAN
<1> DEFINE mk == [marks EXCEPT !.store = @ + 1]
           l  == [ln EXCEPT !.lgen = @ + 1, !.hist = HistoryCount(ns)]
<1>1. nodes' \in [NodeId -> Records]
  <2>1. nodes' = reevaluate(ns, S \cup {l.cur}, l, mk, publishers)
    BY DEF Finish
  <2> QED
    BY <2>1, ReevaluateType DEF Nodes
<1>2. lin' \in Lineages
  <2>1. HistoryCount(ns) \in Nat
    BY HistoryCountType
  <2>2. lin' = [ln EXCEPT !.lgen = @ + 1, !.hist = HistoryCount(ns)]
    BY DEF Finish
  <2>3. ln.lgen + 1 \in Nat
    BY DEF Lineages
  <2> QED
    BY <2>1, <2>2, <2>3 DEF Lineages
<1>3. marks' \in Marks
  BY StoreAssumption DEF Finish, TypeOK, Marks, CanAdvance
<1>4. attempts' \subseteq Publishers \X Attempts
  BY CallerType DEF Finish, TypeOK
<1>5. /\ publishers' \in [Publishers \X Boots -> SessionStates]
      /\ recovered' \in BOOLEAN
      /\ epoch_bootstrapped' \in BOOLEAN
      /\ edges' \subseteq Edges
  BY DEF Finish, TypeOK, sessionVars
<1> QED
  BY <1>1, <1>2, <1>3, <1>4, <1>5

\* A half-applied commit keeps every variable well formed.
LEMMA PartialCommitType ==
    ASSUME TypeOK, NEW n \in NodeId, NEW r \in Records,
           NEW es \in Seq(Edges), PartialCommit(n, r, es)
    PROVE  TypeOK'
<1>1. PICK k \in 1..Len(es) :
         /\ nodes' = add_node(n, r)
         /\ edges' = EdgesAfter(edges, es, k - 1)
         /\ UNCHANGED <<lineageVars, marks, indexVars, sessionVars>>
  BY DEF PartialCommit
<1>2. nodes' \in Nodes
  BY <1>1, AddNodeType DEF TypeOK, Nodes
<1>3. edges' \subseteq Edges
  <2>1. k - 1 \in Nat /\ k - 1 <= Len(es)
    OBVIOUS
  <2> QED
    BY <1>1, <2>1, EdgesAfterType DEF TypeOK
<1> QED
  BY <1>1, <1>2, <1>3 DEF TypeOK, Nodes, lineageVars, indexVars, sessionVars

\* Index insertion keeps the indexes well formed.
LEMMA IndexNodeType ==
    ASSUME TypeOK, NEW n \in NodeId, NEW r \in Records, NEW es,
           IndexNode(n, r, es)
    PROVE  /\ indexed' \subseteq NodeId /\ genIndex' \subseteq 0..MaxGen
           /\ shared' \in BOOLEAN
BY DEF TypeOK, IndexNode, Records

\* A complete commit keeps every variable well formed.
LEMMA CommitType ==
    ASSUME TypeOK, NEW auth \in Callers, NEW n \in NodeId, NEW r \in Records,
           NEW es, NEW ns \in Nodes, NEW fin \in SUBSET Edges,
           NEW ln \in Lineages, NEW S,
           Finish(auth, ns, fin, ln, S), IndexNode(n, r, es)
    PROVE  TypeOK'
BY FinishType, IndexNodeType DEF TypeOK

\* A one-element list of edge specs.
LEMMA OneSpecType ==
    ASSUME NEW t \in EdgeTypes, NEW m \in NodeId
    PROVE  <<[type |-> t, target |-> m]>> \in Seq([type : EdgeTypes,
                                                   target : NodeId])
OBVIOUS

\* A function on 1..k is a sequence.
LEMMA FunctionIsSeq ==
    ASSUME NEW T, NEW k \in Nat, NEW f \in [1..k -> T]
    PROVE  f \in Seq(T)
BY SeqDef

\* The edge specs of a client name edge types and recorded identities.
LEMMA SpecListsType ==
    ASSUME NEW specs \in SpecLists
    PROVE  specs \in Seq([type : EdgeTypes, target : NodeId])
<1>1. PICK k \in 0..MaxSpecs :
         specs \in [1..k -> [type : SpecTypes, target : Present(nodes)]]
  BY DEF SpecLists
<1>2. [type : SpecTypes, target : Present(nodes)]
         \subseteq [type : EdgeTypes, target : NodeId]
  BY StoreAssumption DEF Present
<1>3. specs \in [1..k -> [type : EdgeTypes, target : NodeId]]
  BY <1>1, <1>2
<1>4. k \in Nat
  BY StoreAssumption
<1> QED
  BY <1>3, <1>4, FunctionIsSeq

\* All edges of a list inserted.
LEMMA AllEdgesType ==
    ASSUME TypeOK, NEW s \in Seq(Edges)
    PROVE  EdgesAfter(edges, s, Len(s)) \in SUBSET Edges
<1>1. Len(s) \in Nat /\ Len(s) <= Len(s)
  BY LenProperties
<1> QED
  BY <1>1, EdgesAfterType DEF TypeOK

\* Promotion by evidence edges keeps the records well formed.
LEMMA PromoteType ==
    ASSUME NEW ns \in Nodes, NEW es
    PROVE  Promote(ns, es) \in Nodes
<1> SUFFICES ASSUME NEW m \in NodeId
             PROVE  /\ ns[m] \in Records
                    /\ [ns[m] EXCEPT !.life = "Current", !.rr = FALSE]
                          \in Records
  BY DEF Promote, Nodes
<1>1. ns[m] \in Records
  BY DEF Nodes
<1> QED
  BY <1>1 DEF Records, NodeLifecycles

\* Demoting the previous current record keeps the records well formed.
LEMMA RetirePreviousType ==
    ASSUME TypeOK, NEW ns \in Nodes, NEW n, NEW es
    PROVE  RetirePrevious(ns, n, es) \in Nodes
<1>1. CASE lin.cur \in {None, n}
  BY <1>1 DEF RetirePrevious
<1>2. CASE lin.cur \notin {None, n}
  <2>1. lin.cur \in NodeId
    BY <1>2 DEF TypeOK, Lineages
  <2>2. "HistoricalOnly" \in CurrentnessValues /\ FALSE \in BOOLEAN
    BY DEF CurrentnessValues
  <2>3. /\ "Superseded" \in NodeLifecycles
        /\ "Historical" \in NodeLifecycles
    BY DEF NodeLifecycles
  <2> QED
    BY <1>2, <2>1, <2>2, <2>3, UpdateType DEF RetirePrevious
<1> QED
  BY <1>1, <1>2

-----------------------------------------------------------------------------
(* Type correctness, one lemma per operation *)

\* A route publication keeps every variable well formed.
LEMMA PublishRouteType ==
    ASSUME TypeOK, NEW auth \in Callers, NEW n \in NodeId,
           NEW gen \in 1..MaxGen, NEW bind \in BindingSet,
           NEW root \in BOOLEAN, NEW specs \in SpecLists,
           PublishRoute(auth, n, gen, bind, root, specs)
    PROVE  TypeOK'
<1> DEFINE r  == NewRecord("RouteGeneration", gen, auth, bind, root, None,
                           "Current")
           es == EdgeList(n, specs, auth)
           ns == Promote(RetirePrevious(add_node(n, r), n, es), es)
<1>0. gen \in 0..MaxGen
  BY StoreAssumption
<1>1. r \in Records
  BY <1>0, CallerType, NewRecordType, StoreAssumption
     DEF NodeKinds, NodeLifecycles
<1>2. es \in Seq(Edges)
  BY CallerType, SpecListsType, EdgeListType
<1>3. ns \in Nodes
  <2>1. add_node(n, r) \in Nodes
    BY <1>1, AddNodeType DEF TypeOK, Nodes
  <2>2. RetirePrevious(add_node(n, r), n, es) \in Nodes
    BY <2>1, RetirePreviousType
  <2> QED
    BY <2>2, PromoteType
<1>4. AdvanceLineage(n, gen) \in Lineages
  BY <1>0 DEF AdvanceLineage, TypeOK, Lineages, LineageLifecycles
<1>5. EdgesAfter(edges, es, Len(es)) \in SUBSET Edges
  BY <1>2, AllEdgesType
<1>6. CASE PartialCommit(n, r, es)
  BY <1>1, <1>2, <1>6, PartialCommitType
<1>7. CASE /\ Finish(auth, ns, EdgesAfter(edges, es, Len(es)),
                     AdvanceLineage(n, gen), {n, lin.cur} \cup Targets(es))
           /\ IndexNode(n, r, es)
  BY <1>1, <1>3, <1>4, <1>5, <1>7, CommitType
<1> QED
  BY <1>6, <1>7 DEF PublishRoute

\* A declaration keeps every variable well formed.
LEMMA DeclareType ==
    ASSUME TypeOK, NEW auth \in Callers, NEW n \in NodeId,
           NEW gen \in 0..MaxGen, NEW bind \in BindingSet,
           Declare(auth, n, gen, bind)
    PROVE  TypeOK'
<1> DEFINE r == NewRecord("Declaration", gen, auth, bind, FALSE, None,
                          "Declared")
<1>1. r \in Records
  BY CallerType, NewRecordType, StoreAssumption
     DEF NodeKinds, NodeLifecycles
<1>2. add_node(n, r) \in Nodes
  BY <1>1, AddNodeType DEF TypeOK, Nodes
<1>3. /\ Finish(auth, add_node(n, r), edges, lin, {n})
      /\ IndexNode(n, r, <<>>)
  BY DEF Declare
<1>4. edges \in SUBSET Edges /\ lin \in Lineages
  BY DEF TypeOK
<1> QED
  BY <1>1, <1>2, <1>3, <1>4, CommitType

\* A derivation link keeps every variable well formed.
LEMMA LinkType ==
    ASSUME TypeOK, NEW auth \in Callers, NEW from \in NodeId,
           NEW to \in NodeId, NEW type \in LinkTypes,
           LinkDerivation(auth, from, to, type)
    PROVE  TypeOK'
<1> DEFINE e  == [from |-> from, to |-> to, type |-> type, auth |-> auth]
           ns == IF nodes[to].life = "Declared"
                 THEN update_node_state(nodes, to, "Current", nodes[to].cur,
                                        FALSE)
                 ELSE nodes
<1>1. type \in EdgeTypes
  BY DEF LinkTypes, EvidenceRelations, EdgeTypes
<1>2. edges \cup {e} \in SUBSET Edges
  <2>1. auth \in Authorities
    BY CallerType
  <2>2. e \in Edges
    BY <1>1, <2>1 DEF Edges
  <2> QED
    BY <2>2 DEF TypeOK
<1>3. ns \in Nodes
  <2>1. nodes \in Nodes
    BY DEF TypeOK, Nodes
  <2>2. nodes[to].cur \in CurrentnessValues
    BY DEF TypeOK, Records
  <2>3. "Current" \in NodeLifecycles /\ FALSE \in BOOLEAN
    BY DEF NodeLifecycles
  <2> QED
    BY <2>1, <2>2, <2>3, UpdateType
<1>4. lin \in Lineages
  BY DEF TypeOK
<1>5. Finish(auth, ns, edges \cup {e}, lin, {from, to}) /\ UNCHANGED indexVars
  BY DEF LinkDerivation
<1> QED
  BY <1>2, <1>3, <1>4, <1>5, FinishType DEF TypeOK, indexVars

\* The record of an administrative action is well formed.
LEMMA ActionRecordType ==
    ASSUME TypeOK, NEW auth \in Callers, NEW target \in NodeId,
           NEW bind \in BindingSet
    PROVE  ActionRecord(auth, target, bind) \in Records
<1>1. nodes[target].gen \in 0..MaxGen
  BY DEF TypeOK, Records
<1> QED
  BY <1>1, CallerType, NewRecordType, StoreAssumption
     DEF ActionRecord, NodeKinds, NodeLifecycles

\* What the five administrative actions have in common: post is the node table
\* after the effect of the action on its target.
LEMMA AdministerType ==
    ASSUME TypeOK, NEW auth \in Callers, NEW n \in NodeId,
           NEW target \in NodeId, NEW bind \in BindingSet,
           NEW type \in EdgeTypes, NEW post \in Nodes, NEW ln \in Lineages,
           NEW es, es = EdgeList(n, <<[type |-> type, target |-> target]>>,
                                 auth),
           \/ PartialCommit(n, ActionRecord(auth, target, bind), es)
           \/ /\ Finish(auth, post, EdgesAfter(edges, es, Len(es)), ln,
                        {n, target})
              /\ IndexNode(n, ActionRecord(auth, target, bind), es)
    PROVE  TypeOK'
<1> DEFINE r == ActionRecord(auth, target, bind)
<1>1. r \in Records
  BY ActionRecordType
<1>2. es \in Seq(Edges)
  BY CallerType, OneSpecType, EdgeListType
<1>3. EdgesAfter(edges, es, Len(es)) \in SUBSET Edges
  BY <1>2, AllEdgesType
<1>4. CASE PartialCommit(n, r, es)
  BY <1>1, <1>2, <1>4, PartialCommitType
<1>5. CASE /\ Finish(auth, post, EdgesAfter(edges, es, Len(es)), ln,
                     {n, target})
           /\ IndexNode(n, r, es)
  BY <1>1, <1>3, <1>5, CommitType
<1> QED
  BY <1>4, <1>5

\* Marking a record as revalidated keeps the graph well formed.
LEMMA MarkRevalidatedType ==
    ASSUME NEW ns \in Nodes, NEW n \in NodeId
    PROVE  mark_revalidated(ns, n) \in Nodes
<1>1. [ns[n] EXCEPT !.reval = TRUE] \in Records
  BY DEF Nodes, Records
<1> QED
  BY <1>1 DEF mark_revalidated, Nodes

\* A withdrawal, revocation, retirement, revalidation or invalidation keeps
\* every variable well formed.
LEMMA AdministrationType ==
    ASSUME TypeOK, NEW auth \in Callers, NEW n \in NodeId,
           NEW target \in Present(nodes), NEW bind \in BindingSet,
           \/ Withdraw(auth, n, target, bind)
           \/ Revoke(auth, n, target, bind)
           \/ Retire(auth, n, target, bind)
           \/ Revalidate(auth, n, target, bind)
           \/ Invalidate(auth, n, target, bind)
    PROVE  TypeOK'
<1> DEFINE r  == ActionRecord(auth, target, bind)
           ns == add_node(n, r)
           After(life, cur) == update_node_state(ns, target, life, cur, FALSE)
<1>1. target \in NodeId
  BY DEF Present
<1>2. ns \in Nodes
  BY <1>1, ActionRecordType, AddNodeType DEF TypeOK, Nodes
<1>3. \A life \in NodeLifecycles, cur \in CurrentnessValues :
         After(life, cur) \in Nodes
  BY <1>1, <1>2, UpdateType
<1>4. \A l \in LineageLifecycles : [lin EXCEPT !.life = l] \in Lineages
  BY DEF TypeOK, Lineages
<1>5. lin \in Lineages
  BY DEF TypeOK
<1>6. CASE Withdraw(auth, n, target, bind)
  <2>1. After("Historical", "HistoricalOnly") \in Nodes
    BY <1>3 DEF NodeLifecycles, CurrentnessValues
  <2>2. [lin EXCEPT !.life = "Withdrawn"] \in Lineages
    BY <1>4 DEF LineageLifecycles
  <2>3. "Withdraws" \in EdgeTypes
    BY DEF EdgeTypes
  <2> QED
    BY <1>1, <1>6, <2>1, <2>2, <2>3, AdministerType
       DEF Withdraw, Administer, WithAction
<1>7. CASE Revoke(auth, n, target, bind)
  <2>1. After("Revoked", "HistoricalOnly") \in Nodes
    BY <1>3 DEF NodeLifecycles, CurrentnessValues
  <2>2. [lin EXCEPT !.life = "Revoked"] \in Lineages
    BY <1>4 DEF LineageLifecycles
  <2>3. "RevokedBy" \in EdgeTypes
    BY DEF EdgeTypes
  <2> QED
    BY <1>1, <1>7, <2>1, <2>2, <2>3, AdministerType
       DEF Revoke, Administer, WithAction
<1>8. CASE Retire(auth, n, target, bind)
  <2>1. After("Retired", "HistoricalOnly") \in Nodes
    BY <1>3 DEF NodeLifecycles, CurrentnessValues
  <2>2. [lin EXCEPT !.life = "Retired"] \in Lineages
    BY <1>4 DEF LineageLifecycles
  <2>3. "RetiredBy" \in EdgeTypes
    BY DEF EdgeTypes
  <2> QED
    BY <1>1, <1>8, <2>1, <2>2, <2>3, AdministerType
       DEF Retire, Administer, WithAction
<1>9. CASE Revalidate(auth, n, target, bind)
  <2>1. After("Current", "RevalidationRequired") \in Nodes
    BY <1>3 DEF NodeLifecycles, CurrentnessValues
  <2>2. mark_revalidated(After("Current", "RevalidationRequired"), target)
           \in Nodes
    BY <1>1, <2>1, MarkRevalidatedType
  <2>3. "Revalidates" \in EdgeTypes
    BY DEF EdgeTypes
  <2> QED
    BY <1>1, <1>5, <1>9, <2>2, <2>3, AdministerType
       DEF Revalidate, Administer, WithAction
<1>10. CASE Invalidate(auth, n, target, bind)
  <2>1. After("Invalid", "HistoricalOnly") \in Nodes
    BY <1>3 DEF NodeLifecycles, CurrentnessValues
  <2>2. "Invalidates" \in EdgeTypes
    BY DEF EdgeTypes
  <2> QED
    BY <1>1, <1>5, <1>10, <2>1, <2>2, AdministerType
       DEF Invalidate, Administer, WithAction
<1> QED
  BY <1>6, <1>7, <1>8, <1>9, <1>10

\* A correction, with the edges it rebinds, keeps every variable well formed.
LEMMA CorrectType ==
    ASSUME TypeOK, NEW auth \in Callers, NEW n \in NodeId,
           NEW target \in Present(nodes), NEW bind \in BindingSet,
           Correct(auth, n, target, bind)
    PROVE  TypeOK'
<1> DEFINE specs == <<[type |-> "Corrects", target |-> target]>>
           r     == Replacement(auth, target, bind)
           es    == EdgeList(n, specs, auth)
           base  == EdgesAfter(edges, es, Len(es))
           all   == Rebound(base, n, target, auth)
           mid   == set_corrected_by(add_node(n, r), target, n)
           ns    == update_node_state(mid, target, "Invalid",
                                      "HistoricalOnly", FALSE)
           ln    == [lin EXCEPT !.cur = IF @ = target THEN n ELSE @]
<1>1. target \in NodeId /\ nodes[target].kind \in NodeKinds
  BY DEF Present, TypeOK, Records
<1>2. r \in Records
  <2>1. nodes[target].gen \in 0..MaxGen /\ nodes[target].root \in BOOLEAN
    BY <1>1 DEF TypeOK, Records
  <2> QED
    BY <1>1, <2>1, CallerType, NewRecordType, StoreAssumption
       DEF Replacement, NodeLifecycles
<1>3. es \in Seq(Edges)
  <2>1. "Corrects" \in EdgeTypes
    BY DEF EdgeTypes
  <2> QED
    BY <1>1, <2>1, CallerType, OneSpecType, EdgeListType
<1>4. base \in SUBSET Edges
  BY <1>3, AllEdgesType
<1>5. all \in SUBSET Edges
  <2>1. auth \in Authorities
    BY CallerType
  <2> QED
    BY <1>4, <2>1 DEF Rebound, Edges
<1>6. ns \in Nodes
  <2>1. add_node(n, r) \in Nodes
    BY <1>2, AddNodeType DEF TypeOK, Nodes
  <2>2. mid \in Nodes
    BY <1>1, <2>1 DEF set_corrected_by, Nodes, Records
  <2> QED
    BY <1>1, <2>2, UpdateType DEF NodeLifecycles, CurrentnessValues
<1>7. ln \in Lineages
  BY DEF TypeOK, Lineages
<1>8. CASE PartialCommit(n, r, es)
  BY <1>2, <1>3, <1>8, PartialCommitType
<1>9. CASE /\ \E rb \in SUBSET all :
                 Finish(auth, ns, base \cup rb, ln, {n, target})
           /\ IndexNode(n, r, es)
  <2>1. PICK rb \in SUBSET all :
           Finish(auth, ns, base \cup rb, ln, {n, target})
    BY <1>9
  <2>2. base \cup rb \in SUBSET Edges
    BY <1>4, <1>5
  <2> QED
    BY <1>2, <1>6, <1>7, <1>9, <2>1, <2>2, CommitType
<1> QED
  BY <1>8, <1>9 DEF Correct

\* A compaction keeps every variable well formed.
LEMMA CompactType ==
    ASSUME TypeOK, NEW auth \in Callers, NEW d, NEW S, Compact(auth, d, S)
    PROVE  TypeOK'
<1> DEFINE ns == [n \in NodeId |-> IF n \in S THEN Tombstone(nodes[n], auth)
                                   ELSE nodes[n]]
<1>1. ns \in Nodes
  <2> SUFFICES ASSUME NEW n \in NodeId
               PROVE  Tombstone(nodes[n], auth) \in Records
    BY DEF TypeOK, Nodes
  <2>1. nodes[n] \in Records /\ auth \in Authorities
    BY CallerType DEF TypeOK
  <2>2. NoBinding \in Bindings
    BY StoreAssumption DEF NoBinding, Bindings
  <2> QED
    BY <2>1, <2>2
       DEF Tombstone, Records, NodeKinds, NodeLifecycles, CurrentnessValues
<1>2. lin' \in Lineages
  <2>1. lin' = [lin EXCEPT !.lgen = @ + 1, !.hist = HistoryCount(ns)]
    BY DEF Compact
  <2>2. HistoryCount(ns) \in Nat /\ lin.lgen + 1 \in Nat
    BY HistoryCountType DEF TypeOK, Lineages
  <2> QED
    BY <2>1, <2>2 DEF TypeOK, Lineages
<1>3. marks' \in Marks
  BY StoreAssumption DEF Compact, TypeOK, Marks, CanAdvance
<1>4. nodes' = ns /\ UNCHANGED <<edges, attempts, indexVars, sessionVars>>
  BY DEF Compact
<1> QED
  BY <1>1, <1>2, <1>3, <1>4 DEF TypeOK, Nodes, indexVars, sessionVars

\* Establishing the epoch of a registration keeps the watermarks well formed.
LEMMA EstablishEpochType ==
    ASSUME TypeOK, NEW epoch \in 1..MaxEpoch, EstablishEpoch(epoch)
    PROVE  marks' \in Marks /\ epoch_bootstrapped' \in BOOLEAN
<1>1. epoch \in 0..MaxEpoch
  BY StoreAssumption
<1> QED
  BY <1>1 DEF EstablishEpoch, TypeOK, Marks

\* A registration keeps every variable well formed.
LEMMA RegisterType ==
    ASSUME TypeOK, NEW p \in Publishers, NEW b \in Boots,
           NEW epoch \in 1..MaxEpoch, register_publisher(p, b, epoch)
    PROVE  TypeOK'
<1>1. marks' \in Marks /\ epoch_bootstrapped' \in BOOLEAN
  BY EstablishEpochType DEF register_publisher
<1>2. publishers' \in [Publishers \X Boots -> SessionStates]
  BY DEF register_publisher, TypeOK, SessionStates
<1>3. nodes' \in Nodes
  BY ReevaluateType DEF register_publisher, TypeOK, Nodes
<1>4. UNCHANGED <<edges, lineageVars, indexVars, recovered>>
  BY DEF register_publisher
<1> QED
  BY <1>1, <1>2, <1>3, <1>4 DEF TypeOK, Nodes, lineageVars, indexVars

\* A registration refused after it set the epoch keeps every variable well
\* formed.
LEMMA RefusedType ==
    ASSUME TypeOK, NEW epoch \in 1..MaxEpoch, register_refused(epoch)
    PROVE  TypeOK'
<1>1. marks' \in Marks /\ epoch_bootstrapped' \in BOOLEAN
  BY EstablishEpochType DEF register_refused
<1>2. UNCHANGED <<graphVars, lineageVars, indexVars, publishers, recovered>>
  BY DEF register_refused
<1> QED
  BY <1>1, <1>2 DEF TypeOK, graphVars, lineageVars, indexVars

\* A fence keeps every variable well formed.
LEMMA FenceType ==
    ASSUME TypeOK, NEW p \in Publishers, NEW b \in Boots,
           fence_publisher(p, b)
    PROVE  TypeOK'
<1>1. publishers' \in [Publishers \X Boots -> SessionStates]
  BY DEF fence_publisher, TypeOK, SessionStates
<1>2. nodes' \in Nodes
  BY ReevaluateType DEF fence_publisher, TypeOK, Nodes
<1>3. UNCHANGED <<edges, lineageVars, marks, indexVars, recovered,
                  epoch_bootstrapped>>
  BY DEF fence_publisher
<1> QED
  BY <1>1, <1>2, <1>3 DEF TypeOK, Nodes, lineageVars, indexVars

\* What all announcements share keeps every variable well formed.
LEMMA AnnounceType ==
    ASSUME TypeOK, NEW mk \in Marks, NEW S, mk.store = marks.store,
           Announce(mk, S)
    PROVE  TypeOK'
<1>1. marks' \in Marks
  BY StoreAssumption DEF Announce, TypeOK, Marks, CanAdvance
<1>2. nodes' \in Nodes
  BY ReevaluateType DEF Announce, TypeOK, Nodes
<1>3. UNCHANGED <<edges, lineageVars, indexVars, sessionVars>>
  BY DEF Announce
<1> QED
  BY <1>1, <1>2, <1>3 DEF TypeOK, Nodes, lineageVars, indexVars, sessionVars

\* Each announcement, the epoch advance included, keeps every variable well
\* formed.
LEMMA NotifyType ==
    ASSUME TypeOK,
           \/ \E g \in 1..MaxMark : \/ NotifyPathAuthority(g)
                                    \/ NotifyPolicy(g)
                                    \/ NotifyEvidence(g)
                                    \/ NotifyPlan(g)
           \/ \E epoch \in 1..MaxEpoch : advance_epoch(epoch)
    PROVE  TypeOK'
<1>1. marks \in Marks
  BY DEF TypeOK
<1>2. ASSUME NEW g \in 1..MaxMark, NotifyPathAuthority(g)
      PROVE  TypeOK'
  <2>1. [marks EXCEPT !.path = g] \in Marks
    BY <1>1, StoreAssumption DEF Marks
  <2> QED
    BY <1>1, <1>2, <2>1, AnnounceType DEF NotifyPathAuthority, Marks
<1>3. ASSUME NEW g \in 1..MaxMark, NotifyPolicy(g)
      PROVE  TypeOK'
  <2>1. [marks EXCEPT !.policy = g] \in Marks
    BY <1>1, StoreAssumption DEF Marks
  <2> QED
    BY <1>1, <1>3, <2>1, AnnounceType DEF NotifyPolicy, Marks
<1>4. ASSUME NEW g \in 1..MaxMark, NotifyEvidence(g)
      PROVE  TypeOK'
  <2>1. [marks EXCEPT !.evidence = g] \in Marks
    BY <1>1, StoreAssumption DEF Marks
  <2> QED
    BY <1>1, <1>4, <2>1, AnnounceType DEF NotifyEvidence, Marks
<1>5. ASSUME NEW g \in 1..MaxMark, NotifyPlan(g)
      PROVE  TypeOK'
  <2>1. [marks EXCEPT !.plan = g] \in Marks
    BY <1>1, StoreAssumption DEF Marks
  <2> QED
    BY <1>1, <1>5, <2>1, AnnounceType DEF NotifyPlan, Marks
<1>6. ASSUME NEW epoch \in 1..MaxEpoch, advance_epoch(epoch)
      PROVE  TypeOK'
  <2>1. [marks EXCEPT !.epoch = epoch] \in Marks
    BY <1>1, StoreAssumption DEF Marks
  <2> QED
    BY <1>1, <1>6, <2>1, AnnounceType DEF advance_epoch, Marks
<1> QED
  BY <1>2, <1>3, <1>4, <1>5, <1>6

\* A WorkerFence notification keeps every variable well formed.
LEMMA WorkerFenceType ==
    ASSUME TypeOK, NEW p \in Publishers, NEW b \in Boots,
           NotifyWorkerFence(p, b)
    PROVE  TypeOK'
<1>1. publishers' \in [Publishers \X Boots -> SessionStates]
  BY DEF NotifyWorkerFence, TypeOK, SessionStates
<1>2. nodes' \in Nodes
  BY ReevaluateType DEF NotifyWorkerFence, TypeOK, Nodes
<1>3. marks' \in Marks
  BY StoreAssumption DEF NotifyWorkerFence, TypeOK, Marks, CanAdvance
<1>4. UNCHANGED <<edges, lineageVars, indexVars, recovered,
                  epoch_bootstrapped>>
  BY DEF NotifyWorkerFence
<1> QED
  BY <1>1, <1>2, <1>3, <1>4 DEF TypeOK, Nodes, lineageVars, indexVars

\* The demotion of a reload keeps a record well formed.
LEMMA DemoteType ==
    ASSUME NEW r \in Records
    PROVE  Demote(r) \in Records
<1>1. CASE r.life = "Current" /\ r.cur = "Current"
  <2>1. Demote(r) = [r EXCEPT !.life = "RevalidationRequired",
                              !.cur = "RevalidationRequired", !.rr = TRUE]
    BY <1>1 DEF Demote
  <2>2. /\ "RevalidationRequired" \in NodeLifecycles
        /\ "RevalidationRequired" \in CurrentnessValues
    BY DEF NodeLifecycles, CurrentnessValues
  <2> QED
    BY <2>1, <2>2 DEF Records
<1>2. CASE ~(r.life = "Current" /\ r.cur = "Current")
  BY <1>2 DEF Demote
<1> QED
  BY <1>1, <1>2

\* A reload keeps every variable well formed.
LEMMA RestartType ==
    ASSUME TypeOK, Restart
    PROVE  TypeOK'
<1> DEFINE ns == [n \in NodeId |-> Demote(nodes[n])]
           ps == [k \in Publishers \X Boots |-> "Unknown"]
           l  == [lin EXCEPT !.hist = HistoryCount(ns)]
<1>1. ns \in Nodes
  <2> SUFFICES ASSUME NEW n \in NodeId
               PROVE  Demote(nodes[n]) \in Records
    BY DEF Nodes
  <2>1. nodes[n] \in Records
    BY DEF TypeOK
  <2> QED
    BY <2>1, DemoteType
<1>2. nodes' \in Nodes
  <2>1. nodes' = reevaluate(ns, NodeId, l, marks, ps)
    BY DEF Restart
  <2> QED
    BY <1>1, <2>1, ReevaluateType
<1>3. lin' \in Lineages
  <2>1. lin' = [lin EXCEPT !.hist = HistoryCount(ns)]
    BY DEF Restart
  <2>2. HistoryCount(ns) \in Nat
    BY HistoryCountType
  <2> QED
    BY <2>1, <2>2 DEF TypeOK, Lineages
<1>4. /\ publishers' \in [Publishers \X Boots -> SessionStates]
      /\ recovered' \in BOOLEAN
      /\ epoch_bootstrapped' \in BOOLEAN
  BY DEF Restart, SessionStates
<1>5. indexed' \subseteq NodeId /\ genIndex' \subseteq 0..MaxGen
  BY DEF Restart, Present, TypeOK, Records
<1>6. UNCHANGED <<edges, attempts, marks, shared>>
  BY DEF Restart
<1> QED
  BY <1>2, <1>3, <1>4, <1>5, <1>6 DEF TypeOK, Nodes

\* A call in another lineage of the route touches the store generation, the
\* route's index and nothing else of this lineage.
LEMMA ElsewhereKeeps ==
    ASSUME TypeOK, Elsewhere
    PROVE  /\ UNCHANGED <<nodes, edges, lin, attempts, publishers, indexed,
                          recovered, epoch_bootstrapped>>
           /\ shared' = TRUE
           /\ genIndex' \subseteq genIndex
           /\ marks' \in Marks
           /\ marks'.path = marks.path /\ marks'.policy = marks.policy
           /\ marks'.evidence = marks.evidence /\ marks'.plan = marks.plan
           /\ marks'.epoch = marks.epoch
<1>1. CASE CreateElsewhere
  BY <1>1 DEF CreateElsewhere, graphVars, lineageVars, sessionVars, TypeOK
<1>2. ASSUME NEW gen \in 1..MaxGen, PublishElsewhere(gen)
      PROVE  /\ UNCHANGED <<nodes, edges, lin, attempts, publishers, indexed,
                            recovered, epoch_bootstrapped>>
             /\ shared' = TRUE
             /\ genIndex' \subseteq genIndex
             /\ marks' \in Marks
             /\ marks'.path = marks.path /\ marks'.policy = marks.policy
             /\ marks'.evidence = marks.evidence /\ marks'.plan = marks.plan
             /\ marks'.epoch = marks.epoch
  <2>1. marks' = [marks EXCEPT !.store = marks.store + 1]
        /\ marks.store < MaxStoreGen /\ marks \in Marks
    BY <1>2 DEF PublishElsewhere, CanAdvance, TypeOK
  <2>2. marks' \in Marks
    BY <2>1, StoreAssumption DEF Marks
  <2>3. /\ marks'.path = marks.path /\ marks'.policy = marks.policy
        /\ marks'.evidence = marks.evidence /\ marks'.plan = marks.plan
        /\ marks'.epoch = marks.epoch
    BY <2>1 DEF Marks
  <2> QED
    BY <1>2, <2>2, <2>3
       DEF PublishElsewhere, graphVars, lineageVars, sessionVars, TypeOK
<1> QED
  BY <1>1, <1>2 DEF Elsewhere

\* So it keeps every variable well formed.
LEMMA ElsewhereType ==
    ASSUME TypeOK, Elsewhere
    PROVE  TypeOK'
BY ElsewhereKeeps DEF TypeOK

\* The empty store is well formed.
LEMMA InitType == Init => TypeOK
<1> SUFFICES ASSUME Init
             PROVE  TypeOK
  OBVIOUS
<1>1. {0} \subseteq 0..MaxGen /\ {0} \subseteq 0..MaxMark
      /\ {0} \subseteq 0..MaxEpoch /\ {0} \subseteq 0..MaxStoreGen
  BY StoreAssumption
<1>2. NoBinding \in Bindings
  BY <1>1 DEF NoBinding, Bindings
<1>3. NoAuthority \in Authorities
  BY <1>1 DEF NoAuthority, Authorities
<1>4. NoRecord \in Records
  BY <1>1, <1>2, <1>3 DEF NoRecord, Records, NodeLifecycles,
                          CurrentnessValues
<1>5. nodes \in [NodeId -> Records]
  BY <1>4 DEF Init
<1>6. lin \in Lineages
  BY <1>1 DEF Init, Lineages, LineageLifecycles
<1>7. marks \in Marks
  BY <1>1 DEF Init, Marks
<1>8. publishers \in [Publishers \X Boots -> SessionStates]
  BY DEF Init, SessionStates
<1> QED
  BY <1>5, <1>6, <1>7, <1>8 DEF Init, TypeOK

\* Every step keeps every variable well formed.
LEMMA NextType == TypeOK /\ [Next]_vars => TypeOK'
<1> SUFFICES ASSUME TypeOK, [Next]_vars
             PROVE  TypeOK'
  OBVIOUS
<1>1. CASE Publication
  <2> SUFFICES ASSUME NEW auth \in Callers, NEW n \in NodeId,
                      \/ RoutePublication(auth, n)
                      \/ Declaration(auth, n)
                      \/ Correction(auth, n)
                      \/ Administration(auth, n)
               PROVE  TypeOK'
    BY <1>1 DEF Publication
  <2>1. CASE RoutePublication(auth, n)
    BY <2>1, PublishRouteType DEF RoutePublication
  <2>2. CASE Declaration(auth, n)
    BY <2>2, DeclareType DEF Declaration
  <2>3. CASE Correction(auth, n)
    BY <2>3, CorrectType DEF Correction
  <2>4. CASE Administration(auth, n)
    BY <2>4, AdministrationType DEF Administration
  <2> QED
    BY <2>1, <2>2, <2>3, <2>4
<1>2. CASE Maintenance
  <2> SUFFICES ASSUME NEW auth \in Callers,
                      Link(auth) \/ Compaction(auth)
               PROVE  TypeOK'
    BY <1>2 DEF Maintenance
  <2>1. CASE Link(auth)
    BY <2>1, LinkType DEF Link
  <2>2. CASE Compaction(auth)
    BY <2>2, CompactType DEF Compaction
  <2> QED
    BY <2>1, <2>2
<1>3. CASE Registration
  BY <1>3, RegisterType, RefusedType DEF Registration
<1>4. CASE Notification
  <2>1. CASE \/ \E g \in 1..MaxMark : \/ NotifyPathAuthority(g)
                                      \/ NotifyPolicy(g)
                                      \/ NotifyEvidence(g)
                                      \/ NotifyPlan(g)
             \/ \E epoch \in 1..MaxEpoch : advance_epoch(epoch)
    BY <2>1, NotifyType
  <2>2. CASE \E p \in Publishers, b \in Boots :
                fence_publisher(p, b) \/ NotifyWorkerFence(p, b)
    BY <2>2, FenceType, WorkerFenceType
  <2> QED
    BY <1>4, <2>1, <2>2 DEF Notification
<1>5. CASE Restart
  BY <1>5, RestartType
<1>6. CASE Elsewhere
  BY <1>6, ElsewhereType
<1>7. CASE UNCHANGED vars
  BY <1>7 DEF vars, TypeOK
<1> QED
  BY <1>1, <1>2, <1>3, <1>4, <1>5, <1>6, <1>7 DEF Next

\* The store keeps well-formed records, edges, lineage state, watermarks,
\* sessions and indexes through every sequence of publications, declarations,
\* links, administrative actions, corrections, compactions, registrations,
\* notifications and reloads, half-applied commits included.
THEOREM TypeCorrect == Spec => []TypeOK
<1>1. Init => TypeOK
  BY InitType
<1>2. TypeOK /\ [Next]_vars => TypeOK'
  BY NextType
<1> QED
  BY <1>1, <1>2, PTL DEF Spec

-----------------------------------------------------------------------------
(* Recorded history.  Every step has one of three shapes: it leaves all     *)
(* record contents and edges alone (Quiet), turns some history records into *)
(* tombstones (Pruning), or adds to an open lineage (Growth).               *)

SameCores(ns, ms) == \A m \in NodeId : Core(ms[m]) = Core(ns[m])

SameHead == lin'.life = lin.life /\ lin'.gen = lin.gen /\ lin'.cur = lin.cur

NothingRevived ==
    lin.life = "Retired" =>
        \A m \in NodeId : nodes'[m].cur = "Current" => nodes[m].cur = "Current"

Quiet == /\ SameCores(nodes, nodes')
         /\ edges' = edges
         /\ SameHead
         /\ NothingRevived

Pruning ==
    \E S \in SUBSET Present(nodes) :
        /\ lin.cur \notin S
        /\ \A m \in S : /\ nodes'[m].kind = "CompactedSummary"
                        /\ nodes'[m].gen = nodes[m].gen
        /\ \A m \in NodeId \ S : Core(nodes'[m]) = Core(nodes[m])
        /\ edges' = edges
        /\ SameHead
        /\ NothingRevived

\* The lineage keeps its current record, moves to a route state of another
\* generation, or replaces the current record by its correction.
HeadMoves ==
    \/ lin'.gen = lin.gen /\ lin'.cur = lin.cur
    \/ /\ lin'.gen # 0
       /\ lin'.cur \in NodeId
       /\ nodes'[lin'.cur].kind = "RouteGeneration"
       /\ nodes'[lin'.cur].gen = lin'.gen
    \/ /\ lin'.gen = lin.gen
       /\ lin.cur \in NodeId
       /\ lin'.cur \in NodeId
       /\ nodes'[lin'.cur].kind = nodes[lin.cur].kind
       /\ nodes'[lin'.cur].gen = nodes[lin.cur].gen

Growth == /\ lin.life \notin {"Retired", "Revoked"}
          /\ edges \subseteq edges'
          /\ \A m \in Present(nodes) : Core(nodes'[m]) = Core(nodes[m])
          /\ HeadMoves

\* Recomputing currentness changes no record's content.
LEMMA ReevaluateCore ==
    ASSUME NEW ns \in Nodes, NEW S, NEW ln, NEW mk, NEW ps
    PROVE  SameCores(ns, reevaluate(ns, S, ln, mk, ps))
<1> SUFFICES ASSUME NEW m \in NodeId
             PROVE  Core(reevaluate(ns, S, ln, mk, ps)[m]) = Core(ns[m])
  BY DEF SameCores
<1>1. ns[m] \in Records
  BY DEF Nodes
<1> QED
  BY <1>1 DEF reevaluate, Core, Records

\* In a retired lineage a recomputed record is never CURRENT.
LEMMA ReevaluateRetired ==
    ASSUME NEW ns \in Nodes, NEW S, NEW ln, NEW mk, NEW ps,
           ln.life = "Retired", NEW m \in NodeId,
           reevaluate(ns, S, ln, mk, ps)[m].cur = "Current"
    PROVE  ns[m].cur = "Current"
<1>1. ns[m] \in Records
  BY DEF Nodes
<1> DEFINE c == compute_currentness(ln, ns[m], mk,
                                    publisher_state(ps, ns[m].auth))
<1>2. c = "HistoricalOnly"
  BY DEF compute_currentness
<1>3. reevaluate(ns, S, ln, mk, ps)[m]
         \in {ns[m], [ns[m] EXCEPT !.cur = c]}
  BY DEF reevaluate
<1> HIDE DEF c
<1> QED
  BY <1>1, <1>2, <1>3 DEF Records

\* A state update changes no record's content.
LEMMA UpdateCore ==
    ASSUME NEW ns \in Nodes, NEW n \in NodeId, NEW life, NEW cur, NEW rr
    PROVE  SameCores(ns, update_node_state(ns, n, life, cur, rr))
<1> SUFFICES ASSUME NEW m \in NodeId
             PROVE  Core(update_node_state(ns, n, life, cur, rr)[m])
                       = Core(ns[m])
  BY DEF SameCores
<1>1. ns[m] \in Records
  BY DEF Nodes
<1> QED
  BY <1>1 DEF update_node_state, Core, Records, Nodes

\* Neither do the two markers.
LEMMA MarkersCore ==
    ASSUME NEW ns \in Nodes, NEW n \in NodeId, NEW by
    PROVE  /\ SameCores(ns, mark_revalidated(ns, n))
           /\ SameCores(ns, set_corrected_by(ns, n, by))
<1> SUFFICES ASSUME NEW m \in NodeId
             PROVE  /\ Core(mark_revalidated(ns, n)[m]) = Core(ns[m])
                    /\ Core(set_corrected_by(ns, n, by)[m]) = Core(ns[m])
  BY DEF SameCores
<1>1. ns[m] \in Records
  BY DEF Nodes
<1> QED
  BY <1>1 DEF mark_revalidated, set_corrected_by, Core, Records, Nodes

\* Promotion changes no record's content.
LEMMA PromoteCore ==
    ASSUME NEW ns \in Nodes, NEW es
    PROVE  SameCores(ns, Promote(ns, es))
<1> SUFFICES ASSUME NEW m \in NodeId
             PROVE  Core(Promote(ns, es)[m]) = Core(ns[m])
  BY DEF SameCores
<1>1. ns[m] \in Records
  BY DEF Nodes
<1> QED
  BY <1>1 DEF Promote, Core, Records

\* Demoting the previous current record changes no record's content.
LEMMA RetirePreviousCore ==
    ASSUME TypeOK, NEW ns \in Nodes, NEW n, NEW es
    PROVE  SameCores(ns, RetirePrevious(ns, n, es))
<1>1. CASE lin.cur \in {None, n}
  BY <1>1 DEF RetirePrevious, SameCores
<1>2. CASE lin.cur \notin {None, n}
  <2>1. lin.cur \in NodeId
    BY <1>2 DEF TypeOK, Lineages
  <2> QED
    BY <1>2, <2>1, UpdateCore DEF RetirePrevious
<1> QED
  BY <1>1, <1>2

\* Inserting a record leaves the contents of the recorded ones alone, and the
\* record then found under the new identity has the inserted content, whether
\* it was inserted or found as a duplicate.
LEMMA AddNodeCore ==
    ASSUME TypeOK, NEW n \in NodeId, NEW r \in Records,
           r.kind # "Absent", IdentityOf(r, n)
    PROVE  /\ \A m \in Present(nodes) : Core(add_node(n, r)[m]) = Core(nodes[m])
           /\ Core(add_node(n, r)[n]) = Core(r)
<1>1. CASE n \in Present(nodes)
  BY <1>1 DEF add_node, IdentityOf
<1>2. CASE n \notin Present(nodes)
  BY <1>2 DEF add_node, TypeOK, Present
<1> QED
  BY <1>1, <1>2

\* The end of a commit changes neither contents nor the head of the lineage it
\* is given.
LEMMA FinishCore ==
    ASSUME NEW auth, NEW ns \in Nodes, NEW es, NEW ln \in Lineages, NEW S,
           Finish(auth, ns, es, ln, S)
    PROVE  /\ SameCores(ns, nodes')
           /\ edges' = es
           /\ lin'.life = ln.life /\ lin'.gen = ln.gen /\ lin'.cur = ln.cur
<1>1. SameCores(ns, nodes')
  BY ReevaluateCore DEF Finish
<1>2. lin' = [ln EXCEPT !.lgen = @ + 1, !.hist = HistoryCount(ns)]
  BY DEF Finish
<1> QED
  BY <1>1, <1>2 DEF Finish, Lineages

\* A complete commit of record r is a growth step; ln is the lineage state it
\* chooses.
LEMMA CommitGrowth ==
    ASSUME TypeOK, NEW auth, NEW n \in NodeId, NEW r \in Records,
           r.kind # "Absent", Admitted(auth), IdentityOf(r, n),
           NEW ns \in Nodes, SameCores(add_node(n, r), ns),
           NEW es, edges \subseteq es, NEW ln \in Lineages, NEW S,
           Finish(auth, ns, es, ln, S),
           \/ ln.gen = lin.gen /\ ln.cur = lin.cur
           \/ /\ r.kind = "RouteGeneration" /\ r.gen # 0
              /\ ln.gen = r.gen /\ ln.cur = n
           \/ /\ ln.gen = lin.gen /\ ln.cur = n /\ lin.cur \in NodeId
              /\ r.kind = nodes[lin.cur].kind /\ r.gen = nodes[lin.cur].gen
    PROVE  Growth
<1>1. /\ SameCores(ns, nodes')
      /\ edges' = es
      /\ lin'.gen = ln.gen /\ lin'.cur = ln.cur
  BY FinishCore
<1>2. /\ \A m \in Present(nodes) : Core(nodes'[m]) = Core(nodes[m])
      /\ Core(nodes'[n]) = Core(r)
  BY <1>1, AddNodeCore DEF SameCores, Present
<1>3. nodes'[n].kind = r.kind /\ nodes'[n].gen = r.gen
  BY <1>2 DEF Core
<1>4. HeadMoves
  BY <1>1, <1>3 DEF HeadMoves
<1> QED
  BY <1>1, <1>2, <1>4 DEF Growth, Admitted

\* So is a half-applied one.
LEMMA PartialGrowth ==
    ASSUME TypeOK, NEW auth, NEW n \in NodeId, NEW r \in Records,
           r.kind # "Absent", Admitted(auth), IdentityOf(r, n),
           NEW es, PartialCommit(n, r, es)
    PROVE  Growth
<1>1. PICK k \in 1..Len(es) :
         /\ nodes' = add_node(n, r)
         /\ edges' = EdgesAfter(edges, es, k - 1)
         /\ UNCHANGED lineageVars
  BY DEF PartialCommit
<1>2. \A m \in Present(nodes) : Core(nodes'[m]) = Core(nodes[m])
  BY <1>1, AddNodeCore
<1>3. HeadMoves
  BY <1>1 DEF HeadMoves, lineageVars
<1> QED
  BY <1>1, <1>2, <1>3 DEF Growth, Admitted, EdgesAfter

\* Content equality is transitive along the stages of a commit.
LEMMA CoresTransitive ==
    ASSUME NEW a, NEW b, NEW c, SameCores(a, b), SameCores(b, c)
    PROVE  SameCores(a, c)
BY DEF SameCores

\* A route publication grows the lineage and moves its head to the record of
\* the published generation.
LEMMA PublishRouteGrowth ==
    ASSUME TypeOK, NEW auth \in Callers, NEW n \in NodeId,
           NEW gen \in 1..MaxGen, NEW bind \in BindingSet,
           NEW root \in BOOLEAN, NEW specs \in SpecLists,
           PublishRoute(auth, n, gen, bind, root, specs)
    PROVE  Growth
<1> DEFINE r  == NewRecord("RouteGeneration", gen, auth, bind, root, None,
                           "Current")
           es == EdgeList(n, specs, auth)
           mid == RetirePrevious(add_node(n, r), n, es)
           ns  == Promote(mid, es)
<1>0. gen \in 0..MaxGen /\ gen # 0
  BY StoreAssumption
<1>1. r \in Records /\ r.kind = "RouteGeneration" /\ r.gen = gen
  BY <1>0, CallerType, NewRecordType, StoreAssumption
     DEF NewRecord, NodeKinds, NodeLifecycles
<1>2. Admitted(auth) /\ IdentityOf(r, n)
  BY DEF PublishRoute, Acceptable
<1>3. add_node(n, r) \in Nodes
  BY <1>1, AddNodeType DEF TypeOK, Nodes
<1>4. mid \in Nodes
  BY <1>3, RetirePreviousType
<1>5. ns \in Nodes
  BY <1>4, PromoteType
<1>6. SameCores(add_node(n, r), ns)
  <2>1. SameCores(add_node(n, r), mid)
    BY <1>3, RetirePreviousCore
  <2>2. SameCores(mid, ns)
    BY <1>4, PromoteCore
  <2> QED
    BY <2>1, <2>2, CoresTransitive
<1>7. /\ AdvanceLineage(n, gen) \in Lineages
      /\ AdvanceLineage(n, gen).gen = gen
      /\ AdvanceLineage(n, gen).cur = n
  BY <1>0 DEF AdvanceLineage, TypeOK, Lineages, LineageLifecycles
<1>8. edges \subseteq EdgesAfter(edges, es, Len(es))
  BY DEF EdgesAfter
<1>9. CASE PartialCommit(n, r, es)
  BY <1>1, <1>2, <1>9, PartialGrowth
<1>10. CASE Finish(auth, ns, EdgesAfter(edges, es, Len(es)),
                   AdvanceLineage(n, gen), {n, lin.cur} \cup Targets(es))
  <2> HIDE DEF r, ns
  <2> QED
    BY <1>0, <1>1, <1>2, <1>5, <1>6, <1>7, <1>8, <1>10, CommitGrowth
<1> QED
  BY <1>9, <1>10 DEF PublishRoute

\* A declaration grows the lineage and keeps its head.
LEMMA DeclareGrowth ==
    ASSUME TypeOK, NEW auth \in Callers, NEW n \in NodeId,
           NEW gen \in 0..MaxGen, NEW bind \in BindingSet,
           Declare(auth, n, gen, bind)
    PROVE  Growth
<1> DEFINE r == NewRecord("Declaration", gen, auth, bind, FALSE, None,
                          "Declared")
<1>1. r \in Records /\ r.kind # "Absent"
  BY CallerType, NewRecordType, StoreAssumption
     DEF NewRecord, NodeKinds, NodeLifecycles
<1>2. add_node(n, r) \in Nodes
  BY <1>1, AddNodeType DEF TypeOK, Nodes
<1>3. /\ Finish(auth, add_node(n, r), edges, lin, {n})
      /\ Admitted(auth) /\ IdentityOf(r, n)
  BY DEF Declare, Acceptable
<1>4. SameCores(add_node(n, r), add_node(n, r)) /\ lin \in Lineages
  BY DEF SameCores, TypeOK
<1> HIDE DEF r
<1> QED
  BY <1>1, <1>2, <1>3, <1>4, CommitGrowth

\* A link adds an edge and keeps the head of the lineage.
LEMMA LinkGrowth ==
    ASSUME TypeOK, NEW auth \in Callers, NEW from \in NodeId,
           NEW to \in NodeId, NEW type \in LinkTypes,
           LinkDerivation(auth, from, to, type)
    PROVE  Growth
<1> DEFINE e  == [from |-> from, to |-> to, type |-> type, auth |-> auth]
           ns == IF nodes[to].life = "Declared"
                 THEN update_node_state(nodes, to, "Current", nodes[to].cur,
                                        FALSE)
                 ELSE nodes
<1>1. nodes \in Nodes /\ nodes[to].cur \in CurrentnessValues
      /\ lin \in Lineages
  BY DEF TypeOK, Records, Nodes
<1>2. ns \in Nodes
  BY <1>1, UpdateType DEF NodeLifecycles
<1>3. SameCores(nodes, ns)
  <2>1. SameCores(nodes, nodes)
    BY DEF SameCores
  <2>2. SameCores(nodes, update_node_state(nodes, to, "Current",
                                           nodes[to].cur, FALSE))
    BY <1>1, UpdateCore
  <2> QED
    BY <2>1, <2>2
<1>4. Admitted(auth) /\ Finish(auth, ns, edges \cup {e}, lin, {from, to})
  BY DEF LinkDerivation
<1> HIDE DEF e, ns
<1>5. /\ SameCores(ns, nodes')
      /\ edges' = edges \cup {e}
      /\ lin'.gen = lin.gen /\ lin'.cur = lin.cur
  BY <1>1, <1>2, <1>4, FinishCore
<1>6. \A m \in Present(nodes) : Core(nodes'[m]) = Core(nodes[m])
  BY <1>3, <1>5 DEF SameCores, Present
<1>7. lin.life \notin {"Retired", "Revoked"}
  BY <1>4 DEF Admitted
<1>8. edges \subseteq edges'
  BY <1>5
<1> QED
  BY <1>5, <1>6, <1>7, <1>8 DEF Growth, HeadMoves

\* What the five administrative actions have in common.
LEMMA AdministerGrowth ==
    ASSUME TypeOK, NEW auth \in Callers, NEW n \in NodeId,
           NEW target \in NodeId, NEW bind \in BindingSet,
           NEW r, r = ActionRecord(auth, target, bind),
           Admitted(auth), IdentityOf(r, n),
           NEW post \in Nodes, SameCores(add_node(n, r), post),
           NEW ln \in Lineages, ln.gen = lin.gen, ln.cur = lin.cur,
           NEW es,
           \/ PartialCommit(n, r, es)
           \/ Finish(auth, post, EdgesAfter(edges, es, Len(es)), ln,
                     {n, target})
    PROVE  Growth
<1>1. r \in Records /\ r.kind # "Absent"
  BY ActionRecordType DEF ActionRecord, NewRecord
<1>2. edges \subseteq EdgesAfter(edges, es, Len(es))
  BY DEF EdgesAfter
<1>3. CASE PartialCommit(n, r, es)
  BY <1>1, <1>3, PartialGrowth
<1>4. CASE Finish(auth, post, EdgesAfter(edges, es, Len(es)), ln,
                  {n, target})
  BY <1>1, <1>2, <1>4, CommitGrowth
<1> QED
  BY <1>3, <1>4

\* The five administrative actions grow the lineage and keep its generation and
\* current record.
LEMMA AdministrationGrowth ==
    ASSUME TypeOK, NEW auth \in Callers, NEW n \in NodeId,
           NEW target \in Present(nodes), NEW bind \in BindingSet,
           \/ Withdraw(auth, n, target, bind)
           \/ Revoke(auth, n, target, bind)
           \/ Retire(auth, n, target, bind)
           \/ Revalidate(auth, n, target, bind)
           \/ Invalidate(auth, n, target, bind)
    PROVE  Growth
<1> DEFINE r  == ActionRecord(auth, target, bind)
           ns == add_node(n, r)
           After(life, cur) == update_node_state(ns, target, life, cur, FALSE)
<1>1. target \in NodeId
  BY DEF Present
<1>2. ns \in Nodes
  BY <1>1, ActionRecordType, AddNodeType DEF TypeOK, Nodes
<1>3. \A life \in NodeLifecycles, cur \in CurrentnessValues :
         After(life, cur) \in Nodes /\ SameCores(ns, After(life, cur))
  BY <1>1, <1>2, UpdateType, UpdateCore
<1>4. \A l \in LineageLifecycles :
         LET ln == [lin EXCEPT !.life = l]
         IN ln \in Lineages /\ ln.gen = lin.gen /\ ln.cur = lin.cur
  BY DEF TypeOK, Lineages
<1>5. lin \in Lineages
  BY DEF TypeOK
<1>6. Admitted(auth) /\ IdentityOf(r, n)
  BY DEF Withdraw, Revoke, Retire, Revalidate, Invalidate, Administer,
         ActionAdmissible, Acceptable
<1>7. CASE Withdraw(auth, n, target, bind)
  <2>1. /\ After("Historical", "HistoricalOnly") \in Nodes
        /\ SameCores(ns, After("Historical", "HistoricalOnly"))
    BY <1>3 DEF NodeLifecycles, CurrentnessValues
  <2>2. LET ln == [lin EXCEPT !.life = "Withdrawn"]
        IN ln \in Lineages /\ ln.gen = lin.gen /\ ln.cur = lin.cur
    BY <1>4 DEF LineageLifecycles
  <2> QED
    BY <1>1, <1>6, <1>7, <2>1, <2>2, AdministerGrowth
       DEF Withdraw, Administer, WithAction
<1>8. CASE Revoke(auth, n, target, bind)
  <2>1. /\ After("Revoked", "HistoricalOnly") \in Nodes
        /\ SameCores(ns, After("Revoked", "HistoricalOnly"))
    BY <1>3 DEF NodeLifecycles, CurrentnessValues
  <2>2. LET ln == [lin EXCEPT !.life = "Revoked"]
        IN ln \in Lineages /\ ln.gen = lin.gen /\ ln.cur = lin.cur
    BY <1>4 DEF LineageLifecycles
  <2> QED
    BY <1>1, <1>6, <1>8, <2>1, <2>2, AdministerGrowth
       DEF Revoke, Administer, WithAction
<1>9. CASE Retire(auth, n, target, bind)
  <2>1. /\ After("Retired", "HistoricalOnly") \in Nodes
        /\ SameCores(ns, After("Retired", "HistoricalOnly"))
    BY <1>3 DEF NodeLifecycles, CurrentnessValues
  <2>2. LET ln == [lin EXCEPT !.life = "Retired"]
        IN ln \in Lineages /\ ln.gen = lin.gen /\ ln.cur = lin.cur
    BY <1>4 DEF LineageLifecycles
  <2> QED
    BY <1>1, <1>6, <1>9, <2>1, <2>2, AdministerGrowth
       DEF Retire, Administer, WithAction
<1>10. CASE Revalidate(auth, n, target, bind)
  <2> DEFINE mid  == After("Current", "RevalidationRequired")
             post == mark_revalidated(mid, target)
  <2>1. mid \in Nodes /\ SameCores(ns, mid)
    BY <1>3 DEF NodeLifecycles, CurrentnessValues
  <2>2. post \in Nodes
    BY <1>1, <2>1, MarkRevalidatedType
  <2>3. SameCores(ns, post)
    BY <1>1, <2>1, MarkersCore, CoresTransitive
  <2> QED
    BY <1>1, <1>5, <1>6, <1>10, <2>2, <2>3, AdministerGrowth
       DEF Revalidate, Administer, WithAction
<1>11. CASE Invalidate(auth, n, target, bind)
  <2>1. /\ After("Invalid", "HistoricalOnly") \in Nodes
        /\ SameCores(ns, After("Invalid", "HistoricalOnly"))
    BY <1>3 DEF NodeLifecycles, CurrentnessValues
  <2> QED
    BY <1>1, <1>5, <1>6, <1>11, <2>1, AdministerGrowth
       DEF Invalidate, Administer, WithAction
<1> QED
  BY <1>7, <1>8, <1>9, <1>10, <1>11

\* A correction grows the lineage; when it replaces the current record, the
\* replacement has the same kind and generation.
LEMMA CorrectGrowth ==
    ASSUME TypeOK, NEW auth \in Callers, NEW n \in NodeId,
           NEW target \in Present(nodes), NEW bind \in BindingSet,
           Correct(auth, n, target, bind)
    PROVE  Growth
<1> DEFINE specs == <<[type |-> "Corrects", target |-> target]>>
           r     == Replacement(auth, target, bind)
           es    == EdgeList(n, specs, auth)
           base  == EdgesAfter(edges, es, Len(es))
           all   == Rebound(base, n, target, auth)
           mid   == set_corrected_by(add_node(n, r), target, n)
           ns    == update_node_state(mid, target, "Invalid",
                                      "HistoricalOnly", FALSE)
           ln    == [lin EXCEPT !.cur = IF @ = target THEN n ELSE @]
<1>1. target \in NodeId /\ nodes[target].kind \in NodeKinds
  BY DEF Present, TypeOK, Records
<1>2. /\ r \in Records
      /\ r.kind = nodes[target].kind
      /\ r.gen = nodes[target].gen
      /\ r.kind # "Absent"
  <2>1. nodes[target].gen \in 0..MaxGen /\ nodes[target].root \in BOOLEAN
    BY <1>1 DEF TypeOK, Records
  <2>2. r \in Records
    BY <1>1, <2>1, CallerType, NewRecordType, StoreAssumption
       DEF Replacement, NodeLifecycles
  <2> QED
    BY <1>1, <2>2 DEF Replacement, NewRecord, NodeKinds
<1>3. add_node(n, r) \in Nodes
  BY <1>2, AddNodeType DEF TypeOK, Nodes
<1>4. mid \in Nodes
  BY <1>1, <1>3 DEF set_corrected_by, Nodes, Records
<1>5. ns \in Nodes
  BY <1>1, <1>4, UpdateType DEF NodeLifecycles, CurrentnessValues
<1>6. SameCores(add_node(n, r), ns)
  <2>1. SameCores(add_node(n, r), mid)
    BY <1>1, <1>3, MarkersCore
  <2>2. SameCores(mid, ns)
    BY <1>1, <1>4, UpdateCore
  <2> QED
    BY <2>1, <2>2, CoresTransitive
<1>7. /\ ln \in Lineages
      /\ ln.gen = lin.gen
      /\ ln.cur = IF lin.cur = target THEN n ELSE lin.cur
  BY DEF TypeOK, Lineages
<1>8. Admitted(auth) /\ IdentityOf(r, n)
  BY DEF Correct, CorrectionAdmissible, Acceptable
<1>9. CASE PartialCommit(n, r, es)
  BY <1>2, <1>8, <1>9, PartialGrowth
<1>10. CASE \E rb \in SUBSET all :
               Finish(auth, ns, base \cup rb, ln, {n, target})
  <2>1. PICK rb \in SUBSET all :
           Finish(auth, ns, base \cup rb, ln, {n, target})
    BY <1>10
  <2>2. edges \subseteq base \cup rb
    BY DEF EdgesAfter
  <2> HIDE DEF r, ns, ln, base, all
  <2> QED
    BY <1>1, <1>2, <1>5, <1>6, <1>7, <1>8, <2>1, <2>2, CommitGrowth
<1> QED
  BY <1>9, <1>10 DEF Correct

\* A compaction only turns history records other than the current one into
\* tombstones.
LEMMA CompactPruning ==
    ASSUME TypeOK, NEW auth \in Callers, NEW d, NEW S, Compact(auth, d, S)
    PROVE  Pruning
<1>1. /\ S \subseteq CompactionCandidates(d)
      /\ nodes' = [n \in NodeId |-> IF n \in S THEN Tombstone(nodes[n], auth)
                                    ELSE nodes[n]]
      /\ edges' = edges
  BY DEF Compact
<1>2. S \in SUBSET Present(nodes) /\ lin.cur \notin S
  BY <1>1 DEF CompactionCandidates, Protected, Present,
              node_is_history_record, NodeKinds
<1>3. \A m \in S : /\ nodes'[m].kind = "CompactedSummary"
                   /\ nodes'[m].gen = nodes[m].gen
                   /\ nodes'[m].cur = "HistoricalOnly"
  <2> TAKE m \in S
  <2>1. m \in NodeId /\ nodes[m] \in Records
    BY <1>2 DEF Present, TypeOK
  <2> QED
    BY <1>1, <2>1 DEF Tombstone, Records
<1>4. \A m \in NodeId \ S : nodes'[m] = nodes[m]
  BY <1>1
<1>5. SameHead
  BY DEF Compact, SameHead, TypeOK, Lineages
<1>6. NothingRevived
  BY <1>3, <1>4 DEF NothingRevived
<1> QED
  BY <1>1, <1>2, <1>3, <1>4, <1>5, <1>6 DEF Pruning

\* A step that only recomputes currentness is quiet.
LEMMA RecomputationQuiet ==
    ASSUME TypeOK, NEW S, NEW mk, NEW ps,
           nodes' = reevaluate(nodes, S, lin, mk, ps),
           UNCHANGED <<edges, lin>>
    PROVE  Quiet
<1>1. nodes \in Nodes
  BY DEF TypeOK, Nodes
<1>2. SameCores(nodes, nodes')
  BY <1>1, ReevaluateCore
<1>3. NothingRevived
  BY <1>1, ReevaluateRetired DEF NothingRevived
<1> QED
  BY <1>2, <1>3 DEF Quiet, SameHead

\* So is a step that changes neither records, edges nor the lineage.
LEMMA StutterQuiet ==
    ASSUME UNCHANGED <<nodes, edges, lin>>
    PROVE  Quiet
BY DEF Quiet, SameCores, SameHead, NothingRevived

\* A registration, accepted or refused, touches no content.
LEMMA RegistrationQuiet ==
    ASSUME TypeOK, Registration
    PROVE  Quiet
<1>1. ASSUME NEW p, NEW b, NEW epoch, register_publisher(p, b, epoch)
      PROVE  Quiet
  BY <1>1, RecomputationQuiet DEF register_publisher, lineageVars
<1>2. ASSUME NEW epoch, register_refused(epoch)
      PROVE  Quiet
  BY <1>2, StutterQuiet DEF register_refused, graphVars, lineageVars
<1> QED
  BY <1>1, <1>2 DEF Registration

\* An announcement or fence touches no content.
LEMMA NotificationQuiet ==
    ASSUME TypeOK, Notification
    PROVE  Quiet
<1>1. ASSUME NEW mk, NEW S, Announce(mk, S)
      PROVE  Quiet
  BY <1>1, RecomputationQuiet DEF Announce, lineageVars
<1>2. ASSUME NEW p, NEW b, fence_publisher(p, b)
      PROVE  Quiet
  BY <1>2, RecomputationQuiet DEF fence_publisher, lineageVars
<1>3. ASSUME NEW p, NEW b, NotifyWorkerFence(p, b)
      PROVE  Quiet
  BY <1>3, RecomputationQuiet, StutterQuiet
     DEF NotifyWorkerFence, lineageVars
<1> QED
  BY <1>1, <1>2, <1>3
     DEF Notification, NotifyPathAuthority, NotifyPolicy, NotifyEvidence,
         NotifyPlan, advance_epoch

\* Reloading a record changes only its state, and makes nothing CURRENT.
LEMMA DemoteCore ==
    ASSUME NEW r \in Records
    PROVE  /\ Demote(r) \in Records
           /\ Core(Demote(r)) = Core(r)
           /\ Demote(r).cur = "Current" => r.cur = "Current"
<1>1. CASE r.life = "Current" /\ r.cur = "Current"
  BY <1>1 DEF Demote, Core, Records, NodeLifecycles, CurrentnessValues
<1>2. CASE ~(r.life = "Current" /\ r.cur = "Current")
  BY <1>2 DEF Demote
<1> QED
  BY <1>1, <1>2

\* A reload touches no content and revives nothing.
LEMMA RestartQuiet ==
    ASSUME TypeOK, Restart
    PROVE  Quiet
<1> DEFINE ns == [n \in NodeId |-> Demote(nodes[n])]
           ps == [k \in Publishers \X Boots |-> "Unknown"]
           l  == [lin EXCEPT !.hist = HistoryCount(ns)]
<1>1. /\ nodes' = reevaluate(ns, NodeId, l, marks, ps)
      /\ lin' = l
      /\ edges' = edges
  BY DEF Restart
<1>2. \A m \in NodeId : /\ ns[m] \in Records
                        /\ Core(ns[m]) = Core(nodes[m])
                        /\ ns[m].cur = "Current" => nodes[m].cur = "Current"
  <2> TAKE m \in NodeId
  <2>1. nodes[m] \in Records
    BY DEF TypeOK
  <2> QED
    BY <2>1, DemoteCore
<1>3. ns \in Nodes
  BY <1>2 DEF Nodes
<1>4. l.life = lin.life /\ l.gen = lin.gen /\ l.cur = lin.cur
  BY DEF TypeOK, Lineages
<1>5. SameCores(nodes, nodes')
  <2>1. SameCores(nodes, ns)
    BY <1>2 DEF SameCores
  <2>2. SameCores(ns, nodes')
    BY <1>1, <1>3, ReevaluateCore
  <2> QED
    BY <2>1, <2>2, CoresTransitive
<1>6. NothingRevived
  <2> SUFFICES ASSUME lin.life = "Retired", NEW m \in NodeId,
                      nodes'[m].cur = "Current"
               PROVE  nodes[m].cur = "Current"
    BY DEF NothingRevived
  <2> HIDE DEF ns, l
  <2>1. ns[m].cur = "Current"
    BY <1>1, <1>3, <1>4, ReevaluateRetired
  <2> QED
    BY <1>2, <2>1
<1> QED
  BY <1>1, <1>4, <1>5, <1>6 DEF Quiet, SameHead

\* Every step of the store is quiet, prunes, or grows an open lineage.
LEMMA StepShape ==
    ASSUME TypeOK, [Next]_vars
    PROVE  Quiet \/ Pruning \/ Growth
<1>1. CASE Publication
  <2> SUFFICES ASSUME NEW auth \in Callers, NEW n \in NodeId,
                      \/ RoutePublication(auth, n)
                      \/ Declaration(auth, n)
                      \/ Correction(auth, n)
                      \/ Administration(auth, n)
               PROVE  Growth
    BY <1>1 DEF Publication
  <2>1. CASE RoutePublication(auth, n)
    BY <2>1, PublishRouteGrowth DEF RoutePublication
  <2>2. CASE Declaration(auth, n)
    BY <2>2, DeclareGrowth DEF Declaration
  <2>3. CASE Correction(auth, n)
    BY <2>3, CorrectGrowth DEF Correction
  <2>4. CASE Administration(auth, n)
    BY <2>4, AdministrationGrowth DEF Administration
  <2> QED
    BY <2>1, <2>2, <2>3, <2>4
<1>2. CASE Maintenance
  <2> SUFFICES ASSUME NEW auth \in Callers,
                      Link(auth) \/ Compaction(auth)
               PROVE  Pruning \/ Growth
    BY <1>2 DEF Maintenance
  <2>1. CASE Link(auth)
    BY <2>1, LinkGrowth DEF Link
  <2>2. CASE Compaction(auth)
    BY <2>2, CompactPruning DEF Compaction
  <2> QED
    BY <2>1, <2>2
<1>3. CASE Registration
  BY <1>3, RegistrationQuiet
<1>4. CASE Notification
  BY <1>4, NotificationQuiet
<1>5. CASE Restart
  BY <1>5, RestartQuiet
<1>6. CASE Elsewhere
  BY <1>6, ElsewhereKeeps, StutterQuiet
<1>7. CASE UNCHANGED vars
  BY <1>7, StutterQuiet DEF vars
<1> QED
  BY <1>1, <1>2, <1>3, <1>4, <1>5, <1>6, <1>7 DEF Next

-----------------------------------------------------------------------------
(* The theorems *)

\* The current record of the lineage is a route state of the current
\* generation after every step.  The proof needs no more than TypeOK: a record
\* keeps its kind and generation, and compaction spares the current record.
THEOREM CurrentRecordHolds == Spec => []CurrentRecord
<1>1. Init => CurrentRecord
  BY DEF Init, CurrentRecord
<1>2. ASSUME TypeOK, CurrentRecord, [Next]_vars
      PROVE  CurrentRecord'
  <2>1. CASE Quiet
    BY <1>2, <2>1 DEF Quiet, SameCores, SameHead, Core, CurrentRecord
  <2>2. CASE Pruning
    <3>1. PICK S \in SUBSET Present(nodes) :
             /\ lin.cur \notin S
             /\ \A m \in NodeId \ S : Core(nodes'[m]) = Core(nodes[m])
             /\ SameHead
      BY <2>2 DEF Pruning
    <3> QED
      BY <1>2, <3>1 DEF SameHead, Core, CurrentRecord
  <2>3. CASE Growth
    <3>1. CASE lin'.gen = lin.gen /\ lin'.cur = lin.cur
      <4>1. lin.gen # 0 => lin.cur \in Present(nodes)
        BY <1>2 DEF CurrentRecord, Present
      <4> QED
        BY <1>2, <2>3, <3>1, <4>1 DEF Growth, Core, CurrentRecord
    <3>2. CASE /\ lin'.gen # 0
               /\ lin'.cur \in NodeId
               /\ nodes'[lin'.cur].kind = "RouteGeneration"
               /\ nodes'[lin'.cur].gen = lin'.gen
      BY <3>2 DEF CurrentRecord
    <3>3. CASE /\ lin'.gen = lin.gen
               /\ lin.cur \in NodeId
               /\ lin'.cur \in NodeId
               /\ nodes'[lin'.cur].kind = nodes[lin.cur].kind
               /\ nodes'[lin'.cur].gen = nodes[lin.cur].gen
      BY <1>2, <3>3, NodeIdAssumption DEF CurrentRecord
    <3> QED
      BY <2>3, <3>1, <3>2, <3>3 DEF Growth, HeadMoves
  <2> QED
    BY <1>2, <2>1, <2>2, <2>3, StepShape
<1> QED
  BY <1>1, <1>2, TypeCorrect, PTL DEF Spec

\* No edge disappears and no record's content changes except into a tombstone
\* that keeps the generation.
THEOREM HistoryAppendOnly == Spec => HistoryIsAppendOnly
<1>1. ASSUME TypeOK, [Next]_vars
      PROVE  /\ edges \subseteq edges'
             /\ \A n \in Present(nodes) :
                   \/ Core(nodes'[n]) = Core(nodes[n])
                   \/ /\ nodes'[n].kind = "CompactedSummary"
                      /\ nodes'[n].gen = nodes[n].gen
  <2>1. CASE Quiet
    BY <2>1 DEF Quiet, SameCores, Present
  <2>2. CASE Pruning
    BY <2>2 DEF Pruning, Present
  <2>3. CASE Growth
    BY <2>3 DEF Growth
  <2> QED
    BY <1>1, <2>1, <2>2, <2>3, StepShape
<1> QED
  BY <1>1, TypeCorrect, PTL DEF Spec, HistoryIsAppendOnly

\* Nothing resurrects a retired or revoked lineage.
THEOREM TerminalFrozen == Spec => TerminalLineageIsFrozen
<1>1. ASSUME TypeOK, [Next]_vars
      PROVE  lin.life \in {"Retired", "Revoked"} =>
               /\ lin'.life = lin.life
               /\ lin'.gen = lin.gen
               /\ lin'.cur = lin.cur
               /\ edges' = edges
               /\ Present(nodes)' = Present(nodes)
               /\ lin.life = "Retired" =>
                     \A n \in NodeId : nodes'[n].cur = "Current" =>
                                          nodes[n].cur = "Current"
  <2> SUFFICES ASSUME lin.life \in {"Retired", "Revoked"}
               PROVE  /\ SameHead
                      /\ edges' = edges
                      /\ Present(nodes)' = Present(nodes)
                      /\ NothingRevived
    BY DEF SameHead, NothingRevived
  <2>1. CASE Quiet
    <3>1. \A m \in NodeId : nodes'[m].kind = nodes[m].kind
      BY <2>1 DEF Quiet, SameCores, Core
    <3> QED
      BY <2>1, <3>1 DEF Quiet, Present
  <2>2. CASE Pruning
    <3>1. \A m \in NodeId : nodes'[m].kind = "Absent" <=>
                            nodes[m].kind = "Absent"
      BY <2>2 DEF Pruning, Core, Present
    <3> QED
      BY <2>2, <3>1 DEF Pruning, Present
  <2>3. ~Growth
    BY DEF Growth
  <2> QED
    BY <1>1, <2>1, <2>2, <2>3, StepShape
<1> QED
  BY <1>1, TypeCorrect, PTL DEF Spec, TerminalLineageIsFrozen

=============================================================================
