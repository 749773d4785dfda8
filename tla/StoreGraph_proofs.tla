------------------------- MODULE StoreGraph_proofs -------------------------
(***************************************************************************)
(* The derivation graph that ProvenanceStore maintains is sound for every  *)
(* value of the constants: both ends of every edge are recorded, there is  *)
(* no cycle, and the degree bounds hold, whatever was published, linked,   *)
(* corrected or only half inserted.                                        *)
(***************************************************************************)
EXTENDS StoreState_proofs

\* GraphSound for records ns and edges es.  Its inductive form adds that es is
\* finite, without which the degree counts would mean nothing.
SoundGraph(ns, es) ==
    /\ IsFiniteSet(es)
    /\ \A e \in es : {e.from, e.to} \subseteq Present(ns)
    /\ Acyclic(es)
    /\ \A n \in NodeId : /\ incoming_count(es, n) <= Limits.parents
                         /\ outgoing_count(es, n) <= Limits.children

GraphInv == SoundGraph(nodes, edges)

-----------------------------------------------------------------------------
(* Inserting edges *)

\* A set of natural numbers that is not empty has a least element.
LEMMA LeastNumber ==
    ASSUME NEW T \in SUBSET Nat, T # {}
    PROVE  \E x \in T : \A y \in T : x <= y
<1> DEFINE U == {0..x : x \in T}
           R == StrictSubsetOrdering(Nat)
<1>1. U \subseteq FiniteSubsetsOf(Nat) /\ U # {}
  <2> SUFFICES ASSUME NEW x \in T
               PROVE  0..x \in FiniteSubsetsOf(Nat)
    OBVIOUS
  <2>1. IsFiniteSet(0..x)
    BY FS_Interval
  <2> QED
    BY <2>1 DEF FiniteSubsetsOf
<1>2. \E u \in U : \A v \in U : ~(<<v, u>> \in R)
  BY <1>1, FS_StrictSubsetOrderingWellFounded, WFMin
<1>3. PICK x \in T : \A y \in T : ~(<<0..y, 0..x>> \in R)
  BY <1>2
<1>4. ASSUME NEW y \in T, y < x
      PROVE  <<0..y, 0..x>> \in R
  <2>1. 0..y \subseteq 0..x /\ x \in 0..x /\ x \notin 0..y
    BY <1>4
  <2> QED
    BY <2>1 DEF StrictSubsetOrdering
<1>5. \A y \in T : ~(y < x)
  BY <1>3, <1>4
<1> HIDE DEF R, U
<1> QED
  BY <1>5

\* An edge that a graph accepts is accepted by every smaller graph: there are
\* fewer paths to close.
LEMMA CheckAntitone ==
    ASSUME NEW es, NEW fs, es \subseteq fs, NEW e, check_add_edge(fs, e)
    PROVE  check_add_edge(es, e)
BY DEF check_add_edge, Reaches, ClosedUnder

\* The cycle check is enough: an edge that passes it closes no cycle.
LEMMA AddEdgeAcyclic ==
    ASSUME NEW es, NEW e, Acyclic(es), check_add_edge(es, e)
    PROVE  Acyclic(es \cup {e})
<1>1. PICK C \in SUBSET NodeId :
         e.to \in C /\ e.from \notin C /\ ClosedUnder(es, C)
  BY DEF check_add_edge, Reaches
<1> SUFFICES ASSUME NEW T \in SUBSET NodeId,
                    \A n \in T : \E f \in es \cup {e} :
                                    f.from = n /\ f.to \in T
             PROVE  T = {}
  BY DEF Acyclic
<1>2. T \cap C = {}
  <2>1. ASSUME NEW n \in T \cap C
        PROVE  \E f \in es : f.from = n /\ f.to \in T \cap C
    BY <1>1, <2>1 DEF ClosedUnder
  <2> QED
    BY <2>1 DEF Acyclic
<1>3. \A n \in T : \E f \in es : f.from = n /\ f.to \in T
  BY <1>1, <1>2
<1> QED
  BY <1>3 DEF Acyclic

\* Adding an element to a set below a bound stays within the bound.
LEMMA AddWithin ==
    ASSUME NEW S, IsFiniteSet(S), NEW x, NEW bound \in Nat,
           Cardinality(S) < bound
    PROVE  Cardinality(S \cup {x}) <= bound
<1>1. Cardinality(S) \in Nat
  BY FS_CardinalityType
<1>2. Cardinality(S \cup {x}) = IF x \in S THEN Cardinality(S)
                                ELSE Cardinality(S) + 1
  BY FS_AddElement
<1> QED
  BY <1>1, <1>2

\* One more edge keeps the degrees of every record within their bounds when
\* those of its two ends have room.
LEMMA AddEdgeDegrees ==
    ASSUME NEW es, IsFiniteSet(es), NEW e, NEW n,
           incoming_count(es, n) <= Limits.parents,
           outgoing_count(es, n) <= Limits.children,
           incoming_count(es, e.to) < Limits.parents,
           outgoing_count(es, e.from) < Limits.children
    PROVE  /\ incoming_count(es \cup {e}, n) <= Limits.parents
           /\ outgoing_count(es \cup {e}, n) <= Limits.children
<1> DEFINE into  == {f \in es : f.to = n}
           outOf == {f \in es : f.from = n}
<1>0. Limits.parents \in Nat /\ Limits.children \in Nat
  BY LimitsAreValid
<1>1. IsFiniteSet(into) /\ IsFiniteSet(outOf)
  BY FS_Subset
<1>2. incoming_count(es \cup {e}, n) <= Limits.parents
  <2>1. CASE e.to = n
    <3>1. {f \in es \cup {e} : f.to = n} = into \cup {e}
      BY <2>1
    <3>2. Cardinality(into) < Limits.parents
      BY <2>1 DEF incoming_count
    <3> HIDE DEF into
    <3>3. Cardinality(into \cup {e}) <= Limits.parents
      BY <1>0, <1>1, <3>2, AddWithin
    <3> QED
      BY <3>1, <3>3 DEF incoming_count
  <2>2. CASE e.to # n
    <3>1. {f \in es \cup {e} : f.to = n} = into
      BY <2>2
    <3> QED
      BY <3>1 DEF incoming_count
  <2> QED
    BY <2>1, <2>2
<1>3. outgoing_count(es \cup {e}, n) <= Limits.children
  <2>1. CASE e.from = n
    <3>1. {f \in es \cup {e} : f.from = n} = outOf \cup {e}
      BY <2>1
    <3>2. Cardinality(outOf) < Limits.children
      BY <2>1 DEF outgoing_count
    <3> HIDE DEF outOf
    <3>3. Cardinality(outOf \cup {e}) <= Limits.children
      BY <1>0, <1>1, <3>2, AddWithin
    <3> QED
      BY <3>1, <3>3 DEF outgoing_count
  <2>2. CASE e.from # n
    <3>1. {f \in es \cup {e} : f.from = n} = outOf
      BY <2>2
    <3> QED
      BY <3>1 DEF outgoing_count
  <2> QED
    BY <2>1, <2>2
<1> QED
  BY <1>2, <1>3

\* add_edge keeps the graph sound.
LEMMA AddEdgeSound ==
    ASSUME NEW ns, NEW es, SoundGraph(ns, es), NEW e, add_edge_ok(ns, es, e)
    PROVE  SoundGraph(ns, es \cup {e})
<1>1. IsFiniteSet(es \cup {e})
  BY FS_AddElement DEF SoundGraph
<1>2. \A f \in es \cup {e} : {f.from, f.to} \subseteq Present(ns)
  BY DEF SoundGraph, add_edge_ok
<1>3. Acyclic(es \cup {e})
  BY AddEdgeAcyclic DEF SoundGraph, add_edge_ok
<1>4. \A n \in NodeId : /\ incoming_count(es \cup {e}, n) <= Limits.parents
                        /\ outgoing_count(es \cup {e}, n) <= Limits.children
  BY AddEdgeDegrees DEF SoundGraph, add_edge_ok
<1> QED
  BY <1>1, <1>2, <1>3, <1>4 DEF SoundGraph

\* Inserting a list of edges one at a time keeps the graph sound, up to the
\* last edge that was accepted.
LEMMA PrefixSound ==
    ASSUME NEW ns, NEW es, SoundGraph(ns, es), NEW s, NEW m \in Nat,
           \A k \in 1..m : ~InsertionStopsAt(ns, es, s, k)
    PROVE  SoundGraph(ns, EdgesAfter(es, s, m))
<1> DEFINE bad == {k \in 0..m : ~SoundGraph(ns, EdgesAfter(es, s, k))}
<1> SUFFICES ASSUME bad # {}
             PROVE  FALSE
  OBVIOUS
<1>1. bad \in SUBSET Nat
  OBVIOUS
<1>2. PICK k \in bad : \A j \in bad : k <= j
  BY <1>1, LeastNumber
<1>3. k \in Nat /\ k <= m /\ ~SoundGraph(ns, EdgesAfter(es, s, k))
  OBVIOUS
<1>4. k # 0
  <2>1. EdgesAfter(es, s, 0) = es
    BY DEF EdgesAfter
  <2> QED
    BY <1>3, <2>1
<1>5. SoundGraph(ns, EdgesAfter(es, s, k - 1))
  <2>1. k - 1 \in 0..m /\ k - 1 < k
    BY <1>3, <1>4
  <2>2. k - 1 \notin bad
    BY <1>2, <1>3, <2>1
  <2> QED
    BY <2>1, <2>2
<1>6. EdgesAfter(es, s, k) = EdgesAfter(es, s, k - 1) \cup {s[k]}
  <2>1. 1..k = (1..(k - 1)) \cup {k}
    BY <1>3, <1>4
  <2> QED
    BY <2>1 DEF EdgesAfter
<1>7. \/ s[k] \in EdgesAfter(es, s, k - 1)
      \/ add_edge_ok(ns, EdgesAfter(es, s, k - 1), s[k])
  <2>1. k \in 1..m
    BY <1>3, <1>4
  <2> QED
    BY <2>1 DEF InsertionStopsAt
<1>8. CASE s[k] \in EdgesAfter(es, s, k - 1)
  <2>1. EdgesAfter(es, s, k) = EdgesAfter(es, s, k - 1)
    BY <1>6, <1>8
  <2> QED
    BY <1>3, <1>5, <2>1
<1>9. CASE add_edge_ok(ns, EdgesAfter(es, s, k - 1), s[k])
  BY <1>3, <1>5, <1>6, <1>9, AddEdgeSound
<1> QED
  BY <1>7, <1>8, <1>9

\* Soundness only asks for records to be there.
LEMMA SoundMonotone ==
    ASSUME NEW ns, NEW ms, NEW es, SoundGraph(ns, es),
           Present(ns) \subseteq Present(ms)
    PROVE  SoundGraph(ms, es)
BY DEF SoundGraph

-----------------------------------------------------------------------------
(* Rebinding the successor edges of a corrected record *)

\* The rebound edges are finitely many.
LEMMA ReboundFinite ==
    ASSUME NEW es, IsFiniteSet(es), NEW n, NEW target, NEW auth,
           NEW rb \in SUBSET Rebound(es, n, target, auth)
    PROVE  IsFiniteSet(rb)
<1> DEFINE old == {f \in es : f.from = target
                              /\ f.type \in SuccessorRelations}
           new == Rebound(es, n, target, auth)
           map == [e \in old |-> [e EXCEPT !.from = n, !.auth = auth]]
<1>1. IsFiniteSet(old)
  BY FS_Subset
<1>2. new = {map[e] : e \in old}
  BY DEF Rebound
<1>3. map \in Surjection(old, new)
  <2>1. map \in [old -> new]
    BY <1>2
  <2>2. \A y \in new : \E e \in old : map[e] = y
    BY <1>2
  <2> HIDE DEF old, new, map
  <2> QED
    BY <2>1, <2>2 DEF Surjection
<1> HIDE DEF old, new, map
<1>4. IsFiniteSet(new)
  BY <1>1, <1>3, FS_Surjection
<1> QED
  BY <1>4, FS_Subset DEF new

\* A set of edges out of one record, each of which the graph accepts beside
\* the others, keeps the graph sound.
LEMMA RebindSound ==
    ASSUME NEW ns, NEW es, SoundGraph(ns, es), NEW rb, IsFiniteSet(rb),
           NEW n, \A e \in rb : e.from = n,
           \A e \in rb : add_edge_ok(ns, es \cup (rb \ {e}), e)
    PROVE  SoundGraph(ns, es \cup rb)
<1> DEFINE fs == es \cup rb
<1>0. Limits.parents \in Nat /\ Limits.children \in Nat
  BY LimitsAreValid
<1>1. IsFiniteSet(fs)
  BY FS_Union DEF SoundGraph
<1>2. \A e \in fs : {e.from, e.to} \subseteq Present(ns)
  BY DEF SoundGraph, add_edge_ok
<1>3. Acyclic(fs)
  <2> SUFFICES ASSUME NEW T \in SUBSET NodeId,
                      \A m \in T : \E f \in fs : f.from = m /\ f.to \in T
               PROVE  T = {}
    BY DEF Acyclic
  <2>1. CASE \A m \in T : \E f \in es : f.from = m /\ f.to \in T
    BY <2>1 DEF SoundGraph, Acyclic
  <2>2. CASE \E f \in rb : f.to \in T
    <3>1. PICK f \in rb : f.to \in T
      BY <2>2
    <3>2. check_add_edge(es, f)
      <4>1. es \subseteq es \cup (rb \ {f})
        OBVIOUS
      <4> QED
        BY <4>1, CheckAntitone DEF add_edge_ok
    <3>3. Acyclic(es \cup {f})
      BY <3>2, AddEdgeAcyclic DEF SoundGraph
    <3>4. \A m \in T : \E g \in es \cup {f} : g.from = m /\ g.to \in T
      BY <3>1
    <3> QED
      BY <3>3, <3>4 DEF Acyclic
  <2> QED
    BY <2>1, <2>2
<1>4. ASSUME NEW m \in NodeId
      PROVE  /\ incoming_count(fs, m) <= Limits.parents
             /\ outgoing_count(fs, m) <= Limits.children
  <2>1. incoming_count(fs, m) <= Limits.parents
    <3>1. CASE \A f \in rb : f.to # m
      <4>1. {e \in fs : e.to = m} = {e \in es : e.to = m}
        BY <3>1
      <4> QED
        BY <4>1 DEF SoundGraph, incoming_count
    <3>2. CASE \E f \in rb : f.to = m
      <4>1. PICK f \in rb : f.to = m
        BY <3>2
      <4> DEFINE others == {e \in es \cup (rb \ {f}) : e.to = m}
      <4>2. Cardinality(others) < Limits.parents
        BY <4>1 DEF add_edge_ok, incoming_count
      <4>3. {e \in fs : e.to = m} = others \cup {f}
        BY <4>1
      <4>4. IsFiniteSet(others)
        <5>1. others \subseteq fs
          OBVIOUS
        <5> QED
          BY <1>1, <5>1, FS_Subset
      <4> HIDE DEF others
      <4>5. Cardinality(others \cup {f}) <= Limits.parents
        BY <1>0, <4>2, <4>4, AddWithin
      <4> QED
        BY <4>3, <4>5 DEF incoming_count
    <3> QED
      BY <3>1, <3>2
  <2>2. outgoing_count(fs, m) <= Limits.children
    <3>1. CASE \A f \in rb : f.from # m
      <4>1. {e \in fs : e.from = m} = {e \in es : e.from = m}
        BY <3>1
      <4> QED
        BY <4>1 DEF SoundGraph, outgoing_count
    <3>2. CASE \E f \in rb : f.from = m
      <4>1. PICK f \in rb : f.from = m
        BY <3>2
      <4> DEFINE others == {e \in es \cup (rb \ {f}) : e.from = m}
      <4>2. Cardinality(others) < Limits.children
        BY <4>1 DEF add_edge_ok, outgoing_count
      <4>3. {e \in fs : e.from = m} = others \cup {f}
        BY <4>1
      <4>4. IsFiniteSet(others)
        <5>1. others \subseteq fs
          OBVIOUS
        <5> QED
          BY <1>1, <5>1, FS_Subset
      <4> HIDE DEF others
      <4>5. Cardinality(others \cup {f}) <= Limits.children
        BY <1>0, <4>2, <4>4, AddWithin
      <4> QED
        BY <4>3, <4>5 DEF outgoing_count
    <3> QED
      BY <3>1, <3>2
  <2> QED
    BY <2>1, <2>2
<1> QED
  BY <1>1, <1>2, <1>3, <1>4 DEF SoundGraph

-----------------------------------------------------------------------------
(* The operations *)

\* Inserting a record loses none, and the records of the commit that follows
\* are those after the insertion.
LEMMA AddNodePresent ==
    ASSUME nodes \in Nodes, NEW n \in NodeId, NEW r \in Records,
           r.kind # "Absent"
    PROVE  Present(nodes) \subseteq Present(add_node(n, r))
BY DEF add_node, Present, Nodes

\* Records with the same contents are the same records.
LEMMA SameCoresPresent ==
    ASSUME NEW ns, NEW ms, SameCores(ns, ms)
    PROVE  Present(ms) = Present(ns)
BY DEF SameCores, Core, Present

\* A commit that stops at one of its edges leaves a sound graph behind.
LEMMA PartialSound ==
    ASSUME TypeOK, GraphInv, NEW n \in NodeId, NEW r \in Records,
           r.kind # "Absent", NEW es \in Seq(Edges),
           PartialCommit(n, r, es)
    PROVE  GraphInv'
<1>1. PICK k \in 1..Len(es) :
         /\ \A j \in 1..(k - 1) :
               ~InsertionStopsAt(add_node(n, r), edges, es, j)
         /\ nodes' = add_node(n, r)
         /\ edges' = EdgesAfter(edges, es, k - 1)
  BY DEF PartialCommit
<1>2. k - 1 \in Nat
  BY LenProperties
<1>3. SoundGraph(add_node(n, r), edges)
  BY AddNodePresent, SoundMonotone DEF GraphInv, TypeOK, Nodes
<1>4. SoundGraph(add_node(n, r), EdgesAfter(edges, es, k - 1))
  BY <1>1, <1>2, <1>3, PrefixSound
<1> QED
  BY <1>1, <1>4 DEF GraphInv

\* The graph after all the edges of a commit were inserted.
LEMMA InsertedSound ==
    ASSUME TypeOK, GraphInv, NEW n \in NodeId, NEW r \in Records,
           r.kind # "Absent", NEW es \in Seq(Edges), AllInserted(n, r, es)
    PROVE  SoundGraph(add_node(n, r), EdgesAfter(edges, es, Len(es)))
<1>1. SoundGraph(add_node(n, r), edges)
  BY AddNodePresent, SoundMonotone DEF GraphInv, TypeOK, Nodes
<1>2. Len(es) \in Nat
  BY LenProperties
<1> QED
  BY <1>1, <1>2, PrefixSound DEF AllInserted

\* The end of a commit keeps the graph it is given.
LEMMA FinishSound ==
    ASSUME NEW auth, NEW base, NEW ns \in Nodes, SameCores(base, ns), NEW es,
           SoundGraph(base, es), NEW ln \in Lineages, NEW S,
           Finish(auth, ns, es, ln, S)
    PROVE  GraphInv'
<1>1. SameCores(ns, nodes') /\ edges' = es
  BY FinishCore
<1>2. Present(nodes') = Present(base)
  BY <1>1, CoresTransitive, SameCoresPresent
<1>3. SoundGraph(nodes', es)
  BY <1>2, SoundMonotone
<1> QED
  BY <1>1, <1>3 DEF GraphInv

\* A route publication keeps the graph sound.
LEMMA PublishRouteSound ==
    ASSUME TypeOK, GraphInv, NEW auth \in Callers, NEW n \in NodeId,
           NEW gen \in 1..MaxGen, NEW bind \in BindingSet,
           NEW root \in BOOLEAN, NEW specs \in SpecLists,
           PublishRoute(auth, n, gen, bind, root, specs)
    PROVE  GraphInv'
<1> DEFINE r  == NewRecord("RouteGeneration", gen, auth, bind, root, None,
                           "Current")
           es == EdgeList(n, specs, auth)
           mid == RetirePrevious(add_node(n, r), n, es)
           ns  == Promote(mid, es)
<1>0. gen \in 0..MaxGen /\ gen # 0
  BY StoreAssumption
<1>1. r \in Records /\ r.kind # "Absent"
  BY <1>0, CallerType, NewRecordType, StoreAssumption
     DEF NewRecord, NodeKinds, NodeLifecycles
<1>2. es \in Seq(Edges)
  BY CallerType, SpecListsType, EdgeListType
<1>3. add_node(n, r) \in Nodes
  BY <1>1, AddNodeType DEF TypeOK, Nodes
<1>4. mid \in Nodes
  BY <1>3, RetirePreviousType
<1>5. ns \in Nodes
  BY <1>4, PromoteType
<1>6. SameCores(add_node(n, r), ns)
  <2>1. SameCores(add_node(n, r), mid)
    BY <1>3, RetirePreviousCore
  <2>2. SameCores(mid, ns)
    BY <1>4, PromoteCore
  <2> QED
    BY <2>1, <2>2, CoresTransitive
<1>7. AdvanceLineage(n, gen) \in Lineages
  BY <1>0 DEF AdvanceLineage, TypeOK, Lineages, LineageLifecycles
<1>8. CASE PartialCommit(n, r, es)
  BY <1>1, <1>2, <1>8, PartialSound
<1>9. CASE /\ AllInserted(n, r, es)
           /\ Finish(auth, ns, EdgesAfter(edges, es, Len(es)),
                     AdvanceLineage(n, gen), {n, lin.cur} \cup Targets(es))
  <2> HIDE DEF r, ns, es
  <2>1. SoundGraph(add_node(n, r), EdgesAfter(edges, es, Len(es)))
    BY <1>1, <1>2, <1>9, InsertedSound
  <2> QED
    BY <1>5, <1>6, <1>7, <1>9, <2>1, FinishSound
<1> QED
  BY <1>8, <1>9 DEF PublishRoute

\* A declaration adds no edge.
LEMMA DeclareSound ==
    ASSUME TypeOK, GraphInv, NEW auth \in Callers, NEW n \in NodeId,
           NEW gen \in 0..MaxGen, NEW bind \in BindingSet,
           Declare(auth, n, gen, bind)
    PROVE  GraphInv'
<1> DEFINE r == NewRecord("Declaration", gen, auth, bind, FALSE, None,
                          "Declared")
<1>1. r \in Records /\ r.kind # "Absent"
  BY CallerType, NewRecordType, StoreAssumption
     DEF NewRecord, NodeKinds, NodeLifecycles
<1>2. add_node(n, r) \in Nodes
  BY <1>1, AddNodeType DEF TypeOK, Nodes
<1>3. Finish(auth, add_node(n, r), edges, lin, {n})
  BY DEF Declare
<1>4. SameCores(add_node(n, r), add_node(n, r)) /\ lin \in Lineages
  BY DEF SameCores, TypeOK
<1> HIDE DEF r
<1>5. SoundGraph(add_node(n, r), edges)
  BY <1>1, AddNodePresent, SoundMonotone DEF GraphInv, TypeOK, Nodes
<1> QED
  BY <1>2, <1>3, <1>4, <1>5, FinishSound

\* A link adds an edge the graph accepts, or one it already holds.
LEMMA LinkSound ==
    ASSUME TypeOK, GraphInv, NEW auth \in Callers, NEW from \in NodeId,
           NEW to \in NodeId, NEW type \in LinkTypes,
           LinkDerivation(auth, from, to, type)
    PROVE  GraphInv'
<1> DEFINE e  == [from |-> from, to |-> to, type |-> type, auth |-> auth]
           ns == IF nodes[to].life = "Declared"
                 THEN update_node_state(nodes, to, "Current", nodes[to].cur,
                                        FALSE)
                 ELSE nodes
<1>1. nodes \in Nodes /\ nodes[to].cur \in CurrentnessValues
      /\ lin \in Lineages
  BY DEF TypeOK, Records, Nodes
<1>2. ns \in Nodes
  BY <1>1, UpdateType DEF NodeLifecycles
<1>3. SameCores(nodes, ns)
  <2>1. SameCores(nodes, nodes)
    BY DEF SameCores
  <2>2. SameCores(nodes, update_node_state(nodes, to, "Current",
                                           nodes[to].cur, FALSE))
    BY <1>1, UpdateCore
  <2> QED
    BY <2>1, <2>2
<1>4. /\ e \notin edges => add_edge_ok(nodes, edges, e)
      /\ Finish(auth, ns, edges \cup {e}, lin, {from, to})
  BY DEF LinkDerivation
<1> HIDE DEF e, ns
<1>5. SoundGraph(nodes, edges \cup {e})
  <2>1. CASE e \in edges
    <3>1. edges \cup {e} = edges
      BY <2>1
    <3> QED
      BY <3>1 DEF GraphInv
  <2>2. CASE e \notin edges
    BY <1>4, <2>2, AddEdgeSound DEF GraphInv
  <2> QED
    BY <2>1, <2>2
<1> QED
  BY <1>1, <1>2, <1>3, <1>4, <1>5, FinishSound

\* What the five administrative actions have in common.
LEMMA AdministerSound ==
    ASSUME TypeOK, GraphInv, NEW auth \in Callers, NEW n \in NodeId,
           NEW target \in NodeId, NEW bind \in BindingSet,
           NEW type \in EdgeTypes, NEW post \in Nodes,
           SameCores(WithAction(auth, n, target, bind), post),
           NEW ln \in Lineages,
           Administer(auth, n, target, bind, type, post, ln)
    PROVE  GraphInv'
<1> DEFINE r  == ActionRecord(auth, target, bind)
           es == EdgeList(n, <<[type |-> type, target |-> target]>>, auth)
<1>1. r \in Records /\ r.kind # "Absent"
  BY ActionRecordType DEF ActionRecord, NewRecord
<1>2. es \in Seq(Edges)
  BY CallerType, OneSpecType, EdgeListType
<1>3. CASE PartialCommit(n, r, es)
  BY <1>1, <1>2, <1>3, PartialSound
<1>4. CASE /\ AllInserted(n, r, es)
           /\ Finish(auth, post, EdgesAfter(edges, es, Len(es)), ln,
                     {n, target})
  <2>1. SameCores(add_node(n, r), post)
    BY DEF WithAction
  <2> HIDE DEF r, es
  <2>2. SoundGraph(add_node(n, r), EdgesAfter(edges, es, Len(es)))
    BY <1>1, <1>2, <1>4, InsertedSound
  <2> QED
    BY <1>4, <2>1, <2>2, FinishSound
<1> QED
  BY <1>3, <1>4 DEF Administer

\* The five administrative actions keep the graph sound.
LEMMA AdministrationSound ==
    ASSUME TypeOK, GraphInv, NEW auth \in Callers, NEW n \in NodeId,
           NEW target \in Present(nodes), NEW bind \in BindingSet,
           \/ Withdraw(auth, n, target, bind)
           \/ Revoke(auth, n, target, bind)
           \/ Retire(auth, n, target, bind)
           \/ Revalidate(auth, n, target, bind)
           \/ Invalidate(auth, n, target, bind)
    PROVE  GraphInv'
<1> DEFINE ns == WithAction(auth, n, target, bind)
           After(life, cur) == update_node_state(ns, target, life, cur, FALSE)
<1>1. target \in NodeId
  BY DEF Present
<1>2. ns \in Nodes
  BY <1>1, ActionRecordType, AddNodeType DEF TypeOK, Nodes, WithAction
<1>3. \A life \in NodeLifecycles, cur \in CurrentnessValues :
         After(life, cur) \in Nodes /\ SameCores(ns, After(life, cur))
  BY <1>1, <1>2, UpdateType, UpdateCore
<1>4. /\ lin \in Lineages
      /\ \A l \in LineageLifecycles : [lin EXCEPT !.life = l] \in Lineages
  BY DEF TypeOK, Lineages
<1>5. {"Withdraws", "RevokedBy", "RetiredBy", "Revalidates", "Invalidates"}
         \subseteq EdgeTypes
  BY DEF EdgeTypes
<1>6. CASE Withdraw(auth, n, target, bind)
  <2>1. /\ After("Historical", "HistoricalOnly") \in Nodes
        /\ SameCores(ns, After("Historical", "HistoricalOnly"))
    BY <1>3 DEF NodeLifecycles, CurrentnessValues
  <2>2. [lin EXCEPT !.life = "Withdrawn"] \in Lineages
    BY <1>4 DEF LineageLifecycles
  <2> QED
    BY <1>1, <1>5, <1>6, <2>1, <2>2, AdministerSound DEF Withdraw, WithAction
<1>7. CASE Revoke(auth, n, target, bind)
  <2>1. /\ After("Revoked", "HistoricalOnly") \in Nodes
        /\ SameCores(ns, After("Revoked", "HistoricalOnly"))
    BY <1>3 DEF NodeLifecycles, CurrentnessValues
  <2>2. [lin EXCEPT !.life = "Revoked"] \in Lineages
    BY <1>4 DEF LineageLifecycles
  <2> QED
    BY <1>1, <1>5, <1>7, <2>1, <2>2, AdministerSound DEF Revoke, WithAction
<1>8. CASE Retire(auth, n, target, bind)
  <2>1. /\ After("Retired", "HistoricalOnly") \in Nodes
        /\ SameCores(ns, After("Retired", "HistoricalOnly"))
    BY <1>3 DEF NodeLifecycles, CurrentnessValues
  <2>2. [lin EXCEPT !.life = "Retired"] \in Lineages
    BY <1>4 DEF LineageLifecycles
  <2> QED
    BY <1>1, <1>5, <1>8, <2>1, <2>2, AdministerSound DEF Retire, WithAction
<1>9. CASE Revalidate(auth, n, target, bind)
  <2> DEFINE mid  == After("Current", "RevalidationRequired")
             post == mark_revalidated(mid, target)
  <2>1. mid \in Nodes /\ SameCores(ns, mid)
    BY <1>3 DEF NodeLifecycles, CurrentnessValues
  <2>2. post \in Nodes
    BY <1>1, <2>1, MarkRevalidatedType
  <2>3. SameCores(ns, post)
    BY <1>1, <2>1, MarkersCore, CoresTransitive
  <2> QED
    BY <1>1, <1>4, <1>5, <1>9, <2>2, <2>3, AdministerSound
       DEF Revalidate, WithAction
<1>10. CASE Invalidate(auth, n, target, bind)
  <2>1. /\ After("Invalid", "HistoricalOnly") \in Nodes
        /\ SameCores(ns, After("Invalid", "HistoricalOnly"))
    BY <1>3 DEF NodeLifecycles, CurrentnessValues
  <2>2. lin \in Lineages
    BY <1>4 DEF LineageLifecycles
  <2> QED
    BY <1>1, <1>5, <1>10, <2>1, <2>2, AdministerSound DEF Invalidate, WithAction
<1> QED
  BY <1>6, <1>7, <1>8, <1>9, <1>10

\* A correction keeps the graph sound: its own edge is checked like any other,
\* and the successor edges it rebinds all leave the replacement, so that a
\* cycle would need only one of them.
LEMMA CorrectSound ==
    ASSUME TypeOK, GraphInv, NEW auth \in Callers, NEW n \in NodeId,
           NEW target \in Present(nodes), NEW bind \in BindingSet,
           Correct(auth, n, target, bind)
    PROVE  GraphInv'
<1> DEFINE specs == <<[type |-> "Corrects", target |-> target]>>
           r     == Replacement(auth, target, bind)
           es    == EdgeList(n, specs, auth)
           base  == EdgesAfter(edges, es, Len(es))
           all   == Rebound(base, n, target, auth)
           mid   == set_corrected_by(add_node(n, r), target, n)
           ns    == update_node_state(mid, target, "Invalid",
                                      "HistoricalOnly", FALSE)
           ln    == [lin EXCEPT !.cur = IF @ = target THEN n ELSE @]
<1>1. target \in NodeId /\ nodes[target].kind \in NodeKinds
  BY DEF Present, TypeOK, Records
<1>2. r \in Records /\ r.kind # "Absent"
  <2>1. nodes[target].gen \in 0..MaxGen /\ nodes[target].root \in BOOLEAN
    BY <1>1 DEF TypeOK, Records
  <2>2. r \in Records
    BY <1>1, <2>1, CallerType, NewRecordType, StoreAssumption
       DEF Replacement, NodeLifecycles
  <2> QED
    BY <1>1, <2>2 DEF Replacement, NewRecord, NodeKinds
<1>3. add_node(n, r) \in Nodes
  BY <1>2, AddNodeType DEF TypeOK, Nodes
<1>4. mid \in Nodes
  BY <1>1, <1>3 DEF set_corrected_by, Nodes, Records
<1>5. ns \in Nodes
  BY <1>1, <1>4, UpdateType DEF NodeLifecycles, CurrentnessValues
<1>6. SameCores(add_node(n, r), ns)
  <2>1. SameCores(add_node(n, r), mid)
    BY <1>1, <1>3, MarkersCore
  <2>2. SameCores(mid, ns)
    BY <1>1, <1>4, UpdateCore
  <2> QED
    BY <2>1, <2>2, CoresTransitive
<1>7. ln \in Lineages
  BY DEF TypeOK, Lineages
<1>8. es \in Seq(Edges)
  BY <1>1, CallerType, OneSpecType, EdgeListType DEF EdgeTypes
<1>9. CASE PartialCommit(n, r, es)
  BY <1>2, <1>8, <1>9, PartialSound
<1>10. CASE /\ AllInserted(n, r, es)
            /\ \E rb \in SUBSET all :
                  /\ RebindAccepts(add_node(n, r), base, all, rb)
                  /\ Finish(auth, ns, base \cup rb, ln, {n, target})
  <2>1. PICK rb \in SUBSET all :
           /\ RebindAccepts(add_node(n, r), base, all, rb)
           /\ Finish(auth, ns, base \cup rb, ln, {n, target})
    BY <1>10
  <2>2. SoundGraph(add_node(n, r), base)
    BY <1>2, <1>8, <1>10, InsertedSound
  <2>3. IsFiniteSet(rb)
    <3> HIDE DEF base
    <3> QED
      BY <2>2, ReboundFinite DEF SoundGraph
  <2>4. \A e \in rb : e.from = n
    <3>1. base \subseteq Edges
      BY <1>8, AllEdgesType
    <3> HIDE DEF base
    <3> QED
      BY <3>1 DEF Rebound, Edges
  <2>5. \A e \in rb : add_edge_ok(add_node(n, r), base \cup (rb \ {e}), e)
    BY <2>1 DEF RebindAccepts
  <2> HIDE DEF r, ns, ln, base, all
  <2>6. SoundGraph(add_node(n, r), base \cup rb)
    BY <2>2, <2>3, <2>4, <2>5, RebindSound
  <2> QED
    BY <1>5, <1>6, <1>7, <2>1, <2>6, FinishSound
<1> QED
  BY <1>9, <1>10 DEF Correct

-----------------------------------------------------------------------------
(* The theorem *)

\* A step that leaves the edges alone and loses no record keeps the graph
\* sound.
LEMMA UnchangedSound ==
    ASSUME GraphInv, edges' = edges, Present(nodes) \subseteq Present(nodes')
    PROVE  GraphInv'
BY SoundMonotone DEF GraphInv

\* A step that only touches record states is of that kind.
LEMMA QuietSound ==
    ASSUME GraphInv, Quiet
    PROVE  GraphInv'
<1>1. Present(nodes') = Present(nodes)
  BY SameCoresPresent DEF Quiet
<1> QED
  BY <1>1, UnchangedSound DEF Quiet

\* So is a compaction.
LEMMA PruningSound ==
    ASSUME GraphInv, Pruning
    PROVE  GraphInv'
<1>1. Present(nodes) \subseteq Present(nodes')
  BY DEF Pruning, Core, Present
<1> QED
  BY <1>1, UnchangedSound DEF Pruning

\* Every step keeps the graph sound.
LEMMA StepSound ==
    ASSUME TypeOK, GraphInv, [Next]_vars
    PROVE  GraphInv'
<1>1. CASE Publication
  <2> SUFFICES ASSUME NEW auth \in Callers, NEW n \in NodeId,
                      \/ RoutePublication(auth, n)
                      \/ Declaration(auth, n)
                      \/ Correction(auth, n)
                      \/ Administration(auth, n)
               PROVE  GraphInv'
    BY <1>1 DEF Publication
  <2>1. CASE RoutePublication(auth, n)
    BY <2>1, PublishRouteSound DEF RoutePublication
  <2>2. CASE Declaration(auth, n)
    BY <2>2, DeclareSound DEF Declaration
  <2>3. CASE Correction(auth, n)
    BY <2>3, CorrectSound DEF Correction
  <2>4. CASE Administration(auth, n)
    BY <2>4, AdministrationSound DEF Administration
  <2> QED
    BY <2>1, <2>2, <2>3, <2>4
<1>2. CASE Maintenance
  <2> SUFFICES ASSUME NEW auth \in Callers,
                      Link(auth) \/ Compaction(auth)
               PROVE  GraphInv'
    BY <1>2 DEF Maintenance
  <2>1. CASE Link(auth)
    BY <2>1, LinkSound DEF Link
  <2>2. CASE Compaction(auth)
    BY <2>2, CompactPruning, PruningSound DEF Compaction
  <2> QED
    BY <2>1, <2>2
<1>3. CASE Registration
  BY <1>3, RegistrationQuiet, QuietSound
<1>4. CASE Notification
  BY <1>4, NotificationQuiet, QuietSound
<1>5. CASE Restart
  BY <1>5, RestartQuiet, QuietSound
<1>6. CASE Elsewhere
  BY <1>6, ElsewhereKeeps, StutterQuiet, QuietSound
<1>7. CASE UNCHANGED vars
  BY <1>7, StutterQuiet, QuietSound DEF vars
<1> QED
  BY <1>1, <1>2, <1>3, <1>4, <1>5, <1>6, <1>7 DEF Next

\* The empty graph is sound.
LEMMA InitSound == Init => GraphInv
<1> SUFFICES ASSUME Init
             PROVE  GraphInv
  OBVIOUS
<1>1. edges = {} /\ IsFiniteSet({}) /\ Cardinality({}) = 0
  BY FS_EmptySet DEF Init
<1>2. \A n \in NodeId : incoming_count({}, n) = 0 /\ outgoing_count({}, n) = 0
  <2> TAKE n \in NodeId
  <2>1. {e \in {} : e.to = n} = {} /\ {e \in {} : e.from = n} = {}
    OBVIOUS
  <2> QED
    BY <1>1, <2>1 DEF incoming_count, outgoing_count
<1>3. 0 <= Limits.parents /\ 0 <= Limits.children
  BY LimitsAreValid
<1>4. Acyclic({})
  BY DEF Acyclic
<1> QED
  BY <1>1, <1>2, <1>3, <1>4 DEF GraphInv, SoundGraph

\* The inductive form holds in every reachable state.
LEMMA GraphInvariance == Spec => []GraphInv
<1>1. TypeOK /\ GraphInv /\ [Next]_vars => GraphInv'
  BY StepSound
<1> QED
  BY <1>1, InitSound, TypeCorrect, PTL DEF Spec

\* The derivation graph of the store is sound in every reachable state.
THEOREM GraphAlwaysSound == Spec => []GraphSound
<1>1. GraphInv => GraphSound
  BY DEF GraphInv, SoundGraph, GraphSound
<1> QED
  BY <1>1, GraphInvariance, PTL

-----------------------------------------------------------------------------
(* Traversal *)

\* The records one edge away from those of S.
Beyond(es, S) == {e.to : e \in {f \in es : f.from \in S}}

\* f lists what lies within 0, 1, ..., d edges of o.
Levels(es, o, d, f) ==
    f = [k \in 0..d |-> IF k = 0 THEN {o}
                        ELSE f[k - 1] \cup Beyond(es, f[k - 1])]

\* The recursive definition of Within has a solution for every depth: the
\* solution for the least depth without one would extend the one before it.
LEMMA LevelsExist ==
    ASSUME NEW es, NEW o, NEW d \in Nat
    PROVE  \E f : Levels(es, o, d, f)
<1> DEFINE bad == {k \in Nat : ~\E f : Levels(es, o, k, f)}
<1> SUFFICES ASSUME bad # {}
             PROVE  FALSE
  OBVIOUS
<1>1. bad \in SUBSET Nat
  OBVIOUS
<1>2. PICK k \in bad : \A j \in bad : k <= j
  BY <1>1, LeastNumber
<1>3. k \in Nat /\ ~\E f : Levels(es, o, k, f)
  OBVIOUS
<1>4. CASE k = 0
  <2> DEFINE f == [i \in 0..0 |-> {o}]
  <2>1. Levels(es, o, 0, f)
    BY DEF Levels
  <2> QED
    BY <1>3, <1>4, <2>1
<1>5. CASE k # 0
  <2>1. k - 1 \in Nat /\ k - 1 \notin bad
    BY <1>2, <1>3, <1>5
  <2>2. PICK g : Levels(es, o, k - 1, g)
    BY <2>1
  <2> DEFINE f == [i \in 0..k |-> IF i = 0 THEN {o}
                                  ELSE g[i - 1] \cup Beyond(es, g[i - 1])]
  <2>3. \A i \in 0..(k - 1) : f[i] = g[i]
    <3> TAKE i \in 0..(k - 1)
    <3>1. i \in 0..k
      BY <1>3
    <3>2. g[i] = IF i = 0 THEN {o} ELSE g[i - 1] \cup Beyond(es, g[i - 1])
      BY <2>2 DEF Levels
    <3> QED
      BY <3>1, <3>2
  <2>4. \A i \in 0..k : i # 0 => f[i - 1] = g[i - 1]
    <3> TAKE i \in 0..k
    <3>1. i # 0 => i - 1 \in 0..(k - 1)
      BY <1>3
    <3> HIDE DEF f
    <3> QED
      BY <2>3, <3>1
  <2>5. f = [i \in 0..k |-> IF i = 0 THEN {o}
                            ELSE f[i - 1] \cup Beyond(es, f[i - 1])]
    BY <2>4
  <2> HIDE DEF f
  <2>6. Levels(es, o, k, f)
    BY <2>5 DEF Levels
  <2> QED
    BY <1>3, <2>6
<1> QED
  BY <1>4, <1>5

\* Within is the last level.
LEMMA WithinLevels ==
    ASSUME NEW es, NEW o, NEW d \in Nat
    PROVE  \E f : Levels(es, o, d, f) /\ Within(es, o, d) = f[d]
<1> DEFINE level == CHOOSE f : Levels(es, o, d, f)
<1>1. Levels(es, o, d, level)
  BY LevelsExist
<1>2. Within(es, o, d) = level[d]
  BY DEF Within, Levels, Beyond
<1> QED
  BY <1>1, <1>2

\* Levels grow.
LEMMA LevelsGrow ==
    ASSUME NEW es, NEW o, NEW d \in Nat, NEW f, Levels(es, o, d, f),
           NEW k \in 0..d, k # 0
    PROVE  /\ f[0] = {o}
           /\ f[k] = f[k - 1] \cup Beyond(es, f[k - 1])
<1>1. \A i \in 0..d : f[i] = IF i = 0 THEN {o}
                             ELSE f[i - 1] \cup Beyond(es, f[i - 1])
  BY DEF Levels
<1>2. f[0] = {o}
  <2>1. 0 \in 0..d
    OBVIOUS
  <2> QED
    BY <1>1, <2>1
<1>3. f[k] = f[k - 1] \cup Beyond(es, f[k - 1])
  BY <1>1, Zenon
<1> QED
  BY <1>2, <1>3

\* A walk stays in a set that contains its origin and is closed.
LEMMA WithinClosed ==
    ASSUME NEW es, NEW o, NEW d \in Nat, NEW S, o \in S, ClosedUnder(es, S)
    PROVE  Within(es, o, d) \subseteq S
<1>1. PICK f : Levels(es, o, d, f) /\ Within(es, o, d) = f[d]
  BY WithinLevels
<1> DEFINE bad == {k \in 0..d : ~(f[k] \subseteq S)}
<1> SUFFICES ASSUME bad # {}
             PROVE  FALSE
  BY <1>1
<1>2. bad \in SUBSET Nat
  OBVIOUS
<1>3. PICK k \in bad : \A j \in bad : k <= j
  BY <1>2, LeastNumber
<1>4. k \in 0..d /\ ~(f[k] \subseteq S)
  OBVIOUS
<1>5. CASE k = 0
  <2>1. f[0] = {o}
    BY <1>1 DEF Levels
  <2> QED
    BY <1>4, <1>5, <2>1
<1>6. CASE k # 0
  <2>1. k - 1 \in 0..d /\ k - 1 < k
    BY <1>4, <1>6
  <2>2. k - 1 \notin bad
    <3> HIDE DEF bad
    <3> QED
      BY <1>3, <1>4, <2>1
  <2>3. f[k - 1] \subseteq S
    BY <2>1, <2>2
  <2>4. Beyond(es, f[k - 1]) \subseteq S
    BY <2>3 DEF Beyond, ClosedUnder
  <2>5. f[k] = f[k - 1] \cup Beyond(es, f[k - 1])
    BY <1>1, <1>4, <1>6, LevelsGrow
  <2> QED
    BY <1>4, <2>3, <2>4, <2>5
<1> QED
  BY <1>5, <1>6

-----------------------------------------------------------------------------
(* Compaction *)

\* Only a compaction turns a record into a summary.
LEMMA StepKeeps ==
    ASSUME TypeOK, [Next]_vars
    PROVE  \/ \E auth \in Callers, d \in 1..Limits.depth :
                 \E S : Compact(auth, d, S)
           \/ \A m \in Present(nodes) : Core(nodes'[m]) = Core(nodes[m])
<1>1. CASE Publication
  <2> SUFFICES ASSUME NEW auth \in Callers, NEW n \in NodeId,
                      \/ RoutePublication(auth, n)
                      \/ Declaration(auth, n)
                      \/ Correction(auth, n)
                      \/ Administration(auth, n)
               PROVE  Growth
    BY <1>1 DEF Publication, Growth
  <2>1. CASE RoutePublication(auth, n)
    BY <2>1, PublishRouteGrowth DEF RoutePublication
  <2>2. CASE Declaration(auth, n)
    BY <2>2, DeclareGrowth DEF Declaration
  <2>3. CASE Correction(auth, n)
    BY <2>3, CorrectGrowth DEF Correction
  <2>4. CASE Administration(auth, n)
    BY <2>4, AdministrationGrowth DEF Administration
  <2> QED
    BY <2>1, <2>2, <2>3, <2>4
<1>2. CASE Maintenance
  <2>1. ASSUME NEW auth \in Callers, Link(auth)
        PROVE  Growth
    BY <2>1, LinkGrowth DEF Link
  <2> QED
    BY <1>2, <2>1 DEF Maintenance, Compaction, Growth
<1>3. CASE Registration \/ Notification \/ Restart
  <2>1. Quiet
    BY <1>3, RegistrationQuiet, NotificationQuiet, RestartQuiet
  <2> QED
    BY <2>1 DEF Quiet, SameCores, Present
<1>4. CASE Elsewhere
  BY <1>4, ElsewhereKeeps
<1>5. CASE UNCHANGED vars
  BY <1>5 DEF vars, Core
<1> QED
  BY <1>1, <1>2, <1>3, <1>4, <1>5 DEF Next

\* The records a step replaces by summaries.
Lost == {n \in Present(nodes) : /\ nodes[n].kind # "CompactedSummary"
                                /\ nodes'[n].kind = "CompactedSummary"}

\* A compaction replaces the records it selected and no others.
LEMMA CompactLoses ==
    ASSUME TypeOK, NEW auth, NEW d, NEW S, Compact(auth, d, S)
    PROVE  Lost = S
<1>1. /\ nodes' = [n \in NodeId |-> IF n \in S
                                    THEN Tombstone(nodes[n], auth)
                                    ELSE nodes[n]]
      /\ S \subseteq CompactionCandidates(d)
  BY DEF Compact
<1>2. ASSUME NEW n \in S
      PROVE  n \in Lost
  <2>1. n \in NodeId /\ node_is_history_record(nodes[n])
    BY <1>1 DEF CompactionCandidates
  <2>2. n \in Present(nodes) /\ nodes[n].kind # "CompactedSummary"
    BY <2>1 DEF node_is_history_record, NodeKinds, Present
  <2>3. nodes'[n] = Tombstone(nodes[n], auth)
    BY <1>1, <2>1
  <2>4. nodes'[n].kind = "CompactedSummary"
    BY <2>1, <2>3 DEF Tombstone, TypeOK, Records
  <2> QED
    BY <2>2, <2>4 DEF Lost
<1>3. ASSUME NEW n \in Lost
      PROVE  n \in S
  BY <1>1 DEF Lost, Present
<1> QED
  BY <1>2, <1>3

\* A compaction at depth d leaves what a walk of that depth finds, if the walk
\* finds no more than it may return.
LEMMA CompactSpares ==
    ASSUME TypeOK, CurrentRecord, GraphInv, lin.cur # None,
           NEW auth, NEW d \in 1..Limits.depth, NEW S, Compact(auth, d, S),
           Cardinality(Within(edges, lin.cur, d)) <= Limits.results
    PROVE  Within(edges, lin.cur, d) \cap S = {}
<1> DEFINE found == Within(edges, lin.cur, d)
<1>1. found \subseteq Present(nodes)
  <2>1. lin.cur \in Present(nodes)
    BY DEF CurrentRecord, Present
  <2>2. ClosedUnder(edges, Present(nodes))
    BY DEF GraphInv, SoundGraph, ClosedUnder
  <2>3. d \in Nat
    BY LimitsAreValid
  <2> QED
    BY <2>1, <2>2, <2>3, WithinClosed
<1>2. traverse(edges, lin.cur, d) = found
  <2>1. Cardinality(found) \in Nat /\ Limits.results \in Nat
    <3> HIDE DEF found
    <3>1. IsFiniteSet(found)
      BY <1>1, FS_Subset, NodeIdAssumption DEF Present
    <3> QED
      BY <3>1, FS_CardinalityType, LimitsAreValid
  <2>2. Cardinality(found) <= Limits.results
    OBVIOUS
  <2>3. ~(Cardinality(found) > Limits.results)
    <3> HIDE DEF found
    <3> QED
      BY <2>1, <2>2
  <2> QED
    BY <2>3 DEF traverse
<1>3. found \subseteq Protected(d)
  BY <1>2 DEF Protected
<1>4. S \cap Protected(d) = {}
  BY DEF Compact, CompactionCandidates
<1> QED
  BY <1>3, <1>4

\* Compaction keeps the present explanation at the whole depth the caller asked
\* to retain, and no other call replaces a record by a summary.
THEOREM ExplanationSurvives == Spec => ExplanationIsKept
<1> DEFINE kept ==
        Lost # {} =>
          /\ \E auth \in Callers, d \in 1..Limits.depth :
                Compact(auth, d, Lost)
          /\ \A auth \in Callers, d \in 1..Limits.depth :
                /\ lin.cur # None
                /\ Compact(auth, d, Lost)
                /\ Cardinality(Within(edges, lin.cur, d)) <= Limits.results
                => Within(edges, lin.cur, d) \cap Lost = {}
<1>1. ASSUME TypeOK, CurrentRecord, GraphInv, [Next]_vars
      PROVE  kept
  <2> SUFFICES ASSUME Lost # {}
               PROVE  kept
    OBVIOUS
  <2>1. ~\A m \in Present(nodes) : Core(nodes'[m]) = Core(nodes[m])
    BY DEF Lost, Core
  <2>2. PICK auth \in Callers, d \in 1..Limits.depth :
           \E S : Compact(auth, d, S)
    BY <1>1, <2>1, StepKeeps
  <2>3. Compact(auth, d, Lost)
    BY <1>1, <2>2, CompactLoses
  <2> QED
    BY <1>1, <2>3, CompactSpares
<1>2. TypeOK /\ CurrentRecord /\ GraphInv /\ [Next]_vars => kept
  BY <1>1
<1>3. TypeOK /\ CurrentRecord /\ GraphInv /\ [Next]_vars =>
         LET lost == {n \in Present(nodes) :
                         /\ nodes[n].kind # "CompactedSummary"
                         /\ nodes'[n].kind = "CompactedSummary"}
         IN lost # {} =>
              /\ \E auth \in Callers, d \in 1..Limits.depth :
                    Compact(auth, d, lost)
              /\ \A auth \in Callers, d \in 1..Limits.depth :
                    /\ lin.cur # None
                    /\ Compact(auth, d, lost)
                    /\ Cardinality(Within(edges, lin.cur, d))
                          <= Limits.results
                    => Within(edges, lin.cur, d) \cap lost = {}
  BY <1>2 DEF Lost
<1> QED
  BY <1>3, TypeCorrect, CurrentRecordHolds, GraphInvariance, PTL
     DEF Spec, ExplanationIsKept

=============================================================================
