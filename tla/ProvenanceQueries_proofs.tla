---------------------- MODULE ProvenanceQueries_proofs ----------------------
(***************************************************************************)
(* What the reading algorithms compute, for every graph and every value of *)
(* the constants: the topological sort finds exactly the cycles, the       *)
(* breadth-first walk exactly the records within its bounds, explanations  *)
(* are connected, and a diff tells the whole step.                         *)
(*                                                                         *)
(* A loop is a table with one entry per turn; a claim about all turns is   *)
(* shown by the least turn at which it would fail.                         *)
(***************************************************************************)
EXTENDS ProvenanceQueries, StoreGraph_proofs

-----------------------------------------------------------------------------
(* Listings of finite sets *)

\* A set listed by n different entries has n elements.
LEMMA ListedOnce ==
    ASSUME NEW n \in Nat, NEW f, NEW R,
           \A i \in 1..n : f[i] \in R,
           \A r \in R : \E i \in 1..n : f[i] = r,
           \A i, j \in 1..n : f[i] = f[j] => i = j
    PROVE  IsFiniteSet(R) /\ Cardinality(R) = n
<1> DEFINE g == [i \in 1..n |-> f[i]]
<1>1. g \in [1..n -> R]
  OBVIOUS
<1>2. IsInjective(g)
  BY DEF IsInjective
<1>3. \A r \in R : \E i \in 1..n : g[i] = r
  OBVIOUS
<1>4. g \in Bijection(1..n, R)
  BY <1>1, <1>2, <1>3 DEF Bijection, Injection, Surjection
<1>5. ExistsBijection(1..n, R)
  BY <1>4 DEF ExistsBijection
<1>6. IsFiniteSet(R)
  BY <1>5, FS_NatBijection
<1>7. Cardinality(R) = n
  BY <1>5, FS_CountingElements
<1> QED
  BY <1>6, <1>7

\* n different entries are n elements.
LEMMA DistinctEntries ==
    ASSUME NEW n \in Nat, NEW f,
           \A i, j \in 1..n : f[i] = f[j] => i = j
    PROVE  /\ IsFiniteSet({f[i] : i \in 1..n})
           /\ Cardinality({f[i] : i \in 1..n}) = n
<1> DEFINE R == {f[i] : i \in 1..n}
<1>1. \A i \in 1..n : f[i] \in R
  OBVIOUS
<1>2. \A r \in R : \E i \in 1..n : f[i] = r
  OBVIOUS
<1>3. IsFiniteSet(R) /\ Cardinality(R) = n
  <2> HIDE DEF R
  <2> QED
    BY <1>1, <1>2, ListedOnce
<1> QED
  BY <1>3

\* As many different entries as there are elements are all the elements.
LEMMA AllListed ==
    ASSUME NEW S, IsFiniteSet(S), NEW s \in [1..Cardinality(S) -> S],
           IsInjective(s)
    PROVE  /\ \A i, j \in 1..Cardinality(S) : s[i] = s[j] => i = j
           /\ {s[i] : i \in 1..Cardinality(S)} = S
<1> DEFINE n == Cardinality(S)
           R == {s[i] : i \in 1..n}
<1>1. n \in Nat
  BY FS_CardinalityType
<1>2. \A i, j \in 1..n : s[i] = s[j] => i = j
  BY DEF IsInjective
<1>3. R \in SUBSET S
  OBVIOUS
<1>4. /\ \A i \in 1..n : s[i] \in R
      /\ \A r \in R : \E i \in 1..n : s[i] = r
  OBVIOUS
<1>5. Cardinality(R) = n
  <2> HIDE DEF n, R
  <2> QED
    BY <1>1, <1>2, <1>4, ListedOnce
<1>6. R = S
  <2> HIDE DEF R
  <2> QED
    BY <1>3, <1>5, FS_Subset
<1> QED
  BY <1>2, <1>6

\* SetToSeq lists every element of a finite set once.
LEMMA Listing ==
    ASSUME NEW S, IsFiniteSet(S)
    PROVE  LET s == SetToSeq(S)
           IN /\ s \in Seq(S)
              /\ Len(s) = Cardinality(S)
              /\ \A i, j \in 1..Len(s) : s[i] = s[j] => i = j
              /\ {s[i] : i \in 1..Len(s)} = S
<1> DEFINE n == Cardinality(S)
           s == SetToSeq(S)
<1>1. n \in Nat /\ ExistsBijection(1..n, S)
  BY FS_CardinalityType
<1>2. PICK f \in [1..n -> S] : IsInjective(f)
  BY <1>1 DEF ExistsBijection, Bijection, Injection
<1>3. s \in [1..n -> S] /\ IsInjective(s)
  BY <1>2 DEF SetToSeq
<1> HIDE DEF s
<1>4. s \in Seq(S) /\ Len(s) = n
  BY <1>1, <1>3
<1>5. /\ \A i, j \in 1..n : s[i] = s[j] => i = j
      /\ {s[i] : i \in 1..n} = S
  BY <1>3, AllListed
<1> QED
  BY <1>4, <1>5 DEF s

\* Among sets of records that are not none at all, one is smallest.
LEMMA SmallestSet ==
    ASSUME NEW W \in SUBSET (SUBSET NodeId), W # {}
    PROVE  \E R \in W : \A Q \in W : Q \subseteq R => Q = R
<1> DEFINE O == StrictSubsetOrdering(NodeId)
<1>1. W \subseteq FiniteSubsetsOf(NodeId)
  BY NodeIdAssumption, FS_FiniteSubsetsOfFinite
<1>2. PICK R \in W : \A Q \in W : ~(<<Q, R>> \in O)
  BY <1>1, FS_StrictSubsetOrderingWellFounded, WFMin
<1>3. \A Q \in W : Q \subseteq R => Q = R
  BY <1>2 DEF StrictSubsetOrdering
<1> QED
  BY <1>3

-----------------------------------------------------------------------------
(* Cycles *)

\* In an acyclic graph every set of records has one without a parent in it:
\* Acyclic speaks of children, and a smallest set without such a record would
\* lose one that has no child in it.
LEMMA SourceExists ==
    ASSUME NEW es, Acyclic(es), NEW R \in SUBSET NodeId, R # {}
    PROVE  \E n \in R : \A e \in es : e.to = n => e.from \notin R
<1> DEFINE NoSource(Q) == \A n \in Q : \E e \in es : e.to = n /\ e.from \in Q
           W == {Q \in SUBSET NodeId : Q # {} /\ NoSource(Q)}
<1> SUFFICES ASSUME W # {}
             PROVE  FALSE
  OBVIOUS
<1>1. PICK Q \in W : \A P \in W : P \subseteq Q => P = Q
  <2>1. W \in SUBSET (SUBSET NodeId)
    OBVIOUS
  <2> HIDE DEF W
  <2> QED
    BY <2>1, SmallestSet
<1>2. Q \in SUBSET NodeId /\ Q # {} /\ NoSource(Q)
  OBVIOUS
<1>3. PICK s \in Q : \A e \in es : e.from = s => e.to \notin Q
  BY <1>2 DEF Acyclic
<1> DEFINE P == Q \ {s}
<1>4. NoSource(P)
  <2> SUFFICES ASSUME NEW n \in P
               PROVE  \E e \in es : e.to = n /\ e.from \in P
    OBVIOUS
  <2>1. PICK e \in es : e.to = n /\ e.from \in Q
    BY <1>2
  <2>2. e.from # s
    BY <1>3, <2>1
  <2> QED
    BY <2>1, <2>2
<1>5. P # {}
  <2>1. PICK e \in es : e.to = s /\ e.from \in Q
    BY <1>2
  <2>2. e.from # s
    BY <1>3, <2>1
  <2> QED
    BY <2>1, <2>2
<1>6. P \in W
  BY <1>2, <1>4, <1>5
<1>7. P \subseteq Q /\ P # Q
  OBVIOUS
<1> HIDE DEF W, P
<1> QED
  BY <1>1, <1>6, <1>7

\* The cycle check refuses no edge that would be harmless: a path from the
\* target to the origin is a cycle with the new edge.
LEMMA RefusedEdgeIsCyclic ==
    ASSUME NEW es, NEW e, e.from \in NodeId, e.to \in NodeId,
           \A f \in es : f.to \in NodeId,
           Reaches(es, e.to, e.from)
    PROVE  ~Acyclic(es \cup {e})
<1> DEFINE T == {n \in NodeId : /\ Reaches(es, e.to, n)
                                /\ Reaches(es, n, e.from)}
<1>1. e.to \in T /\ e.from \in T
  BY DEF Reaches
<1>2. ASSUME NEW n \in T, n # e.from
      PROVE  \E f \in es : f.from = n /\ f.to \in T
  <2>1. PICK f \in es : f.from = n /\ Reaches(es, f.to, e.from)
    <3> SUFFICES ASSUME \A f \in es : f.from = n =>
                           ~Reaches(es, f.to, e.from)
                 PROVE  FALSE
      OBVIOUS
    <3> DEFINE U == {m \in NodeId : ~Reaches(es, m, e.from)} \cup {n}
    <3>1. ClosedUnder(es, U)
      <4> SUFFICES ASSUME NEW f \in es, f.from \in U
                   PROVE  f.to \in U
        BY DEF ClosedUnder
      <4>1. CASE f.from = n
        BY <4>1
      <4>2. CASE f.from # n
        <5>1. PICK C \in SUBSET NodeId :
                 f.from \in C /\ ClosedUnder(es, C) /\ e.from \notin C
          BY <4>2 DEF Reaches
        <5>2. f.to \in C
          BY <5>1 DEF ClosedUnder
        <5>3. ~Reaches(es, f.to, e.from)
          BY <5>1, <5>2 DEF Reaches
        <5> QED
          BY <5>3
      <4> QED
        BY <4>1, <4>2
    <3>2. e.from \notin U
      BY <1>2 DEF Reaches
    <3>3. U \in SUBSET NodeId /\ n \in U
      OBVIOUS
    <3>4. Reaches(es, n, e.from)
      OBVIOUS
    <3> HIDE DEF U
    <3> QED
      BY <3>1, <3>2, <3>3, <3>4 DEF Reaches
  <2>2. Reaches(es, e.to, f.to)
    <3>1. Reaches(es, e.to, n)
      OBVIOUS
    <3> QED
      BY <2>1, <3>1 DEF Reaches, ClosedUnder
  <2> QED
    BY <2>1, <2>2
<1>3. \A n \in T : \E f \in es \cup {e} : f.from = n /\ f.to \in T
  BY <1>1, <1>2
<1> HIDE DEF T
<1>4. T \in SUBSET NodeId
  BY DEF T
<1> QED
  BY <1>1, <1>3, <1>4 DEF Acyclic

\* The search of add_edge decides exactly whether the new edge closes a cycle.
LEMMA CheckIsExact ==
    ASSUME NEW es, Acyclic(es), \A f \in es : f.to \in NodeId,
           NEW e, e.from \in NodeId, e.to \in NodeId
    PROVE  check_add_edge(es, e) <=> Acyclic(es \cup {e})
BY AddEdgeAcyclic, RefusedEdgeIsCyclic DEF check_add_edge

-----------------------------------------------------------------------------
(* The topological sort *)

SortStart(P, es) ==
    LET degrees == [n \in P |-> incoming_count(es, n)]
    IN [order  |-> <<>>,
        degree |-> degrees,
        ready  |-> {n \in P : degrees[n] = 0}]

\* f lists the states of the sort after 0, 1, ..., d turns.
Turns(P, es, d, f) ==
    f = [k \in 0..d |-> IF k = 0 THEN SortStart(P, es)
                        ELSE TakeReady(es, P, f[k - 1])]

\* The recursive definition of the sort has a solution.
LEMMA TurnsExist ==
    ASSUME NEW P, NEW es, NEW d \in Nat
    PROVE  \E f : Turns(P, es, d, f)
<1> DEFINE bad == {k \in Nat : ~\E f : Turns(P, es, k, f)}
<1> SUFFICES ASSUME bad # {}
             PROVE  FALSE
  OBVIOUS
<1>1. bad \in SUBSET Nat
  OBVIOUS
<1>2. PICK k \in bad : \A j \in bad : k <= j
  BY <1>1, LeastNumber
<1>3. k \in Nat /\ ~\E f : Turns(P, es, k, f)
  OBVIOUS
<1>4. CASE k = 0
  <2> DEFINE f == [i \in 0..0 |-> SortStart(P, es)]
  <2>1. Turns(P, es, 0, f)
    BY DEF Turns
  <2> QED
    BY <1>3, <1>4, <2>1
<1>5. CASE k # 0
  <2>1. k - 1 \in Nat /\ k - 1 \notin bad
    BY <1>2, <1>3, <1>5
  <2>2. PICK g : Turns(P, es, k - 1, g)
    BY <2>1
  <2> DEFINE f == [i \in 0..k |-> IF i = 0 THEN SortStart(P, es)
                                  ELSE TakeReady(es, P, g[i - 1])]
  <2>3. \A i \in 0..(k - 1) : f[i] = g[i]
    <3> TAKE i \in 0..(k - 1)
    <3>1. i \in 0..k
      BY <1>3
    <3>2. g[i] = IF i = 0 THEN SortStart(P, es) ELSE TakeReady(es, P, g[i - 1])
      BY <2>2 DEF Turns
    <3> QED
      BY <3>1, <3>2
  <2>4. \A i \in 0..k : i # 0 => f[i - 1] = g[i - 1]
    <3> TAKE i \in 0..k
    <3>1. i # 0 => i - 1 \in 0..(k - 1)
      BY <1>3
    <3> HIDE DEF f
    <3> QED
      BY <2>3, <3>1
  <2>5. f = [i \in 0..k |-> IF i = 0 THEN SortStart(P, es)
                            ELSE TakeReady(es, P, f[i - 1])]
    BY <2>4
  <2> HIDE DEF f
  <2>6. Turns(P, es, k, f)
    BY <2>5 DEF Turns
  <2> QED
    BY <1>3, <2>6
<1> QED
  BY <1>4, <1>5

\* The edges into m from records that are not in T.
Into(es, m, T) == {e \in es : e.to = m /\ e.from \notin T}

Done(s) == {s.order[i] : i \in 1..Len(s.order)}

\* The records in the order are different and stand after all their parents;
\* the degree of a record counts its parents that are not in the order yet,
\* and the ready records are those with none left.
SortInv(P, es, s) ==
    /\ s.order \in Seq(P)
    /\ \A i, j \in 1..Len(s.order) : s.order[i] = s.order[j] => i = j
    /\ \A i \in 1..Len(s.order) : \A e \in es :
          e.to = s.order[i] => \E j \in 1..(i - 1) : s.order[j] = e.from
    /\ s.degree \in [P -> Nat]
    /\ \A m \in P : s.degree[m] = Cardinality(Into(es, m, Done(s)))
    /\ s.ready = {m \in P \ Done(s) : s.degree[m] = 0}

\* It holds at the start.
LEMMA SortStartInv ==
    ASSUME NEW P, NEW es, IsFiniteSet(es)
    PROVE  SortInv(P, es, SortStart(P, es))
<1> DEFINE s == SortStart(P, es)
<1>1. s.order = <<>> /\ Done(s) = {}
  BY DEF SortStart, Done
<1>2. s.degree = [n \in P |-> incoming_count(es, n)]
  BY DEF SortStart
<1>3. s.ready = {m \in P : s.degree[m] = 0}
  BY DEF SortStart
<1>4. \A m \in P : /\ incoming_count(es, m) \in Nat
                   /\ incoming_count(es, m) = Cardinality(Into(es, m, {}))
  <2> TAKE m \in P
  <2>1. {e \in es : e.to = m} = Into(es, m, {})
    BY DEF Into
  <2>2. IsFiniteSet(Into(es, m, {}))
    BY FS_Subset DEF Into
  <2> QED
    BY <2>1, <2>2, FS_CardinalityType DEF incoming_count
<1> HIDE DEF s
<1>5. s.order \in Seq(P) /\ \A i \in 1..Len(s.order) : FALSE
  BY <1>1
<1>6. s.degree \in [P -> Nat]
  BY <1>2, <1>4
<1>7. \A m \in P : s.degree[m] = Cardinality(Into(es, m, Done(s)))
  BY <1>1, <1>2, <1>4
<1>8. s.ready = {m \in P \ Done(s) : s.degree[m] = 0}
  BY <1>1, <1>3
<1>9. SortInv(P, es, s)
  BY <1>5, <1>6, <1>7, <1>8 DEF SortInv
<1> QED
  BY <1>9 DEF s

\* A turn with a ready record adds it to the order and keeps the invariant.
LEMMA TakeReadyInv ==
    ASSUME NEW P, NEW es, IsFiniteSet(es), NEW s, SortInv(P, es, s),
           s.ready # {}
    PROVE  LET t == TakeReady(es, P, s)
           IN SortInv(P, es, t) /\ Len(t.order) = Len(s.order) + 1
<1> DEFINE n == CHOOSE m \in s.ready : TRUE
           left == [m \in P |-> s.degree[m] -
                       Cardinality({e \in es : e.from = n /\ e.to = m})]
           t == TakeReady(es, P, s)
           D == Done(s)
<1>1. /\ t.order = Append(s.order, n)
      /\ t.degree = left
      /\ t.ready = (s.ready \ {n}) \cup
                   {m \in P : s.degree[m] > 0 /\ left[m] <= 0}
  BY DEF TakeReady
<1>2. n \in P \ D /\ s.degree[n] = 0
  <2>1. n \in s.ready
    OBVIOUS
  <2> HIDE DEF n
  <2> QED
    BY <2>1 DEF SortInv
<1>3. s.order \in Seq(P) /\ Len(s.order) \in Nat
  BY DEF SortInv
<1>4. /\ t.order \in Seq(P)
      /\ Len(t.order) = Len(s.order) + 1
      /\ \A i \in 1..Len(s.order) : t.order[i] = s.order[i]
      /\ t.order[Len(s.order) + 1] = n
  <2> HIDE DEF n, t
  <2> QED
    BY <1>1, <1>2, <1>3
<1>5. Done(t) = D \cup {n}
  <2>1. 1..(Len(s.order) + 1) = (1..Len(s.order)) \cup {Len(s.order) + 1}
    BY <1>3
  <2> HIDE DEF n, t
  <2> QED
    BY <1>4, <2>1 DEF Done
<1>6. \A e \in es : e.to = n => e.from \in D
  <2>1. IsFiniteSet(Into(es, n, D)) /\ Cardinality(Into(es, n, D)) = 0
    <3>1. IsFiniteSet(Into(es, n, D))
      BY FS_Subset DEF Into
    <3> HIDE DEF n
    <3> QED
      BY <1>2, <3>1 DEF SortInv
  <2>2. Into(es, n, D) = {}
    BY <2>1, FS_EmptySet
  <2> HIDE DEF n, D
  <2> QED
    BY <2>2 DEF Into
<1>7. \A m \in P : left[m] \in Nat /\ left[m] = Cardinality(Into(es, m, Done(t)))
  <2> SUFFICES ASSUME NEW m \in P
               PROVE  /\ left[m] \in Nat
                      /\ left[m] = Cardinality(Into(es, m, Done(t)))
    OBVIOUS
  <2> DEFINE A == Into(es, m, D)
             B == {e \in es : e.from = n /\ e.to = m}
  <2>1. left[m] = s.degree[m] - Cardinality(B)
    OBVIOUS
  <2>2. s.degree[m] = Cardinality(A)
    BY DEF SortInv
  <2>3. IsFiniteSet(A)
    BY FS_Subset DEF Into
  <2>4. A \cap B = B /\ A \ B = Into(es, m, Done(t))
    <3> HIDE DEF n, t, D, left
    <3> QED
      BY <1>2, <1>5 DEF Into
  <2>5. /\ Cardinality(A \ B) = Cardinality(A) - Cardinality(B)
        /\ IsFiniteSet(A \ B)
    <3> HIDE DEF A, B
    <3> QED
      BY <2>3, <2>4, FS_Difference
  <2>6. Cardinality(A \ B) \in Nat
    BY <2>5, FS_CardinalityType
  <2> HIDE DEF A, B, left, t
  <2> QED
    BY <2>1, <2>2, <2>4, <2>5, <2>6
<1>8. ASSUME NEW m \in P
      PROVE  m \in t.ready <=> m \notin Done(t) /\ left[m] = 0
  <2>1. /\ s.degree[m] \in Nat
        /\ m \in s.ready <=> m \notin D /\ s.degree[m] = 0
    BY DEF SortInv
  <2>2. m \in D => s.degree[m] = 0
    <3> SUFFICES ASSUME m \in D
                 PROVE  s.degree[m] = 0
      OBVIOUS
    <3>1. \A e \in es : e.to = m => e.from \in D
      <4>1. PICK i \in 1..Len(s.order) : m = s.order[i]
        BY DEF Done
      <4>2. \A e \in es : e.to = m => \E j \in 1..(i - 1) :
                                         s.order[j] = e.from
        BY <4>1 DEF SortInv
      <4>3. 1..(i - 1) \subseteq 1..Len(s.order)
        BY <1>3
      <4> QED
        BY <4>2, <4>3 DEF Done
    <3>2. Into(es, m, D) = {}
      BY <3>1 DEF Into
    <3> QED
      BY <3>2, FS_EmptySet DEF SortInv
  <2>3. left[m] \in Nat /\ left[m] <= s.degree[m]
    <3> DEFINE B == {e \in es : e.from = n /\ e.to = m}
    <3>1. left[m] = s.degree[m] - Cardinality(B)
      OBVIOUS
    <3>2. Cardinality(B) \in Nat
      <4>1. IsFiniteSet(B)
        BY FS_Subset
      <4> HIDE DEF B
      <4> QED
        BY <4>1, FS_CardinalityType
    <3> HIDE DEF B, left
    <3> QED
      BY <1>7, <2>1, <3>1, <3>2
  <2>4. m \in t.ready <=> \/ m \in s.ready /\ m # n
                          \/ s.degree[m] > 0 /\ left[m] <= 0
    BY <1>1
  <2> HIDE DEF n, left, t, D
  <2> QED
    BY <1>2, <1>5, <2>1, <2>2, <2>3, <2>4
<1>9. t.ready = {m \in P \ Done(t) : t.degree[m] = 0}
  <2>1. t.ready \subseteq P
    <3>1. s.ready \subseteq P
      BY DEF SortInv
    <3> HIDE DEF n, left, t
    <3> QED
      BY <1>1, <3>1
  <2> HIDE DEF n, left, t
  <2> QED
    BY <1>1, <1>8, <2>1
<1>10. \A i, j \in 1..Len(t.order) : t.order[i] = t.order[j] => i = j
  <2>1. \A i, j \in 1..Len(s.order) : s.order[i] = s.order[j] => i = j
    BY DEF SortInv
  <2>2. \A i \in 1..Len(s.order) : s.order[i] # n
    <3> HIDE DEF n
    <3> QED
      BY <1>2 DEF Done
  <2> HIDE DEF n, t
  <2> TAKE i, j \in 1..Len(t.order)
  <2> HAVE t.order[i] = t.order[j]
  <2>3. CASE i \in 1..Len(s.order) /\ j \in 1..Len(s.order)
    BY <1>4, <2>1, <2>3
  <2>4. CASE i \notin 1..Len(s.order) /\ j \in 1..Len(s.order)
    BY <1>3, <1>4, <2>2, <2>4
  <2>5. CASE i \in 1..Len(s.order) /\ j \notin 1..Len(s.order)
    BY <1>3, <1>4, <2>2, <2>5
  <2>6. CASE i \notin 1..Len(s.order) /\ j \notin 1..Len(s.order)
    BY <1>3, <1>4, <2>6
  <2> QED
    BY <2>3, <2>4, <2>5, <2>6
<1>11. ASSUME NEW i \in 1..Len(t.order), NEW e \in es, e.to = t.order[i]
       PROVE  \E j \in 1..(i - 1) : t.order[j] = e.from
  <2>1. CASE i \in 1..Len(s.order)
    <3>1. PICK j \in 1..(i - 1) : s.order[j] = e.from
      <4> HIDE DEF n, t
      <4> QED
        BY <1>4, <1>11, <2>1 DEF SortInv
    <3>2. j \in 1..Len(s.order)
      BY <1>3, <2>1
    <3> HIDE DEF n, t
    <3> QED
      BY <1>4, <3>1, <3>2
  <2>2. CASE i = Len(s.order) + 1
    <3>1. e.from \in D
      <4> HIDE DEF n, t, D
      <4> QED
        BY <1>4, <1>6, <1>11, <2>2
    <3>2. PICK j \in 1..Len(s.order) : e.from = s.order[j]
      BY <3>1 DEF Done
    <3> HIDE DEF n, t
    <3> QED
      BY <1>3, <1>4, <2>2, <3>2
  <2> HIDE DEF n, t
  <2> QED
    BY <1>3, <1>4, <2>1, <2>2
<1>12. t.degree \in [P -> Nat] /\ \A m \in P : t.degree[m] = left[m]
  <2> HIDE DEF t
  <2> QED
    BY <1>1, <1>7
<1>13. \A m \in P : t.degree[m] = Cardinality(Into(es, m, Done(t)))
  <2> HIDE DEF t, left
  <2> QED
    BY <1>7, <1>12
<1> HIDE DEF t, n, left, D
<1>14. SortInv(P, es, t)
  BY <1>4, <1>9, <1>10, <1>11, <1>12, <1>13 DEF SortInv
<1> QED
  BY <1>4, <1>14 DEF t

\* After k turns k records are in the order, unless none was ready.
LEMMA TurnsInv ==
    ASSUME NEW P, NEW es, IsFiniteSet(es), NEW d \in Nat, NEW f,
           Turns(P, es, d, f), NEW k \in 0..d
    PROVE  /\ SortInv(P, es, f[k])
           /\ Len(f[k].order) = k \/ f[k].ready = {}
<1> DEFINE Good(i) == /\ SortInv(P, es, f[i])
                      /\ Len(f[i].order) = i \/ f[i].ready = {}
           bad == {i \in 0..d : ~Good(i)}
<1> SUFFICES ASSUME bad # {}
             PROVE  FALSE
  OBVIOUS
<1>1. PICK i \in bad : \A j \in bad : i <= j
  <2>1. bad \in SUBSET Nat
    OBVIOUS
  <2> HIDE DEF bad
  <2> QED
    BY <2>1, LeastNumber
<1>2. i \in 0..d /\ ~Good(i)
  OBVIOUS
<1>3. f[i] = IF i = 0 THEN SortStart(P, es) ELSE TakeReady(es, P, f[i - 1])
  BY <1>2, Zenon DEF Turns
<1>4. CASE i = 0
  <2>1. f[i] = SortStart(P, es)
    BY <1>3, <1>4
  <2>2. Len(f[i].order) = 0
    BY <2>1 DEF SortStart
  <2> QED
    BY <1>2, <1>4, <2>1, <2>2, SortStartInv
<1>5. CASE i # 0
  <2>1. i - 1 \in 0..d /\ i - 1 < i
    BY <1>2, <1>5
  <2>2. Good(i - 1)
    <3>1. i - 1 \notin bad
      <4> HIDE DEF bad
      <4> QED
        BY <1>1, <1>2, <2>1
    <3> HIDE DEF Good
    <3> QED
      BY <2>1, <3>1
  <2>3. f[i] = TakeReady(es, P, f[i - 1])
    BY <1>3, <1>5
  <2>4. CASE f[i - 1].ready = {}
    <3>1. f[i] = f[i - 1]
      BY <2>3, <2>4 DEF TakeReady
    <3> QED
      BY <1>2, <2>2, <2>4, <3>1
  <2>5. CASE f[i - 1].ready # {}
    <3>1. SortInv(P, es, f[i]) /\ Len(f[i].order) = Len(f[i - 1].order) + 1
      BY <2>2, <2>3, <2>5, TakeReadyInv
    <3> QED
      BY <1>2, <2>2, <2>5, <3>1
  <2> QED
    BY <2>4, <2>5
<1> QED
  BY <1>4, <1>5

\* topological_order is the last state of the sort.
LEMMA OrderTurns ==
    ASSUME NEW ns, NEW es
    PROVE  LET P == Present(ns)
               d == Cardinality(P)
           IN \E f : /\ Turns(P, es, d, f)
                     /\ topological_order(ns, es)[1] <=>
                           Len(f[d].order) = d
<1> DEFINE P == Present(ns)
           d == Cardinality(P)
           sort == CHOOSE f : Turns(P, es, d, f)
<1>1. d \in Nat
  <2>1. IsFiniteSet(P)
    BY NodeIdAssumption, FS_Subset DEF Present
  <2> QED
    BY <2>1, FS_CardinalityType
<1>2. Turns(P, es, d, sort)
  <2>1. \E f : Turns(P, es, d, f)
    <3> HIDE DEF P, d
    <3> QED
      BY <1>1, TurnsExist
  <2> QED
    BY <2>1
<1>3. topological_order(ns, es) = IF Len(sort[d].order) = d
                                  THEN <<TRUE, sort[d].order>> ELSE <<FALSE>>
  BY DEF topological_order, Turns, SortStart
<1>4. topological_order(ns, es)[1] <=> Len(sort[d].order) = d
  <2> HIDE DEF sort, d
  <2> QED
    BY <1>3
<1> QED
  BY <1>2, <1>4

\* The sort of a closed finite graph succeeds exactly when there is no cycle.
LEMMA OrderIsExact ==
    ASSUME NEW ns, NEW es, IsFiniteSet(es),
           \A e \in es : {e.from, e.to} \subseteq Present(ns)
    PROVE  topological_order(ns, es)[1] <=> Acyclic(es)
<1> DEFINE P == Present(ns)
           d == Cardinality(P)
<1>0. \A e \in es : e.from \in P /\ e.to \in P
  OBVIOUS
<1>1. IsFiniteSet(P) /\ d \in Nat /\ P \subseteq NodeId
  <2>1. P \subseteq NodeId
    BY DEF Present
  <2>2. IsFiniteSet(P)
    BY <2>1, NodeIdAssumption, FS_Subset
  <2> QED
    BY <2>1, <2>2, FS_CardinalityType
<1>2. PICK f : /\ Turns(P, es, d, f)
               /\ topological_order(ns, es)[1] <=> Len(f[d].order) = d
  BY OrderTurns
<1> DEFINE s == f[d]
           D == Done(s)
<1>3. SortInv(P, es, s) /\ (Len(s.order) = d \/ s.ready = {})
  <2>1. d \in 0..d
    BY <1>1
  <2> HIDE DEF P, d
  <2> QED
    BY <1>1, <1>2, <2>1, TurnsInv
<1> HIDE DEF s
<1>4. /\ s.order \in Seq(P) /\ Len(s.order) \in Nat
      /\ \A i, j \in 1..Len(s.order) : s.order[i] = s.order[j] => i = j
  BY <1>3 DEF SortInv
<1>5. D \in SUBSET P /\ Cardinality(D) = Len(s.order)
  <2>1. D \in SUBSET P
    BY <1>4 DEF Done
  <2>2. Cardinality({s.order[i] : i \in 1..Len(s.order)}) = Len(s.order)
    BY <1>4, DistinctEntries
  <2> QED
    BY <2>1, <2>2 DEF Done
<1>6. Len(s.order) = d <=> D = P
  <2> HIDE DEF P, D
  <2> QED
    BY <1>1, <1>5, FS_Subset
<1>7. ASSUME D = P
      PROVE  Acyclic(es)
  <2> SUFFICES ASSUME NEW T \in SUBSET NodeId, T # {},
                      \A n \in T : \E e \in es : e.from = n /\ e.to \in T
               PROVE  FALSE
    BY DEF Acyclic
  <2> DEFINE I == {i \in 1..Len(s.order) : s.order[i] \in T}
             J == {Len(s.order) - i : i \in I}
  <2>1. \A n \in T : \E i \in I : s.order[i] = n
    <3> TAKE n \in T
    <3>1. n \in P
      BY <1>0
    <3> QED
      BY <1>7, <3>1 DEF Done
  <2>2. J \in SUBSET Nat /\ J # {}
    <3>1. \A i \in I : Len(s.order) - i \in Nat
      BY <1>4
    <3>2. \E i \in I : TRUE
      BY <2>1
    <3> HIDE DEF I
    <3> QED
      BY <3>1, <3>2
  <2>3. PICK x \in J : \A y \in J : x <= y
    <3> HIDE DEF J
    <3> QED
      BY <2>2, LeastNumber
  <2>4. PICK i \in I : x = Len(s.order) - i
    OBVIOUS
  <2>5. \A j \in I : j <= i
    <3> TAKE j \in I
    <3>1. Len(s.order) - j \in J
      OBVIOUS
    <3>2. x <= Len(s.order) - j
      <4> HIDE DEF J
      <4> QED
        BY <2>3, <3>1
    <3> QED
      BY <1>4, <2>4, <3>2
  <2>6. PICK e \in es : e.from = s.order[i] /\ e.to \in T
    OBVIOUS
  <2>7. PICK j \in I : s.order[j] = e.to
    BY <2>1, <2>6
  <2>8. PICK h \in 1..(j - 1) : s.order[h] = e.from
    BY <1>3, <2>7 DEF SortInv
  <2>9. h \in 1..Len(s.order) /\ h < j
    BY <1>4
  <2>10. h = i
    BY <1>4, <2>6, <2>8, <2>9
  <2> QED
    BY <1>4, <2>5, <2>9, <2>10
<1>8. ASSUME D # P, Acyclic(es)
      PROVE  FALSE
  <2> DEFINE R == P \ D
  <2>1. s.ready = {}
    BY <1>3, <1>6, <1>8
  <2>2. R # {} /\ R \in SUBSET NodeId
    BY <1>1, <1>5, <1>8
  <2>3. PICK n \in R : \A e \in es : e.to = n => e.from \notin R
    <3> HIDE DEF R
    <3> QED
      BY <1>8, <2>2, SourceExists
  <2>4. Into(es, n, D) = {}
    <3> HIDE DEF D
    <3> HIDE DEF P
    <3> QED
      BY <1>0, <2>3 DEF Into
  <2>5. s.degree[n] = 0
    BY <1>3, <2>4, FS_EmptySet DEF SortInv
  <2>6. n \in s.ready
    BY <1>3, <2>5 DEF SortInv
  <2> QED
    BY <2>1, <2>6
<1> QED
  BY <1>2, <1>6, <1>7, <1>8 DEF s

\* The two cycle checks agree on every graph the store can reach, however many
\* edges a publication has: a load never refuses a lineage for its structure,
\* and the search for one edge gives the answer of the full sort.
THEOREM CycleChecksAlwaysAgree == Spec => []CycleChecksAgree
<1>1. TypeOK /\ GraphInv => CycleChecksAgree
  <2> SUFFICES ASSUME TypeOK, GraphInv
               PROVE  CycleChecksAgree
    OBVIOUS
  <2>1. /\ IsFiniteSet(edges)
        /\ \A e \in edges : {e.from, e.to} \subseteq Present(nodes)
        /\ Acyclic(edges)
    BY DEF GraphInv, SoundGraph
  <2>2. validate_structure(nodes, edges)
    BY <2>1, OrderIsExact DEF validate_structure
  <2>3. ASSUME NEW from \in Present(nodes), NEW to \in Present(nodes)
        PROVE  check_add_edge(edges, PlainEdge(from, to)) <=>
               topological_order(nodes, edges \cup {PlainEdge(from, to)})[1]
    <3> DEFINE e == PlainEdge(from, to)
               es == edges \cup {e}
    <3>1. e.from = from /\ e.to = to
      BY DEF PlainEdge
    <3> HIDE DEF e
    <3>2. Present(nodes) \subseteq NodeId
      BY DEF Present
    <3>3. \A f \in edges : f.to \in NodeId
      BY <2>1, <3>2
    <3>4. check_add_edge(edges, e) <=> Acyclic(es)
      BY <2>1, <3>1, <3>2, <3>3, CheckIsExact
    <3>5. IsFiniteSet(es)
      BY <2>1, FS_AddElement
    <3>6. \A f \in es : {f.from, f.to} \subseteq Present(nodes)
      BY <2>1, <2>3, <3>1
    <3>7. topological_order(nodes, es)[1] <=> Acyclic(es)
      <4> HIDE DEF es
      <4> QED
        BY <3>5, <3>6, OrderIsExact
    <3> QED
      BY <3>4, <3>7 DEF e
  <2> QED
    BY <2>2, <2>3 DEF CycleChecksAgree
<1> QED
  BY <1>1, TypeCorrect, GraphInvariance, PTL

-----------------------------------------------------------------------------
(* What lies within some edges of a record *)

\* The records next to those of S.
Around(es, dir, ty, S) == UNION {Adjacent(es, n, dir, ty) : n \in S}

\* f lists what lies within 0, 1, ..., d edges of o.
Circles(es, o, dir, ty, d, f) ==
    f = [k \in 0..d |-> IF k = 0 THEN {o}
                        ELSE f[k - 1] \cup Around(es, dir, ty, f[k - 1])]

\* The recursive definition of WithinEdges has a solution.
LEMMA CirclesExist ==
    ASSUME NEW es, NEW o, NEW dir, NEW ty, NEW d \in Nat
    PROVE  \E f : Circles(es, o, dir, ty, d, f)
<1> DEFINE More(S) == S \cup Around(es, dir, ty, S)
           bad == {k \in Nat : ~\E f : Circles(es, o, dir, ty, k, f)}
<1> SUFFICES ASSUME bad # {}
             PROVE  FALSE
  OBVIOUS
<1>1. bad \in SUBSET Nat
  OBVIOUS
<1>2. PICK k \in bad : \A j \in bad : k <= j
  BY <1>1, LeastNumber
<1>3. k \in Nat /\ ~\E f : Circles(es, o, dir, ty, k, f)
  OBVIOUS
<1>4. CASE k = 0
  <2> DEFINE f == [i \in 0..0 |-> {o}]
  <2>1. Circles(es, o, dir, ty, 0, f)
    BY DEF Circles
  <2> QED
    BY <1>3, <1>4, <2>1
<1>5. CASE k # 0
  <2>1. k - 1 \in Nat /\ k - 1 \notin bad
    BY <1>2, <1>3, <1>5
  <2>2. PICK g : Circles(es, o, dir, ty, k - 1, g)
    BY <2>1
  <2> DEFINE f == [i \in 0..k |-> IF i = 0 THEN {o} ELSE More(g[i - 1])]
  <2>3. \A i \in 0..(k - 1) : f[i] = g[i]
    <3> TAKE i \in 0..(k - 1)
    <3>1. i \in 0..k
      BY <1>3
    <3>2. g[i] = IF i = 0 THEN {o} ELSE More(g[i - 1])
      BY <2>2 DEF Circles
    <3> QED
      BY <3>1, <3>2
  <2>4. \A i \in 0..k : i # 0 => f[i - 1] = g[i - 1]
    <3> TAKE i \in 0..k
    <3>1. i # 0 => i - 1 \in 0..(k - 1)
      BY <1>3
    <3> HIDE DEF f
    <3> QED
      BY <2>3, <3>1
  <2>5. f = [i \in 0..k |-> IF i = 0 THEN {o} ELSE More(f[i - 1])]
    BY <2>4
  <2> HIDE DEF f
  <2>6. Circles(es, o, dir, ty, k, f)
    BY <2>5 DEF Circles
  <2> QED
    BY <1>3, <2>6
<1> QED
  BY <1>4, <1>5

\* Two such lists agree as far as both go.
LEMMA CirclesAgree ==
    ASSUME NEW es, NEW o, NEW dir, NEW ty, NEW d \in Nat, NEW c \in Nat,
           NEW f, Circles(es, o, dir, ty, d, f),
           NEW g, Circles(es, o, dir, ty, c, g),
           NEW k \in Nat, k <= d, k <= c
    PROVE  f[k] = g[k]
<1> DEFINE More(S) == S \cup Around(es, dir, ty, S)
           bad == {i \in 0..k : f[i] # g[i]}
<1>1. \A i \in 0..k : f[i] = IF i = 0 THEN {o} ELSE More(f[i - 1])
  <2>1. \A i \in 0..d : f[i] = IF i = 0 THEN {o} ELSE More(f[i - 1])
    BY DEF Circles
  <2>2. 0..k \subseteq 0..d
    OBVIOUS
  <2> QED
    BY <2>1, <2>2
<1>2. \A i \in 0..k : g[i] = IF i = 0 THEN {o} ELSE More(g[i - 1])
  <2>1. \A i \in 0..c : g[i] = IF i = 0 THEN {o} ELSE More(g[i - 1])
    BY DEF Circles
  <2>2. 0..k \subseteq 0..c
    OBVIOUS
  <2> QED
    BY <2>1, <2>2
<1> SUFFICES ASSUME bad # {}
             PROVE  FALSE
  OBVIOUS
<1>3. bad \in SUBSET Nat
  OBVIOUS
<1>4. PICK i \in bad : \A j \in bad : i <= j
  BY <1>3, LeastNumber
<1>5. i \in 0..k /\ f[i] # g[i]
  OBVIOUS
<1>6. i # 0
  BY <1>1, <1>2, <1>5
<1>7. i - 1 \in 0..k /\ i - 1 < i
  BY <1>5, <1>6
<1>8. f[i - 1] = g[i - 1]
  BY <1>4, <1>5, <1>7
<1>9. f[i] = More(f[i - 1]) /\ g[i] = More(g[i - 1])
  BY <1>1, <1>2, <1>5, <1>6
<1> HIDE DEF More
<1> QED
  BY <1>5, <1>8, <1>9

\* WithinEdges is the last circle.
LEMMA WithinCircles ==
    ASSUME NEW es, NEW o, NEW dir, NEW ty, NEW d \in Nat
    PROVE  \E f : /\ Circles(es, o, dir, ty, d, f)
                  /\ WithinEdges(es, o, dir, ty, d) = f[d]
<1> DEFINE level == CHOOSE f : Circles(es, o, dir, ty, d, f)
<1>1. Circles(es, o, dir, ty, d, level)
  BY CirclesExist
<1>2. WithinEdges(es, o, dir, ty, d) = level[d]
  BY DEF WithinEdges, Circles, Around
<1> QED
  BY <1>1, <1>2

\* The first circle is the record.
LEMMA WithinZero ==
    ASSUME NEW es, NEW o, NEW dir, NEW ty
    PROVE  WithinEdges(es, o, dir, ty, 0) = {o}
<1>1. PICK f : /\ Circles(es, o, dir, ty, 0, f)
               /\ WithinEdges(es, o, dir, ty, 0) = f[0]
  BY WithinCircles
<1> QED
  BY <1>1 DEF Circles

\* The next circle adds what is next to the last one.
LEMMA WithinNext ==
    ASSUME NEW es, NEW o, NEW dir, NEW ty, NEW k \in Nat
    PROVE  WithinEdges(es, o, dir, ty, k + 1) =
           WithinEdges(es, o, dir, ty, k)
              \cup Around(es, dir, ty, WithinEdges(es, o, dir, ty, k))
<1>1. k + 1 \in Nat /\ k + 1 \in 0..(k + 1) /\ (k + 1) - 1 = k
  OBVIOUS
<1>2. PICK f : /\ Circles(es, o, dir, ty, k, f)
               /\ WithinEdges(es, o, dir, ty, k) = f[k]
  BY WithinCircles
<1>3. PICK g : /\ Circles(es, o, dir, ty, k + 1, g)
               /\ WithinEdges(es, o, dir, ty, k + 1) = g[k + 1]
  BY <1>1, WithinCircles
<1>4. f[k] = g[k]
  BY <1>1, <1>2, <1>3, CirclesAgree
<1>5. g[k + 1] = g[k] \cup Around(es, dir, ty, g[k])
  <2>1. \A i \in 0..(k + 1) : g[i] =
           IF i = 0 THEN {o}
           ELSE g[i - 1] \cup Around(es, dir, ty, g[i - 1])
    BY <1>3 DEF Circles
  <2>2. k + 1 # 0
    OBVIOUS
  <2> QED
    BY <1>1, <2>1, <2>2
<1> QED
  BY <1>2, <1>3, <1>4, <1>5

\* More edges reach no less.
LEMMA WithinMore ==
    ASSUME NEW es, NEW o, NEW dir, NEW ty, NEW j \in Nat, NEW d \in Nat,
           j <= d
    PROVE  WithinEdges(es, o, dir, ty, j) \subseteq
           WithinEdges(es, o, dir, ty, d)
<1> DEFINE Reach(k) == WithinEdges(es, o, dir, ty, k)
           bad == {k \in j..d : ~(Reach(j) \subseteq Reach(k))}
<1> SUFFICES ASSUME bad # {}
             PROVE  FALSE
  OBVIOUS
<1>1. bad \in SUBSET Nat
  OBVIOUS
<1>2. PICK k \in bad : \A i \in bad : k <= i
  BY <1>1, LeastNumber
<1>3. k \in j..d /\ ~(Reach(j) \subseteq Reach(k))
  OBVIOUS
<1>4. k # j
  BY <1>3
<1>5. k - 1 \in j..d /\ k - 1 < k /\ k - 1 \in Nat /\ (k - 1) + 1 = k
  BY <1>3, <1>4
<1>6. Reach(j) \subseteq Reach(k - 1)
  BY <1>2, <1>3, <1>5
<1>7. Reach(k - 1) \subseteq Reach(k)
  <2>1. Reach((k - 1) + 1) = Reach(k - 1) \cup Around(es, dir, ty, Reach(k - 1))
    BY <1>5, WithinNext
  <2> HIDE DEF Reach
  <2> QED
    BY <1>5, <2>1
<1> HIDE DEF Reach
<1> QED
  BY <1>3, <1>6, <1>7

\* A walk meets records only.
LEMMA AdjacentTyped ==
    ASSUME NEW es \in SUBSET Edges, NEW n, NEW dir, NEW ty
    PROVE  Adjacent(es, n, dir, ty) \in SUBSET NodeId
BY DEF Adjacent, Edges

\* So what lies within some edges of a record are records.
LEMMA WithinTyped ==
    ASSUME NEW es \in SUBSET Edges, NEW o \in NodeId, NEW dir, NEW ty,
           NEW d \in Nat
    PROVE  WithinEdges(es, o, dir, ty, d) \in SUBSET NodeId
<1> DEFINE Reach(k) == WithinEdges(es, o, dir, ty, k)
           bad == {k \in 0..d : ~(Reach(k) \in SUBSET NodeId)}
<1> SUFFICES ASSUME bad # {}
             PROVE  FALSE
  OBVIOUS
<1>1. bad \in SUBSET Nat
  OBVIOUS
<1>2. PICK k \in bad : \A i \in bad : k <= i
  BY <1>1, LeastNumber
<1>3. k \in 0..d /\ ~(Reach(k) \in SUBSET NodeId)
  OBVIOUS
<1>4. k # 0
  BY <1>3, WithinZero
<1>5. k - 1 \in 0..d /\ k - 1 < k /\ k - 1 \in Nat /\ (k - 1) + 1 = k
  BY <1>3, <1>4
<1>6. Reach(k - 1) \in SUBSET NodeId
  BY <1>2, <1>3, <1>5
<1>7. Reach(k) = Reach(k - 1) \cup Around(es, dir, ty, Reach(k - 1))
  <2>1. Reach((k - 1) + 1) = Reach(k - 1) \cup Around(es, dir, ty, Reach(k - 1))
    BY <1>5, WithinNext
  <2> HIDE DEF Reach
  <2> QED
    BY <1>5, <2>1
<1>8. Around(es, dir, ty, Reach(k - 1)) \in SUBSET NodeId
  BY AdjacentTyped DEF Around
<1> HIDE DEF Reach
<1> QED
  BY <1>3, <1>6, <1>7, <1>8

-----------------------------------------------------------------------------
(* The breadth-first walk *)

Entries == [node : NodeId, depth : Nat]

\* q[i] was queued at the distance of its record.
AtDistance(es, o, dir, ty, q, i) ==
    /\ q[i].node \in WithinEdges(es, o, dir, ty, q[i].depth)
    /\ q[i].depth > 0 =>
          q[i].node \notin WithinEdges(es, o, dir, ty, q[i].depth - 1)

\* The queue q after k of its entries were expanded, up to depth d: different
\* records at their distances and in that order; those that wait are at most
\* one less deep than any other; what is next to an expanded one was queued.
QueueInv(es, o, dir, ty, d, q, k) ==
    /\ q \in Seq(Entries) /\ Len(q) > 0
    /\ q[1] = [node |-> o, depth |-> 0]
    /\ \A i, j \in 1..Len(q) : q[i].node = q[j].node => i = j
    /\ \A i, j \in 1..Len(q) : i < j => q[i].depth <= q[j].depth
    /\ \A i, j \in 1..Len(q) : j > k => q[i].depth <= q[j].depth + 1
    /\ \A i \in 1..Len(q) : i <= k /\ q[i].depth < d =>
          \A m \in Adjacent(es, q[i].node, dir, ty) :
             \E j \in 1..Len(q) : q[j].node = m /\ q[j].depth <= q[i].depth + 1
    /\ \A i \in 1..Len(q) : q[i].depth <= d
    /\ \A i \in 1..Len(q) : AtDistance(es, o, dir, ty, q, i)

\* The walk starts at its origin.
LEMMA QueueStart ==
    ASSUME NEW es, NEW o \in NodeId, NEW dir, NEW ty, NEW d \in Nat
    PROVE  QueueInv(es, o, dir, ty, d, <<[node |-> o, depth |-> 0]>>, 0)
<1> DEFINE e == [node |-> o, depth |-> 0]
           q == <<e>>
<1>1. q \in Seq(Entries) /\ Len(q) = 1 /\ q[1] = e
  BY DEF Entries
<1>2. e.node = o /\ e.depth = 0
  OBVIOUS
<1>3. AtDistance(es, o, dir, ty, q, 1)
  BY <1>1, <1>2, WithinZero DEF AtDistance
<1>4. \A i \in 1..Len(q) : i = 1
  BY <1>1
<1> HIDE DEF q, e
<1>5. QueueInv(es, o, dir, ty, d, q, 0)
  <2>1. q[1] = [node |-> o, depth |-> 0]
    BY <1>1 DEF e
  <2>2. Len(q) > 0 /\ q \in Seq(Entries)
    BY <1>1
  <2>3. \A i \in 1..Len(q) : q[i].depth = 0
    BY <1>1, <1>2, <1>4
  <2>4. \A i \in 1..Len(q) : AtDistance(es, o, dir, ty, q, i)
    BY <1>3, <1>4
  <2>5. \A i, j \in 1..Len(q) : i = j
    BY <1>4
  <2>6. \A i \in 1..Len(q) : ~(i <= 0)
    OBVIOUS
  <2> QED
    BY <2>1, <2>2, <2>3, <2>4, <2>5, <2>6 DEF QueueInv
<1> QED
  BY <1>5 DEF q, e

\* When every entry less deep than c was expanded, whatever lies within c edges
\* was queued, and at no greater depth than its distance.
LEMMA QueuedWithin ==
    ASSUME NEW es, NEW o, NEW dir, NEW ty, NEW d \in Nat, NEW q, NEW k \in Nat,
           QueueInv(es, o, dir, ty, d, q, k),
           NEW c \in Nat, c <= d,
           \A i \in 1..Len(q) : q[i].depth < c => i <= k
    PROVE  \A m \in WithinEdges(es, o, dir, ty, c) :
              \E i \in 1..Len(q) : q[i].node = m /\ q[i].depth <= c
<1> DEFINE Reach(j) == WithinEdges(es, o, dir, ty, j)
           Queued(m, j) == \E i \in 1..Len(q) : q[i].node = m /\ q[i].depth <= j
<1>b. \A i \in 1..Len(q) : q[i].depth \in Nat
  <2>1. q \in Seq(Entries)
    BY DEF QueueInv
  <2>2. \A i \in 1..Len(q) : q[i] \in Entries
    BY <2>1
  <2> QED
    BY <2>2 DEF Entries
<1> DEFINE bad == {j \in 0..c : ~\A m \in Reach(j) : Queued(m, j)}
<1> SUFFICES ASSUME bad # {}
             PROVE  FALSE
  OBVIOUS
<1>0. q \in Seq(Entries) /\ Len(q) \in Nat /\ Len(q) > 0
  BY DEF QueueInv
<1>1. bad \in SUBSET Nat
  OBVIOUS
<1>2. PICK j \in bad : \A i \in bad : j <= i
  BY <1>1, LeastNumber
<1>3. j \in 0..c /\ ~\A m \in Reach(j) : Queued(m, j)
  OBVIOUS
<1>4. j # 0
  <2>1. Reach(0) = {o}
    BY WithinZero
  <2>2. 1 \in 1..Len(q) /\ q[1].node = o /\ q[1].depth <= 0
    BY <1>0 DEF QueueInv
  <2>3. Queued(o, 0)
    BY <2>2
  <2> HIDE DEF Reach, Queued
  <2> QED
    BY <1>3, <2>1, <2>3
<1> DEFINE h == j - 1
<1>5. h \in 0..c /\ h < j /\ h \in Nat /\ h + 1 = j /\ h < c
  BY <1>3, <1>4
<1> HIDE DEF h
<1>6. \A m \in Reach(h) : Queued(m, h)
  <2>1. h \notin bad
    <3> HIDE DEF bad
    <3> QED
      BY <1>2, <1>3, <1>5
  <2> HIDE DEF Reach, Queued
  <2> QED
    BY <1>5, <2>1
<1>7. Reach(j) = Reach(h) \cup Around(es, dir, ty, Reach(h))
  <2>1. Reach(h + 1) = Reach(h) \cup Around(es, dir, ty, Reach(h))
    BY <1>5, WithinNext
  <2> HIDE DEF Reach
  <2> QED
    BY <1>5, <2>1
<1>8. ASSUME NEW m \in Reach(j)
      PROVE  Queued(m, j)
  <2>1. CASE m \in Reach(h)
    <3>1. PICK i \in 1..Len(q) : q[i].node = m /\ q[i].depth <= h
      BY <1>6, <2>1
    <3>2. q[i].depth \in Nat
      BY <1>b
    <3> QED
      BY <1>3, <1>5, <3>1, <3>2
  <2>2. CASE m \in Around(es, dir, ty, Reach(h))
    <3>1. PICK n \in Reach(h) : m \in Adjacent(es, n, dir, ty)
      BY <2>2 DEF Around
    <3>2. PICK i \in 1..Len(q) : q[i].node = n /\ q[i].depth <= h
      BY <1>6, <3>1
    <3>3. q[i].depth \in Nat
      BY <1>b
    <3>4. q[i].depth < c /\ q[i].depth < d
      BY <1>5, <3>2, <3>3
    <3>5. i <= k
      BY <3>4
    <3>6. PICK r \in 1..Len(q) : q[r].node = m /\ q[r].depth <= q[i].depth + 1
      BY <3>1, <3>2, <3>4, <3>5 DEF QueueInv
    <3>7. q[r].depth \in Nat
      BY <1>b
    <3>8. q[r].depth <= j
      BY <1>3, <1>5, <3>2, <3>3, <3>6, <3>7
    <3> QED
      BY <3>6, <3>8
  <2> HIDE DEF Reach, Queued
  <2> QED
    BY <1>7, <1>8, <2>1, <2>2
<1> HIDE DEF Reach, Queued
<1> QED
  BY <1>3, <1>8

\* new lists, one deeper than e, what is next to e and not yet queued.
Appended(es, dir, ty, q, e, d, new) ==
    /\ new \in Seq(Entries)
    /\ \A i \in 1..Len(new) : new[i].depth = e.depth + 1
    /\ \A i, j \in 1..Len(new) : new[i].node = new[j].node => i = j
    /\ \A i \in 1..Len(new) :
          /\ e.depth < d
          /\ new[i].node \in Adjacent(es, e.node, dir, ty) \ Visited(q)
    /\ e.depth < d =>
          \A m \in Adjacent(es, e.node, dir, ty) \ Visited(q) :
             \E i \in 1..Len(new) : new[i].node = m

\* What the expansion of an entry appends.
LEMMA NextEntriesAre ==
    ASSUME NEW es \in SUBSET Edges, NEW dir, NEW ty, NEW q, NEW e \in Entries,
           NEW d \in Nat, NEW new, new = NextEntries(es, dir, ty, q, e, d)
    PROVE  Appended(es, dir, ty, q, e, d, new)
<1> DEFINE A == Adjacent(es, e.node, dir, ty) \ Visited(q)
           s == IF Expandable(e, d) THEN SetToSeq(A) ELSE <<>>
<1>1. A \in SUBSET NodeId /\ IsFiniteSet(A)
  <2>1. A \in SUBSET NodeId
    BY AdjacentTyped
  <2> HIDE DEF A
  <2> QED
    BY <2>1, NodeIdAssumption, FS_Subset
<1>2. new = [i \in 1..Len(s) |-> [node |-> s[i], depth |-> e.depth + 1]]
  BY DEF NextEntries
<1>3. Expandable(e, d) <=> e.depth < d
  BY DEF Expandable
<1>4. /\ s \in Seq(NodeId) /\ Len(s) \in Nat
      /\ \A i, j \in 1..Len(s) : s[i] = s[j] => i = j
      /\ \A i \in 1..Len(s) : e.depth < d /\ s[i] \in A
      /\ e.depth < d => \A m \in A : \E i \in 1..Len(s) : s[i] = m
  <2>1. CASE e.depth < d
    <3>1. s = SetToSeq(A)
      BY <1>3, <2>1
    <3> HIDE DEF A, s
    <3>2. /\ s \in Seq(A)
          /\ \A i, j \in 1..Len(s) : s[i] = s[j] => i = j
          /\ {s[i] : i \in 1..Len(s)} = A
      BY <1>1, <3>1, Listing
    <3>3. s \in Seq(NodeId) /\ Len(s) \in Nat
      BY <1>1, <3>2
    <3> QED
      BY <2>1, <3>2, <3>3
  <2>2. CASE ~(e.depth < d)
    <3>1. s = <<>>
      BY <1>3, <2>2
    <3> HIDE DEF A, s
    <3> QED
      BY <2>2, <3>1
  <2> QED
    BY <2>1, <2>2
<1> HIDE DEF s, A
<1>5. e.depth + 1 \in Nat
  BY DEF Entries
<1>6. /\ new \in Seq(Entries) /\ Len(new) = Len(s)
      /\ \A i \in 1..Len(s) : new[i].node = s[i] /\ new[i].depth = e.depth + 1
  <2>1. \A i \in 1..Len(s) :
           [node |-> s[i], depth |-> e.depth + 1] \in Entries
    BY <1>4, <1>5 DEF Entries
  <2>2. new \in [1..Len(s) -> Entries]
    BY <1>2, <2>1
  <2>3. \A i \in 1..Len(s) : new[i] = [node |-> s[i], depth |-> e.depth + 1]
    BY <1>2
  <2> QED
    BY <1>4, <2>2, <2>3
<1> QED
  BY <1>4, <1>6 DEF A, Appended

\* One turn of the walk: the entry at the cursor is expanded.
LEMMA QueueStep ==
    ASSUME NEW es \in SUBSET Edges, NEW o \in NodeId, NEW dir, NEW ty,
           NEW d \in Nat, NEW q, NEW k \in Nat,
           QueueInv(es, o, dir, ty, d, q, k), k + 1 <= Len(q)
    PROVE  QueueInv(es, o, dir, ty, d,
                    q \o NextEntries(es, dir, ty, q, q[k + 1], d), k + 1)
<1> DEFINE e == q[k + 1]
           D == e.depth
           L == Len(q)
           Reach(c) == WithinEdges(es, o, dir, ty, c)
           new == NextEntries(es, dir, ty, q, e, d)
           g == q \o new
<1>1. q \in Seq(Entries) /\ L \in Nat /\ L > 0 /\ k + 1 \in 1..L
  BY DEF QueueInv
<1>2. /\ \A i \in 1..L : q[i] \in Entries
      /\ \A i \in 1..L : q[i].depth \in Nat
  <2>1. \A i \in 1..L : q[i] \in Entries
    BY <1>1
  <2> HIDE DEF L
  <2> QED
    BY <2>1 DEF Entries
<1>3. e \in Entries /\ D \in Nat /\ e.node \in NodeId
  BY <1>1, <1>2 DEF Entries
<1>4. /\ \A i, j \in 1..L : q[i].node = q[j].node => i = j
      /\ \A i, j \in 1..L : i < j => q[i].depth <= q[j].depth
      /\ \A i, j \in 1..L : j > k => q[i].depth <= q[j].depth + 1
  BY DEF QueueInv
<1>5. D <= d /\ e.node \in Reach(D)
  BY <1>1 DEF QueueInv, AtDistance
<1>6. /\ new \in Seq(Entries)
      /\ \A i \in 1..Len(new) : new[i].depth = D + 1
      /\ \A i, j \in 1..Len(new) : new[i].node = new[j].node => i = j
      /\ \A i \in 1..Len(new) :
            /\ D < d
            /\ new[i].node \in Adjacent(es, e.node, dir, ty) \ Visited(q)
      /\ D < d => \A m \in Adjacent(es, e.node, dir, ty) \ Visited(q) :
                     \E i \in 1..Len(new) : new[i].node = m
  <2>1. new = NextEntries(es, dir, ty, q, e, d)
    OBVIOUS
  <2> HIDE DEF e, new
  <2>2. Appended(es, dir, ty, q, e, d, new)
    BY <1>3, <2>1, NextEntriesAre
  <2> QED
    BY <2>2 DEF Appended
<1>7. ASSUME NEW m \in Adjacent(es, e.node, dir, ty) \ Visited(q)
      PROVE  m \in Reach(D + 1) /\ m \notin Reach(D)
  <2>1. Reach(D + 1) = Reach(D) \cup Around(es, dir, ty, Reach(D))
    <3> HIDE DEF D
    <3> QED
      BY <1>3, WithinNext
  <2>2. m \in Around(es, dir, ty, Reach(D))
    BY <1>5 DEF Around
  <2>3. ASSUME NEW i \in 1..L, q[i].depth < D
        PROVE  i <= k
    BY <1>1, <1>2, <1>3, <1>4, <2>3
  <2>4. \A r \in Reach(D) : \E i \in 1..L : q[i].node = r /\ q[i].depth <= D
    <3> HIDE DEF D
    <3> QED
      BY <1>3, <1>5, <2>3, QueuedWithin
  <2> HIDE DEF Reach, D
  <2>5. \A r \in Reach(D) : r \in Visited(q)
    BY <2>4 DEF Visited
  <2> QED
    BY <2>1, <2>2, <2>5
<1> HIDE DEF new, e, D
<1>8. /\ g \in Seq(Entries) /\ Len(g) \in Nat /\ Len(g) = L + Len(new)
      /\ \A i \in 1..L : i \in 1..Len(g) /\ g[i] = q[i]
      /\ \A i \in 1..Len(new) : L + i \in 1..Len(g) /\ g[L + i] = new[i]
      /\ \A i \in 1..Len(g) : i > L => i - L \in 1..Len(new)
                                         /\ g[i] = new[i - L]
  BY <1>1, <1>6
<1> HIDE DEF g, L
<1>9. \A i \in 1..Len(g) : i > L =>
         /\ g[i].depth = D + 1 /\ D < d
         /\ g[i].node \in Adjacent(es, e.node, dir, ty) \ Visited(q)
  BY <1>6, <1>8
<1>10. \A i \in 1..Len(g) : ~(i > L) => i \in 1..L /\ g[i] = q[i]
  BY <1>1, <1>8
<1>11. \A i \in 1..L : q[i].depth <= D + 1 /\ q[i].node \in Visited(q)
  <2>1. \A i \in 1..L : q[i].depth <= D + 1
    BY <1>1, <1>4 DEF D, e
  <2> QED
    BY <2>1 DEF Visited, L
<1>12. g[1] = [node |-> o, depth |-> 0] /\ Len(g) > 0
  BY <1>1, <1>6, <1>8 DEF QueueInv
<1>13. ASSUME NEW i \in 1..Len(g), NEW j \in 1..Len(g),
              g[i].node = g[j].node
       PROVE  i = j
  <2>1. CASE i > L /\ j > L
    <3>1. /\ i - L \in 1..Len(new) /\ g[i] = new[i - L]
          /\ j - L \in 1..Len(new) /\ g[j] = new[j - L]
      BY <1>8, <2>1
    <3>2. i - L = j - L
      BY <1>6, <1>13, <3>1
    <3> QED
      BY <1>1, <1>8, <3>2
  <2>2. CASE ~(i > L) /\ ~(j > L)
    BY <1>4, <1>10, <1>13, <2>2
  <2>3. CASE i > L /\ ~(j > L)
    BY <1>9, <1>10, <1>11, <1>13, <2>3
  <2>4. CASE ~(i > L) /\ j > L
    BY <1>9, <1>10, <1>11, <1>13, <2>4
  <2> QED
    BY <2>1, <2>2, <2>3, <2>4
<1>14. ASSUME NEW i \in 1..Len(g), NEW j \in 1..Len(g), i < j
       PROVE  g[i].depth <= g[j].depth
  <2>1. CASE i > L
    <3>1. j > L
      BY <1>1, <1>8, <1>14, <2>1
    <3> QED
      BY <1>3, <1>9, <2>1, <3>1
  <2>2. CASE ~(i > L) /\ ~(j > L)
    BY <1>4, <1>10, <1>14, <2>2
  <2>3. CASE ~(i > L) /\ j > L
    BY <1>9, <1>10, <1>11, <2>3
  <2> QED
    BY <2>1, <2>2, <2>3
<1>15. ASSUME NEW i \in 1..Len(g), NEW j \in 1..Len(g), j > k + 1
       PROVE  g[i].depth <= g[j].depth + 1
  <2>1. CASE j > L
    <3>1. g[i].depth \in Nat /\ g[i].depth <= D + 1
      BY <1>2, <1>3, <1>9, <1>10, <1>11
    <3>2. g[j].depth = D + 1
      BY <1>9, <2>1
    <3> QED
      BY <1>3, <3>1, <3>2
  <2>2. CASE ~(j > L)
    <3>1. j \in 1..L /\ g[j] = q[j] /\ j > k
      BY <1>10, <1>15, <2>2
    <3>2. CASE i > L
      <4>1. D <= q[j].depth
        BY <1>1, <1>4, <1>15, <3>1 DEF D, e
      <4>2. g[i].depth = D + 1 /\ q[j].depth \in Nat
        BY <1>2, <1>9, <3>1, <3>2
      <4> QED
        BY <1>3, <3>1, <4>1, <4>2
    <3>3. CASE ~(i > L)
      BY <1>4, <1>10, <3>1, <3>3
    <3> QED
      BY <3>2, <3>3
  <2> QED
    BY <2>1, <2>2
<1>16. ASSUME NEW i \in 1..Len(g), i <= k + 1, g[i].depth < d,
              NEW m \in Adjacent(es, g[i].node, dir, ty)
       PROVE  \E j \in 1..Len(g) : /\ g[j].node = m
                                   /\ g[j].depth <= g[i].depth + 1
  <2>1. i \in 1..L /\ g[i] = q[i]
    BY <1>1, <1>10, <1>16
  <2>2. CASE i <= k
    <3>1. PICK j \in 1..L : q[j].node = m /\ q[j].depth <= q[i].depth + 1
      BY <1>16, <2>1, <2>2 DEF QueueInv, L
    <3> QED
      BY <1>8, <2>1, <3>1
  <2>3. CASE i = k + 1
    <3>1. g[i] = e /\ g[i].depth = D
      BY <2>1, <2>3 DEF e, D
    <3>2. CASE m \in Visited(q)
      <4>1. PICK j \in 1..L : q[j].node = m
        BY <3>2 DEF Visited, L
      <4> QED
        BY <1>8, <1>11, <3>1, <4>1
    <3>3. CASE m \notin Visited(q)
      <4>1. PICK r \in 1..Len(new) : new[r].node = m
        BY <1>6, <1>16, <3>1, <3>3
      <4>2. L + r \in 1..Len(g) /\ g[L + r] = new[r]
        BY <1>8
      <4>3. new[r].depth = D + 1 /\ D + 1 <= D + 1
        BY <1>3, <1>6
      <4> QED
        BY <3>1, <4>1, <4>2, <4>3
    <3> QED
      BY <3>2, <3>3
  <2> QED
    BY <1>1, <1>16, <2>1, <2>2, <2>3
<1>17. ASSUME NEW i \in 1..Len(g)
       PROVE  g[i].depth <= d /\ AtDistance(es, o, dir, ty, g, i)
  <2>1. CASE i > L
    <3>1. g[i].depth = D + 1 /\ D < d /\ (D + 1) - 1 = D
      BY <1>3, <1>9, <2>1
    <3>2. g[i].node \in Reach(D + 1) /\ g[i].node \notin Reach(D)
      BY <1>7, <1>9, <2>1
    <3>3. AtDistance(es, o, dir, ty, g, i)
      BY <3>1, <3>2 DEF AtDistance
    <3> QED
      BY <1>3, <3>1, <3>3
  <2>2. CASE ~(i > L)
    <3>1. i \in 1..L /\ g[i] = q[i]
      BY <1>10, <2>2
    <3>2. q[i].depth <= d /\ AtDistance(es, o, dir, ty, q, i)
      BY <3>1 DEF QueueInv, L
    <3> QED
      BY <3>1, <3>2 DEF AtDistance
  <2> QED
    BY <2>1, <2>2
<1>18. QueueInv(es, o, dir, ty, d, g, k + 1)
  BY <1>8, <1>12, <1>13, <1>14, <1>15, <1>16, <1>17 DEF QueueInv
<1> QED
  BY <1>18 DEF g, new, e

\* A walk never queues more than what lies within its depth, each record once.
LEMMA QueueRecords ==
    ASSUME NEW es \in SUBSET Edges, NEW o \in NodeId, NEW dir, NEW ty,
           NEW d \in Nat, NEW q, NEW k \in Nat,
           QueueInv(es, o, dir, ty, d, q, k)
    PROVE  /\ Visited(q) \subseteq WithinEdges(es, o, dir, ty, d)
           /\ Len(q) = Cardinality(Visited(q)) /\ Len(q) \in Nat
           /\ Cardinality(WithinEdges(es, o, dir, ty, d)) \in Nat
           /\ Len(q) <= Cardinality(WithinEdges(es, o, dir, ty, d))
<1> DEFINE Reach(c) == WithinEdges(es, o, dir, ty, c)
           f == [i \in 1..Len(q) |-> q[i].node]
<1>1. q \in Seq(Entries) /\ Len(q) \in Nat
  BY DEF QueueInv
<1>2. \A i \in 1..Len(q) : q[i].depth \in Nat
  <2>1. \A i \in 1..Len(q) : q[i] \in Entries
    BY <1>1
  <2> QED
    BY <2>1 DEF Entries
<1>3. ASSUME NEW i \in 1..Len(q)
      PROVE  q[i].node \in Reach(d)
  <2> DEFINE c == q[i].depth
  <2>1. c \in Nat /\ c <= d /\ q[i].node \in Reach(c)
    BY <1>2 DEF QueueInv, AtDistance
  <2> HIDE DEF c
  <2>2. Reach(c) \subseteq Reach(d)
    BY <2>1, WithinMore
  <2> HIDE DEF Reach
  <2> QED
    BY <2>1, <2>2
<1>4. Visited(q) \subseteq Reach(d)
  <2> HIDE DEF Reach
  <2> QED
    BY <1>3 DEF Visited
<1>5. Visited(q) = {f[i] : i \in 1..Len(q)}
  BY DEF Visited
<1>6. \A i, j \in 1..Len(q) : f[i] = f[j] => i = j
  BY DEF QueueInv
<1>7. Cardinality(Visited(q)) = Len(q)
  <2> HIDE DEF f
  <2>1. Cardinality({f[i] : i \in 1..Len(q)}) = Len(q)
    BY <1>1, <1>6, DistinctEntries
  <2> QED
    BY <1>5, <2>1
<1>8. IsFiniteSet(Reach(d))
  <2>1. Reach(d) \in SUBSET NodeId
    BY WithinTyped
  <2> HIDE DEF Reach
  <2> QED
    BY <2>1, NodeIdAssumption, FS_Subset
<1>9. /\ Cardinality(Reach(d)) \in Nat
      /\ Cardinality(Visited(q)) <= Cardinality(Reach(d))
  <2> HIDE DEF Reach
  <2> QED
    BY <1>4, <1>8, FS_Subset, FS_CardinalityType
<1> QED
  BY <1>1, <1>4, <1>7, <1>9

\* A walk with nothing left to expand has queued all of it.
LEMMA QueueDone ==
    ASSUME NEW es \in SUBSET Edges, NEW o \in NodeId, NEW dir, NEW ty,
           NEW d \in Nat, NEW q, NEW k \in Nat,
           QueueInv(es, o, dir, ty, d, q, k), Len(q) <= k
    PROVE  Visited(q) = WithinEdges(es, o, dir, ty, d)
<1> DEFINE Reach(c) == WithinEdges(es, o, dir, ty, c)
<1>1. Len(q) \in Nat
  BY QueueRecords
<1>2. \A i \in 1..Len(q) : q[i].depth < d => i <= k
  BY <1>1
<1>3. \A m \in Reach(d) : \E i \in 1..Len(q) : q[i].node = m /\ q[i].depth <= d
  BY <1>2, QueuedWithin
<1>4. Visited(q) \subseteq Reach(d)
  BY QueueRecords
<1> HIDE DEF Reach
<1>5. Reach(d) \subseteq Visited(q)
  BY <1>3 DEF Visited
<1>6. Visited(q) = Reach(d)
  BY <1>4, <1>5
<1> QED
  BY <1>6 DEF Reach

\* The queue after k turns, with at most r entries: empty once the walk has
\* failed, which it does only when there is more to report.
WalkInv(es, o, dir, ty, d, r, q, k) ==
    \/ q = <<>> /\ Cardinality(WithinEdges(es, o, dir, ty, d)) > r
    \/ QueueInv(es, o, dir, ty, d, q, k) /\ Len(q) <= r

\* One turn of the loop.
LEMMA ExpandedInv ==
    ASSUME NEW es \in SUBSET Edges, NEW o \in NodeId, NEW dir, NEW ty, NEW b,
           b.depth \in Nat, b.results \in Nat, b.visited \in Nat,
           b.results <= b.visited, NEW q, NEW k \in Nat,
           WalkInv(es, o, dir, ty, b.depth, b.results, q, k)
    PROVE  WalkInv(es, o, dir, ty, b.depth, b.results,
                   Expanded(es, dir, ty, q, k + 1, b), k + 1)
<1> DEFINE d == b.depth
           r == b.results
           all == Cardinality(WithinEdges(es, o, dir, ty, d))
           x == Expanded(es, dir, ty, q, k + 1, b)
           new == NextEntries(es, dir, ty, q, q[k + 1], d)
           g == q \o new
<1>1. CASE q = <<>> /\ all > r
  <2>1. k + 1 > Len(q)
    BY <1>1
  <2>2. x = q
    BY <2>1 DEF Expanded
  <2> QED
    BY <1>1, <2>2 DEF WalkInv
<1>2. CASE QueueInv(es, o, dir, ty, d, q, k) /\ Len(q) <= r
  <2>0. Len(q) \in Nat
    BY <1>2 DEF QueueInv
  <2>1. CASE k + 1 > Len(q)
    <3>1. x = q
      BY <2>1 DEF Expanded
    <3>2. \A i \in 1..Len(q) : i <= k /\ i <= k + 1
      BY <2>0, <2>1
    <3> HIDE DEF x
    <3>3. QueueInv(es, o, dir, ty, d, q, k + 1)
      <4>1. \A i \in 1..Len(q) : ~(i > k + 1)
        BY <2>0, <3>2
      <4>2. \A i \in 1..Len(q) : q[i].depth < d =>
               \A m \in Adjacent(es, q[i].node, dir, ty) :
                  \E j \in 1..Len(q) :
                     q[j].node = m /\ q[j].depth <= q[i].depth + 1
        BY <1>2, <3>2 DEF QueueInv
      <4> QED
        BY <1>2, <4>1, <4>2 DEF QueueInv
    <3> QED
      BY <1>2, <3>1, <3>3 DEF WalkInv, x
  <2>2. CASE ~(k + 1 > Len(q))
    <3>1. k + 1 <= Len(q)
      BY <2>0, <2>2
    <3>2. QueueInv(es, o, dir, ty, d, g, k + 1)
      BY <1>2, <3>1, QueueStep
    <3>3. x = IF Len(g) > b.visited \/ Len(g) > r THEN <<>> ELSE g
      BY <2>2 DEF Expanded
    <3> HIDE DEF g, x, all
    <3>4. Len(g) \in Nat /\ all \in Nat /\ Len(g) <= all
      <4>1. k + 1 \in Nat /\ d \in Nat
        OBVIOUS
      <4> HIDE DEF d
      <4> QED
        BY <3>2, <4>1, QueueRecords DEF all
    <3>5. CASE Len(g) > r
      <4>1. x = <<>> /\ all > r
        BY <3>3, <3>4, <3>5
      <4> QED
        BY <4>1 DEF WalkInv, x, all
    <3>6. CASE ~(Len(g) > r)
      <4>1. x = g /\ Len(g) <= r
        BY <3>3, <3>4, <3>6
      <4> QED
        BY <3>2, <4>1 DEF WalkInv, x
    <3> QED
      BY <3>5, <3>6
  <2> QED
    BY <2>1, <2>2
<1> QED
  BY <1>1, <1>2 DEF WalkInv

QueueOf(o) == <<[node |-> o, depth |-> 0]>>

\* f lists the queues of a walk after 0, 1, ..., n turns.
Queues(es, o, dir, ty, b, n, f) ==
    f = [k \in 0..n |-> IF k = 0 THEN QueueOf(o)
                        ELSE Expanded(es, dir, ty, f[k - 1], k, b)]

\* The recursive definition of the walk has a solution.
LEMMA QueuesExist ==
    ASSUME NEW es, NEW o, NEW dir, NEW ty, NEW b, NEW n \in Nat
    PROVE  \E f : Queues(es, o, dir, ty, b, n, f)
<1> DEFINE More(q, k) == Expanded(es, dir, ty, q, k, b)
           bad == {k \in Nat : ~\E f : Queues(es, o, dir, ty, b, k, f)}
<1> SUFFICES ASSUME bad # {}
             PROVE  FALSE
  OBVIOUS
<1>1. bad \in SUBSET Nat
  OBVIOUS
<1>2. PICK k \in bad : \A j \in bad : k <= j
  BY <1>1, LeastNumber
<1>3. k \in Nat /\ ~\E f : Queues(es, o, dir, ty, b, k, f)
  OBVIOUS
<1>4. CASE k = 0
  <2> DEFINE f == [i \in 0..0 |-> QueueOf(o)]
  <2>1. Queues(es, o, dir, ty, b, 0, f)
    BY DEF Queues
  <2> QED
    BY <1>3, <1>4, <2>1
<1>5. CASE k # 0
  <2>1. k - 1 \in Nat /\ k - 1 \notin bad
    BY <1>2, <1>3, <1>5
  <2>2. PICK g : Queues(es, o, dir, ty, b, k - 1, g)
    BY <2>1
  <2> DEFINE f == [i \in 0..k |-> IF i = 0 THEN QueueOf(o)
                                  ELSE More(g[i - 1], i)]
  <2>3. \A i \in 0..(k - 1) : f[i] = g[i]
    <3> TAKE i \in 0..(k - 1)
    <3>1. i \in 0..k
      BY <1>3
    <3>2. g[i] = IF i = 0 THEN QueueOf(o) ELSE More(g[i - 1], i)
      BY <2>2 DEF Queues
    <3> QED
      BY <3>1, <3>2
  <2>4. \A i \in 0..k : i # 0 => f[i - 1] = g[i - 1]
    <3> TAKE i \in 0..k
    <3>1. i # 0 => i - 1 \in 0..(k - 1)
      BY <1>3
    <3> HIDE DEF f
    <3> QED
      BY <2>3, <3>1
  <2>5. f = [i \in 0..k |-> IF i = 0 THEN QueueOf(o) ELSE More(f[i - 1], i)]
    BY <2>4
  <2> HIDE DEF f
  <2>6. Queues(es, o, dir, ty, b, k, f)
    BY <2>5 DEF Queues
  <2> QED
    BY <1>3, <2>6
<1> QED
  BY <1>4, <1>5

\* Every queue of the table is as it should be.
LEMMA QueuesInv ==
    ASSUME NEW es \in SUBSET Edges, NEW o \in NodeId, NEW dir, NEW ty, NEW b,
           b.depth \in Nat, b.results \in Nat \ {0}, b.visited \in Nat,
           b.results <= b.visited, NEW n \in Nat, NEW f,
           Queues(es, o, dir, ty, b, n, f), NEW k \in 0..n
    PROVE  WalkInv(es, o, dir, ty, b.depth, b.results, f[k], k)
<1> DEFINE Good(i) == WalkInv(es, o, dir, ty, b.depth, b.results, f[i], i)
           bad == {i \in 0..n : ~Good(i)}
<1> SUFFICES ASSUME bad # {}
             PROVE  FALSE
  OBVIOUS
<1>1. PICK i \in bad : \A j \in bad : i <= j
  <2>1. bad \in SUBSET Nat
    OBVIOUS
  <2> HIDE DEF bad
  <2> QED
    BY <2>1, LeastNumber
<1>2. i \in 0..n /\ ~Good(i)
  OBVIOUS
<1>3. f[i] = IF i = 0 THEN QueueOf(o)
             ELSE Expanded(es, dir, ty, f[i - 1], i, b)
  BY <1>2, Zenon DEF Queues
<1>4. CASE i = 0
  <2>1. QueueInv(es, o, dir, ty, b.depth, f[0], 0)
    BY <1>3, <1>4, QueueStart DEF QueueOf
  <2>2. Len(f[0]) = 1 /\ 1 <= b.results
    BY <1>3, <1>4 DEF QueueOf
  <2> QED
    BY <1>2, <1>4, <2>1, <2>2 DEF WalkInv
<1>5. CASE i # 0
  <2> DEFINE h == i - 1
  <2>1. h \in 0..n /\ h < i /\ h \in Nat /\ h + 1 = i
    BY <1>2, <1>5
  <2> HIDE DEF h
  <2>2. Good(h)
    <3>1. h \notin bad
      <4> HIDE DEF bad
      <4> QED
        BY <1>1, <1>2, <2>1
    <3> HIDE DEF Good
    <3> QED
      BY <2>1, <3>1
  <2>3. f[i] = Expanded(es, dir, ty, f[h], h + 1, b)
    BY <1>3, <1>5, <2>1 DEF h
  <2>4. Good(h + 1)
    BY <2>1, <2>2, <2>3, ExpandedInv
  <2> HIDE DEF Good
  <2> QED
    BY <1>2, <2>1, <2>4
<1> QED
  BY <1>4, <1>5

\* What a walk to depth d with at most r results returns.
ExactWalk(es, o, dir, ty, d, r, walk) ==
    IF Cardinality(WithinEdges(es, o, dir, ty, d)) > r THEN walk = <<>>
    ELSE /\ walk \in Seq(Entries)
         /\ Visited(walk) = WithinEdges(es, o, dir, ty, d)
         /\ Len(walk) = Cardinality(WithinEdges(es, o, dir, ty, d))
         /\ \A i \in 1..Len(walk) : AtDistance(es, o, dir, ty, walk, i)

\* traverse is exact for every graph, origin, direction, filter and depth, and
\* for every result bound; the visited bound is the configured one.
LEMMA WalkIsExact ==
    ASSUME NEW es \in SUBSET Edges, NEW o \in NodeId, NEW dir, NEW ty, NEW b,
           b.depth \in Nat, b.results \in Nat, b.visited = 0
    PROVE  ExactWalk(es, o, dir, ty, Narrowed(b.depth, Limits.depth),
                     Narrowed(b.results, Limits.results),
                     Walk(es, o, dir, ty, b))
<1> DEFINE d == Narrowed(b.depth, Limits.depth)
           r == Narrowed(b.results, Limits.results)
           n == Narrowed(b.visited, MaxVisited)
           c == [depth |-> d, results |-> r, visited |-> n]
           f == CHOOSE g : Queues(es, o, dir, ty, c, n, g)
           q == f[n]
           all == WithinEdges(es, o, dir, ty, d)
<1>1. Limits.depth \in Nat \ {0} /\ Limits.results \in Nat \ {0}
  BY LimitsAreValid
<1>2. d \in Nat /\ r \in Nat \ {0} /\ n \in Nat /\ r <= n
  <2>1. n = MaxVisited /\ MaxVisited \in Nat /\ Limits.results <= MaxVisited
    BY QueryLimitsAreValid DEF Narrowed
  <2>2. d \in Nat
    BY <1>1 DEF Narrowed
  <2>3. r \in Nat /\ r <= Limits.results /\ r > 0
    BY <1>1 DEF Narrowed
  <2> HIDE DEF n, d, r
  <2> QED
    BY <1>1, <2>1, <2>2, <2>3
<1>3. Walk(es, o, dir, ty, b) = q
  BY DEF Walk, Queues, QueueOf
<1> HIDE DEF d, r, n
<1>4. c.depth = d /\ c.results = r /\ c.visited = n
  OBVIOUS
<1> HIDE DEF c
<1>5. Queues(es, o, dir, ty, c, n, f)
  BY <1>2, QueuesExist
<1> HIDE DEF f
<1>6. WalkInv(es, o, dir, ty, d, r, q, n)
  <2>1. n \in 0..n
    BY <1>2
  <2> QED
    BY <1>2, <1>4, <1>5, <2>1, QueuesInv
<1> HIDE DEF q
<1>7. CASE q = <<>> /\ Cardinality(all) > r
  BY <1>3, <1>7 DEF ExactWalk, d, r
<1>8. CASE QueueInv(es, o, dir, ty, d, q, n) /\ Len(q) <= r
  <2>1. Visited(q) \subseteq all /\ Len(q) = Cardinality(Visited(q))
           /\ Len(q) \in Nat
    BY <1>2, <1>8, QueueRecords
  <2>2. Visited(q) = all
    BY <1>2, <1>8, <2>1, QueueDone
  <2>3. q \in Seq(Entries) /\ \A i \in 1..Len(q) : AtDistance(es, o, dir, ty, q, i)
    BY <1>8 DEF QueueInv
  <2>4. ~(Cardinality(all) > r)
    BY <1>2, <1>8, <2>1, <2>2
  <2>5. ExactWalk(es, o, dir, ty, d, r, q)
    BY <2>1, <2>2, <2>3, <2>4 DEF ExactWalk
  <2> QED
    BY <1>3, <2>5 DEF d, r
<1> QED
  BY <1>6, <1>7, <1>8 DEF WalkInv

\* traverse is exact on every graph the store can reach, for every value of
\* the limits.
THEOREM TraversalAlwaysExact == Spec => []TraversalIsExact
<1>1. TypeOK => TraversalIsExact
  <2> SUFFICES ASSUME TypeOK,
                      NEW origin \in indexed,
                      NEW direction \in {"Outgoing", "Incoming"},
                      NEW types \in {EdgeTypes, SuccessorRelations},
                      NEW bounds \in CallerBounds
               PROVE
        LET walk == Walk(edges, origin, direction, types, bounds)
            d == Narrowed(bounds.depth, Limits.depth)
            reach(k) == WithinEdges(edges, origin, direction, types, k)
        IN IF Cardinality(reach(d)) > Narrowed(bounds.results,
                                               Limits.results)
           THEN walk = <<>>
           ELSE /\ Visited(walk) = reach(d)
                /\ Len(walk) = Cardinality(reach(d))
                /\ \A i \in 1..Len(walk) :
                      /\ walk[i].node \in reach(walk[i].depth)
                      /\ walk[i].depth > 0 =>
                            walk[i].node \notin reach(walk[i].depth - 1)
    BY DEF TraversalIsExact
  <2>1. edges \in SUBSET Edges /\ origin \in NodeId
    BY DEF TypeOK
  <2>2. bounds.depth \in Nat /\ bounds.results \in Nat /\ bounds.visited = 0
    BY DEF CallerBounds
  <2>3. ExactWalk(edges, origin, direction, types,
                  Narrowed(bounds.depth, Limits.depth),
                  Narrowed(bounds.results, Limits.results),
                  Walk(edges, origin, direction, types, bounds))
    BY <2>1, <2>2, WalkIsExact
  <2> QED
    BY <2>3, Zenon DEF ExactWalk, AtDistance
<1> QED
  BY <1>1, TypeCorrect, PTL

-----------------------------------------------------------------------------
(* Explanations *)

\* s lists the n elements of S by increasing depth.
Sorted(S, n, s) ==
    /\ s \in [1..n -> S]
    /\ IsInjective(s)
    /\ \A i, j \in 1..n : i < j => s[i].depth <= s[j].depth

\* A finite set can be listed by depth.
LEMMA SortedExists ==
    ASSUME NEW S, IsFiniteSet(S), \A x \in S : x.depth \in Nat
    PROVE  \E s : Sorted(S, Cardinality(S), s)
<1> DEFINE bad == {n \in Nat : \E T \in SUBSET S :
                      Cardinality(T) = n /\ ~\E s : Sorted(T, n, s)}
<1>1. Cardinality(S) \in Nat
  BY FS_CardinalityType
<1> SUFFICES ASSUME bad # {}
             PROVE  FALSE
  BY <1>1
<1>2. PICK n \in bad : \A m \in bad : n <= m
  <2>1. bad \in SUBSET Nat
    OBVIOUS
  <2> HIDE DEF bad
  <2> QED
    BY <2>1, LeastNumber
<1>3. n \in Nat
  OBVIOUS
<1>4. PICK T \in SUBSET S : Cardinality(T) = n /\ ~\E s : Sorted(T, n, s)
  OBVIOUS
<1>5. IsFiniteSet(T)
  BY FS_Subset
<1>6. CASE T = {}
  <2> DEFINE s == [i \in 1..0 |-> i]
  <2>1. n = 0
    BY <1>4, <1>6, FS_EmptySet
  <2>2. Sorted(T, 0, s)
    <3>1. 1..0 = {}
      OBVIOUS
    <3>2. s \in [1..0 -> T]
      BY <3>1
    <3> QED
      BY <3>1, <3>2 DEF Sorted, IsInjective
  <2> QED
    BY <1>4, <2>1, <2>2
<1>7. CASE T # {}
  <2> DEFINE depths == {y.depth : y \in T}
  <2>1. PICK z \in depths : \A y \in depths : z <= y
    <3>1. depths \in SUBSET Nat /\ depths # {}
      BY <1>7
    <3> HIDE DEF depths
    <3> QED
      BY <3>1, LeastNumber
  <2>2. PICK x \in T : \A y \in T : x.depth <= y.depth
    BY <2>1
  <2> DEFINE R == T \ {x}
  <2>3. IsFiniteSet(R) /\ Cardinality(R) = n - 1 /\ n - 1 \in Nat
    <3>1. IsFiniteSet(R) /\ Cardinality(R) = n - 1
      BY <1>4, <1>5, FS_RemoveElement
    <3>2. Cardinality(R) \in Nat
      BY <3>1, FS_CardinalityType
    <3> QED
      BY <3>1, <3>2
  <2> DEFINE h == n - 1
  <2>a. h \in Nat /\ h < n /\ n = h + 1 /\ Cardinality(R) = h
    BY <1>3, <2>3
  <2> HIDE DEF h
  <2>4. h \notin bad
    <3> HIDE DEF bad
    <3> QED
      BY <1>2, <1>3, <2>a
  <2>5. PICK g : Sorted(R, h, g)
    BY <2>a, <2>4
  <2> DEFINE s == [i \in 1..n |-> IF i = 1 THEN x ELSE g[i - 1]]
  <2>b. \A i \in 1..n : i # 1 => i - 1 \in 1..h
    BY <1>3, <2>a
  <2>6. \A i \in 1..h : g[i] \in R
    BY <2>5 DEF Sorted
  <2>7. \A i \in 1..n : IF i = 1 THEN s[i] = x
                        ELSE s[i] = g[i - 1] /\ s[i] \in R
    BY <2>6, <2>b
  <2>8. s \in [1..n -> T]
    BY <2>7
  <2> HIDE DEF s
  <2>9. ASSUME NEW i \in 1..n, NEW j \in 1..n, s[i] = s[j]
        PROVE  i = j
    <3>1. CASE i = 1 \/ j = 1
      BY <2>7, <2>9, <3>1
    <3>2. CASE i # 1 /\ j # 1
      <4>1. g[i - 1] = g[j - 1] /\ i - 1 \in 1..h /\ j - 1 \in 1..h
        BY <2>7, <2>9, <2>b, <3>2
      <4>2. i - 1 = j - 1
        BY <2>5, <4>1 DEF Sorted, IsInjective
      <4> QED
        BY <1>3, <4>2
    <3> QED
      BY <3>1, <3>2
  <2>10. ASSUME NEW i \in 1..n, NEW j \in 1..n, i < j
         PROVE  s[i].depth <= s[j].depth
    <3>1. CASE i = 1
      <4>1. s[i] = x /\ s[j] \in T
        BY <2>7, <2>8, <3>1
      <4> QED
        BY <2>2, <4>1
    <3>2. CASE i # 1
      <4>1. j # 1 /\ i - 1 < j - 1
        BY <1>3, <2>10, <3>2
      <4>2. /\ s[i] = g[i - 1] /\ i - 1 \in 1..h
            /\ s[j] = g[j - 1] /\ j - 1 \in 1..h
        BY <2>7, <2>b, <3>2, <4>1
      <4> QED
        BY <2>5, <4>1, <4>2 DEF Sorted
    <3> QED
      BY <3>1, <3>2
  <2>11. IsInjective(s)
    <3>1. DOMAIN s = 1..n
      BY <2>8
    <3> QED
      BY <2>9, <3>1 DEF IsInjective
  <2>12. Sorted(T, n, s)
    BY <2>8, <2>10, <2>11 DEF Sorted
  <2> QED
    BY <1>4, <2>12
<1> QED
  BY <1>6, <1>7

\* So InDepthOrder lists every element once, by depth.
LEMMA DepthOrder ==
    ASSUME NEW S, IsFiniteSet(S), \A x \in S : x.depth \in Nat,
           NEW s, s = InDepthOrder(S)
    PROVE  /\ s \in Seq(S) /\ Len(s) \in Nat
           /\ \A i \in 1..Len(s) : s[i] \in S
           /\ \A x \in S : \E i \in 1..Len(s) : s[i] = x
           /\ \A i, j \in 1..Len(s) : i < j => s[i].depth <= s[j].depth
<1> DEFINE n == Cardinality(S)
<1>1. n \in Nat
  BY FS_CardinalityType
<1>2. PICK t : Sorted(S, n, t)
  BY SortedExists
<1>3. Sorted(S, n, s)
  BY <1>2 DEF InDepthOrder, Sorted
<1> HIDE DEF n
<1>4. s \in [1..n -> S]
  BY <1>3 DEF Sorted
<1>5. s \in Seq(S) /\ Len(s) = n
  BY <1>1, <1>4
<1>6. IsInjective(s)
  BY <1>3 DEF Sorted
<1>7. {s[i] : i \in 1..n} = S
  BY <1>4, <1>6, AllListed DEF n
<1>8. \A x \in S : \E i \in 1..n : s[i] = x
  BY <1>7
<1>9. \A i, j \in 1..n : i < j => s[i].depth <= s[j].depth
  BY <1>3 DEF Sorted
<1> QED
  BY <1>1, <1>4, <1>5, <1>8, <1>9

\* x is the step of the edge e, which starts at the i-th record of the walk.
StepOf(es, walk, ty, x, i, e) ==
    /\ i \in 1..Len(walk) /\ e \in es
    /\ e.type \in ty /\ e.from = walk[i].node /\ e.to \in Visited(walk)
    /\ x = [depth |-> walk[i].depth + 1, edge |-> e]

\* The steps of an explanation are finitely many.
LEMMA StepsAre ==
    ASSUME NEW es, IsFiniteSet(es), NEW ty, NEW walk \in Seq(Entries),
           NEW S, S = ExplainSteps(es, walk, ty)
    PROVE  /\ IsFiniteSet(S)
           /\ \A x \in S : \E i, e : StepOf(es, walk, ty, x, i, e)
           /\ \A x, i, e : StepOf(es, walk, ty, x, i, e) => x \in S
<1> DEFINE P == (1..Len(walk)) \X es
           Q == {p \in P : /\ p[2].type \in ty
                           /\ p[2].from = walk[p[1]].node
                           /\ p[2].to \in Visited(walk)}
           Step(p) == [depth |-> walk[p[1]].depth + 1, edge |-> p[2]]
           f == [p \in Q |-> Step(p)]
<1>1. S = {Step(p) : p \in Q}
  BY DEF ExplainSteps
<1>2. IsFiniteSet(P)
  <2>1. Len(walk) \in Nat
    OBVIOUS
  <2>2. IsFiniteSet(1..Len(walk))
    BY <2>1, FS_Interval
  <2> QED
    BY <2>2, FS_Product
<1>3. IsFiniteSet(Q)
  <2>1. Q \in SUBSET P
    OBVIOUS
  <2> HIDE DEF P, Q
  <2> QED
    BY <1>2, <2>1, FS_Subset
<1>4. f \in Surjection(Q, S)
  <2> HIDE DEF Q, Step
  <2>1. f \in [Q -> S] /\ \A x \in S : \E p \in Q : f[p] = x
    BY <1>1
  <2> QED
    BY <2>1 DEF Surjection
<1>5. IsFiniteSet(S)
  <2> HIDE DEF f, Q
  <2> QED
    BY <1>3, <1>4, FS_Surjection
<1>6. ASSUME NEW x \in S
      PROVE  \E i, e : StepOf(es, walk, ty, x, i, e)
  <2>1. PICK p \in Q : x = Step(p)
    BY <1>1
  <2>2. StepOf(es, walk, ty, x, p[1], p[2])
    BY <2>1 DEF StepOf
  <2> QED
    BY <2>2
<1>7. ASSUME NEW x, NEW i, NEW e, StepOf(es, walk, ty, x, i, e)
      PROVE  x \in S
  <2> DEFINE p == <<i, e>>
  <2>1. p \in P /\ p[1] = i /\ p[2] = e
    BY <1>7 DEF StepOf
  <2> HIDE DEF p, P
  <2>2. p \in Q /\ x = Step(p)
    BY <1>7, <2>1 DEF StepOf
  <2> QED
    BY <1>1, <2>2
<1> QED
  BY <1>5, <1>6, <1>7

\* Every record of an exact outgoing walk but its origin was reached by an edge
\* from a record of the walk that is less deep.
LEMMA ReachedFrom ==
    ASSUME NEW es, NEW o, NEW ty, NEW d \in Nat, NEW walk \in Seq(Entries),
           Visited(walk) = WithinEdges(es, o, "Outgoing", ty, d),
           \A i \in 1..Len(walk) : AtDistance(es, o, "Outgoing", ty, walk, i),
           NEW p \in 1..Len(walk), walk[p].node # o
    PROVE  \E h \in 1..Len(walk), e \in es :
              /\ e.type \in ty /\ e.from = walk[h].node
              /\ e.to = walk[p].node /\ walk[h].depth < walk[p].depth
<1> DEFINE Reach(c) == WithinEdges(es, o, "Outgoing", ty, c)
           D == walk[p].depth
           m == walk[p].node
<1>1. \A i \in 1..Len(walk) : walk[i].depth \in Nat
  <2>1. \A i \in 1..Len(walk) : walk[i] \in Entries
    OBVIOUS
  <2> QED
    BY <2>1 DEF Entries
<1>2. D \in Nat /\ m \in Reach(D) /\ (D > 0 => m \notin Reach(D - 1))
  BY <1>1 DEF AtDistance
<1> HIDE DEF D
<1>3. D # 0
  BY <1>2, WithinZero
<1> DEFINE c == D - 1
<1>4. c \in Nat /\ c + 1 = D /\ m \notin Reach(c)
  BY <1>2, <1>3
<1> HIDE DEF c
<1>5. m \in Around(es, "Outgoing", ty, Reach(c))
  <2>1. Reach(c + 1) = Reach(c) \cup Around(es, "Outgoing", ty, Reach(c))
    BY <1>4, WithinNext
  <2> HIDE DEF Reach
  <2> QED
    BY <1>2, <1>4, <2>1
<1>6. PICK n \in Reach(c) : m \in Adjacent(es, n, "Outgoing", ty)
  BY <1>5 DEF Around
<1>7. PICK e \in es : e.type \in ty /\ e.from = n /\ e.to = m
  BY <1>6 DEF Adjacent
<1>8. c <= d
  <2> SUFFICES ASSUME ~(c <= d)
               PROVE  FALSE
    OBVIOUS
  <2>1. Reach(d) \subseteq Reach(c)
    BY <1>4, WithinMore
  <2>2. m \in Visited(walk)
    BY DEF Visited
  <2> QED
    BY <1>4, <2>1, <2>2
<1>9. n \in Visited(walk)
  <2>1. Reach(c) \subseteq Reach(d)
    BY <1>4, <1>8, WithinMore
  <2> QED
    BY <1>6, <2>1
<1>10. PICK h \in 1..Len(walk) : walk[h].node = n
  BY <1>9 DEF Visited
<1>11. walk[h].depth < D
  <2> DEFINE b == walk[h].depth
  <2>1. b \in Nat /\ (b > 0 => n \notin Reach(b - 1))
    BY <1>1, <1>10 DEF AtDistance
  <2> HIDE DEF b
  <2> SUFFICES ASSUME ~(b < D)
               PROVE  FALSE
    BY DEF b
  <2> DEFINE a == b - 1
  <2>2. a \in Nat /\ c <= a /\ b > 0
    BY <1>2, <1>4, <2>1
  <2> HIDE DEF a
  <2>3. Reach(c) \subseteq Reach(a)
    BY <1>4, <2>2, WithinMore
  <2>4. n \notin Reach(a)
    BY <2>1, <2>2 DEF a
  <2> QED
    BY <1>6, <2>3, <2>4
<1> QED
  BY <1>7, <1>10, <1>11 DEF D

\* Each step of s starts at the origin or where an earlier one arrived, and
\* together they have every edge of the types between the records of the walk.
Connected(es, o, ty, walk, s) ==
    /\ s \in Seq(ExplainSteps(es, walk, ty)) /\ Len(s) \in Nat
    /\ \A i \in 1..Len(s) :
          \/ s[i].edge.from = o
          \/ \E j \in 1..(i - 1) : s[j].edge.to = s[i].edge.from
    /\ {s[i].edge : i \in 1..Len(s)} =
       {e \in es : e.type \in ty /\ {e.from, e.to} \subseteq Visited(walk)}

\* What starts deeper arrives deeper.
LEMMA OneDeeper ==
    ASSUME NEW a \in Nat, NEW b \in Nat, a < b
    PROVE  a + 1 < b + 1 /\ a + 1 \in Nat /\ b + 1 \in Nat
OBVIOUS

\* The steps of an exact walk in depth order are connected.
LEMMA StepsConnected ==
    ASSUME NEW es, IsFiniteSet(es), NEW o, NEW ty, NEW d \in Nat,
           NEW walk \in Seq(Entries),
           Visited(walk) = WithinEdges(es, o, "Outgoing", ty, d),
           \A i \in 1..Len(walk) : AtDistance(es, o, "Outgoing", ty, walk, i),
           NEW s, s = InDepthOrder(ExplainSteps(es, walk, ty))
    PROVE  Connected(es, o, ty, walk, s)
<1> DEFINE S == ExplainSteps(es, walk, ty)
<1>1. /\ IsFiniteSet(S)
      /\ \A x \in S : \E i, e : StepOf(es, walk, ty, x, i, e)
      /\ \A x, i, e : StepOf(es, walk, ty, x, i, e) => x \in S
  BY StepsAre
<1>2. \A i \in 1..Len(walk) : walk[i].depth \in Nat
  <2>1. \A i \in 1..Len(walk) : walk[i] \in Entries
    OBVIOUS
  <2> QED
    BY <2>1 DEF Entries
<1>a. s = InDepthOrder(S)
  OBVIOUS
<1> HIDE DEF S
<1>3. \A x \in S : x.depth \in Nat
  <2> TAKE x \in S
  <2>1. PICK i, e : StepOf(es, walk, ty, x, i, e)
    BY <1>1
  <2> QED
    BY <1>2, <2>1 DEF StepOf
<1>4. /\ s \in Seq(S) /\ Len(s) \in Nat
      /\ \A i \in 1..Len(s) : s[i] \in S
      /\ \A x \in S : \E i \in 1..Len(s) : s[i] = x
      /\ \A i, j \in 1..Len(s) : i < j => s[i].depth <= s[j].depth
  BY <1>1, <1>3, <1>a, DepthOrder
<1>5. ASSUME NEW i \in 1..Len(s), s[i].edge.from # o
      PROVE  \E j \in 1..(i - 1) : s[j].edge.to = s[i].edge.from
  <2>1. PICK p, e : StepOf(es, walk, ty, s[i], p, e)
    BY <1>1, <1>4
  <2>2. /\ p \in 1..Len(walk) /\ e.from = walk[p].node
        /\ s[i].edge = e /\ s[i].depth = walk[p].depth + 1
    BY <2>1 DEF StepOf
  <2>3. PICK h \in 1..Len(walk), f \in es :
              /\ f.type \in ty /\ f.from = walk[h].node
              /\ f.to = walk[p].node /\ walk[h].depth < walk[p].depth
    <3>1. walk[p].node # o
      BY <1>5, <2>2
    <3> QED
      BY <2>2, <3>1, ReachedFrom
  <2> DEFINE x == [depth |-> walk[h].depth + 1, edge |-> f]
  <2>4. x \in S
    <3>1. f.to \in Visited(walk)
      BY <2>2, <2>3 DEF Visited
    <3>2. StepOf(es, walk, ty, x, h, f)
      BY <2>3, <3>1 DEF StepOf
    <3> QED
      BY <1>1, <3>2
  <2>5. x.depth = walk[h].depth + 1 /\ x.edge = f
    OBVIOUS
  <2> HIDE DEF x
  <2>6. PICK j \in 1..Len(s) : s[j] = x
    BY <1>4, <2>4
  <2>7. walk[h].depth \in Nat /\ walk[p].depth \in Nat
    BY <1>2, <2>2
  <2>8. s[j].depth < s[i].depth /\ s[j].depth \in Nat /\ s[i].depth \in Nat
    <3>1. s[i].depth = walk[p].depth + 1
      BY <2>2
    <3>2. s[j].depth = walk[h].depth + 1
      BY <2>5, <2>6
    <3>3. walk[h].depth < walk[p].depth
      BY <2>3
    <3> QED
      BY <2>7, <3>1, <3>2, <3>3, OneDeeper
  <2>9. j < i
    <3>1. ~(i < j)
      <4> SUFFICES ASSUME i < j
                   PROVE  FALSE
        OBVIOUS
      <4>1. s[i].depth <= s[j].depth
        BY <1>4
      <4> QED
        BY <2>8, <4>1
    <3>2. i # j
      BY <2>8
    <3> QED
      BY <1>4, <3>1, <3>2
  <2>10. j \in 1..(i - 1)
    BY <1>4, <2>9
  <2>11. s[j].edge.to = s[i].edge.from
    BY <2>2, <2>3, <2>5, <2>6
  <2> QED
    BY <2>10, <2>11
<1> DEFINE T == {e \in es : e.type \in ty /\ {e.from, e.to} \subseteq Visited(walk)}
<1>6. ASSUME NEW i \in 1..Len(s)
      PROVE  s[i].edge \in T
  <2>1. PICK p, e : StepOf(es, walk, ty, s[i], p, e)
    BY <1>1, <1>4
  <2>2. /\ p \in 1..Len(walk) /\ e.from = walk[p].node /\ e \in es
        /\ e.type \in ty /\ e.to \in Visited(walk) /\ s[i].edge = e
    BY <2>1 DEF StepOf
  <2>3. e.from \in Visited(walk)
    BY <2>2 DEF Visited
  <2> QED
    BY <2>2, <2>3
<1>7. ASSUME NEW e \in T
      PROVE  \E i \in 1..Len(s) : s[i].edge = e
  <2>1. e \in es /\ e.type \in ty /\ e.to \in Visited(walk)
           /\ e.from \in Visited(walk)
    OBVIOUS
  <2>2. PICK p \in 1..Len(walk) : e.from = walk[p].node
    BY <2>1 DEF Visited
  <2> DEFINE x == [depth |-> walk[p].depth + 1, edge |-> e]
  <2>3. StepOf(es, walk, ty, x, p, e) /\ x.edge = e
    BY <2>1, <2>2 DEF StepOf
  <2> HIDE DEF x, T
  <2>4. x \in S
    BY <1>1, <2>3
  <2>5. PICK i \in 1..Len(s) : s[i] = x
    BY <1>4, <2>4
  <2> QED
    BY <2>3, <2>5
<1>8. {s[i].edge : i \in 1..Len(s)} = T
  <2> HIDE DEF T
  <2> QED
    BY <1>6, <1>7
<1> QED
  BY <1>4, <1>5, <1>8 DEF S, Connected

\* What an explanation owes its reader: each step starts at the subject or
\* where an earlier one arrived; if nothing was cut, every edge is there.
ExplainsAll(es, o, ty, d, x) ==
    /\ \A i \in 1..Len(x.steps) :
          \/ x.steps[i].edge.from = o
          \/ \E j \in 1..(i - 1) : x.steps[j].edge.to = x.steps[i].edge.from
    /\ ~x.truncated =>
          {x.steps[i].edge : i \in 1..Len(x.steps)} =
          {e \in es : /\ e.type \in ty
                      /\ {e.from, e.to} \subseteq
                            WithinEdges(es, o, "Outgoing", ty, d)}

\* An explanation cut at n steps keeps its promise when the walk was exact.
LEMMA CutExplains ==
    ASSUME NEW es, IsFiniteSet(es), NEW o, NEW ty, NEW d \in Nat,
           NEW r, NEW walk, ExactWalk(es, o, "Outgoing", ty, d, r, walk),
           NEW n \in Nat, NEW s,
           s = InDepthOrder(ExplainSteps(es, walk, ty)), NEW x,
           x = [steps     |-> SubSeq(s, 1, IF Len(s) > n THEN n ELSE Len(s)),
                truncated |-> walk = <<>> \/ Len(s) > n]
    PROVE  ExplainsAll(es, o, ty, d, x)
<1> DEFINE S == ExplainSteps(es, walk, ty)
           c == IF Len(s) > n THEN n ELSE Len(s)
<1>0. /\ x.steps = SubSeq(s, 1, c)
      /\ x.truncated <=> (walk = <<>> \/ Len(s) > n)
  OBVIOUS
<1>1. CASE walk = <<>>
  <2>0. walk \in Seq(Entries) /\ Len(walk) = 0
    BY <1>1
  <2>1. S = {}
    <3>1. \A y \in S : \E i, e : StepOf(es, walk, ty, y, i, e)
      BY <2>0, StepsAre
    <3>2. \A y, i, e : ~StepOf(es, walk, ty, y, i, e)
      BY <2>0 DEF StepOf
    <3> QED
      BY <3>1, <3>2
  <2>2. s \in Seq({}) /\ Len(s) = 0
    <3>1. IsFiniteSet({}) /\ \A y \in {} : y.depth \in Nat
      BY FS_EmptySet
    <3>2. s \in Seq({})
      BY <2>1, <3>1, DepthOrder
    <3> QED
      BY <3>2
  <2>3. x.truncated /\ Len(x.steps) = 0
    BY <1>0, <1>1, <2>2
  <2> QED
    BY <2>3 DEF ExplainsAll
<1>2. CASE walk # <<>>
  <2>1. /\ walk \in Seq(Entries)
        /\ Visited(walk) = WithinEdges(es, o, "Outgoing", ty, d)
        /\ \A i \in 1..Len(walk) : AtDistance(es, o, "Outgoing", ty, walk, i)
    BY <1>2 DEF ExactWalk
  <2>2. /\ s \in Seq(S) /\ Len(s) \in Nat
        /\ \A i \in 1..Len(s) :
              \/ s[i].edge.from = o
              \/ \E j \in 1..(i - 1) : s[j].edge.to = s[i].edge.from
        /\ {s[i].edge : i \in 1..Len(s)} =
           {e \in es : e.type \in ty /\ {e.from, e.to} \subseteq Visited(walk)}
    <3>1. Connected(es, o, ty, walk, s)
      BY <2>1, StepsConnected
    <3> QED
      BY <3>1 DEF Connected
  <2> HIDE DEF S
  <2>3. c \in 0..Len(s)
    BY <2>2
  <2>4. /\ Len(x.steps) = c
        /\ \A i \in 1..c : x.steps[i] = s[i] /\ i \in 1..Len(s)
    BY <1>0, <2>2, <2>3
  <2>5. \A i \in 1..c : 1..(i - 1) \subseteq 1..c
    BY <2>3
  <2> HIDE DEF c
  <2>6. \A i \in 1..Len(x.steps) :
          \/ x.steps[i].edge.from = o
          \/ \E j \in 1..(i - 1) : x.steps[j].edge.to = x.steps[i].edge.from
    BY <2>2, <2>4, <2>5
  <2>7. ASSUME ~x.truncated
        PROVE  {x.steps[i].edge : i \in 1..Len(x.steps)} =
               {s[i].edge : i \in 1..Len(s)}
    <3>1. c = Len(s)
      BY <1>0, <2>7 DEF c
    <3> QED
      BY <2>4, <3>1
  <2> QED
    BY <2>1, <2>2, <2>6, <2>7 DEF ExplainsAll
<1> QED
  BY <1>1, <1>2

\* An explanation is a connected argument from its subject on every graph the
\* store can reach, wherever the step bound cuts it, and it is complete unless
\* it is marked truncated.
THEOREM ExplanationAlwaysConnected == Spec => []ExplanationIsConnected
<1>1. TypeOK /\ GraphInv => ExplanationIsConnected
  <2> SUFFICES ASSUME TypeOK, GraphInv,
                      NEW subject \in indexed, NEW mode \in DOMAIN ModeTypes,
                      NEW max_nodes \in {0, 2}
               PROVE
        LET x == explain(edges, subject, mode, 0, max_nodes)
            d == IF mode = "ImmediateCause" THEN 1 ELSE Limits.depth
            near == WithinEdges(edges, subject, "Outgoing", ModeTypes[mode],
                                d)
        IN /\ \A i \in 1..Len(x.steps) :
                 \/ x.steps[i].edge.from = subject
                 \/ \E j \in 1..(i - 1) :
                       x.steps[j].edge.to = x.steps[i].edge.from
           /\ ~x.truncated =>
                 {x.steps[i].edge : i \in 1..Len(x.steps)} =
                 {e \in edges : /\ e.type \in ModeTypes[mode]
                                /\ {e.from, e.to} \subseteq near}
    BY DEF ExplanationIsConnected
  <2> DEFINE ty == ModeTypes[mode]
             b == ExplainBounds(mode, 0, max_nodes)
             d == IF mode = "ImmediateCause" THEN 1 ELSE Limits.depth
             r == Narrowed(b.results, Limits.results)
             walk == Walk(edges, subject, "Outgoing", ty, b)
             s == InDepthOrder(ExplainSteps(edges, walk, ty))
             n == IF max_nodes = 0 THEN MaxExplanation ELSE max_nodes
             x == explain(edges, subject, mode, 0, max_nodes)
  <2>1. edges \in SUBSET Edges /\ subject \in NodeId /\ IsFiniteSet(edges)
    BY DEF TypeOK, GraphInv, SoundGraph
  <2>2. b.depth \in Nat /\ b.results \in Nat /\ b.visited = 0
    BY DEF ExplainBounds
  <2>3. Limits.depth \in Nat \ {0}
    BY LimitsAreValid
  <2>4. d = Narrowed(b.depth, Limits.depth) /\ d \in Nat
    BY <2>3 DEF ExplainBounds, Narrowed
  <2>5. n \in Nat
    BY QueryLimitsAreValid
  <2>6. x = [steps     |-> SubSeq(s, 1, IF Len(s) > n THEN n ELSE Len(s)),
             truncated |-> walk = <<>> \/ Len(s) > n]
    BY DEF explain, ExplainWalk
  <2> HIDE DEF ty, b, d, n, x
  <2>7. ExactWalk(edges, subject, "Outgoing", ty, d, r, walk)
    BY <2>1, <2>2, <2>4, WalkIsExact
  <2> HIDE DEF r, walk
  <2>8. s = InDepthOrder(ExplainSteps(edges, walk, ty))
    OBVIOUS
  <2> HIDE DEF s
  <2>9. ExplainsAll(edges, subject, ty, d, x)
    BY <2>1, <2>4, <2>5, <2>6, <2>7, <2>8, CutExplains
  <2> QED
    BY <2>9, Zenon DEF ExplainsAll, x, ty, d
<1> QED
  BY <1>1, TypeCorrect, GraphInvariance, PTL

-----------------------------------------------------------------------------
(* What a step leaves for a diff to see *)

\* A record that changed appeared, or changed its lifecycle or currentness.
StateTells ==
    \A m \in NodeId : nodes'[m] # nodes[m] =>
        /\ m \in Present(nodes')
        /\ \/ m \notin Present(nodes)
           \/ nodes'[m].life # nodes[m].life
           \/ nodes'[m].cur # nodes[m].cur

\* A successful commit advances the lineage generation.
LEMMA FinishCounts ==
    ASSUME TypeOK, NEW auth, NEW ns, NEW es, NEW ln \in Lineages, NEW A,
           ln.lgen = lin.lgen, Finish(auth, ns, es, ln, A)
    PROVE  lin'.lgen # lin.lgen
<1>1. lin.lgen \in Nat
  BY DEF TypeOK, Lineages
<1>2. lin' = [ln EXCEPT !.lgen = @ + 1, !.hist = HistoryCount(ns)]
  BY DEF Finish
<1>3. lin'.lgen = ln.lgen + 1
  BY <1>2 DEF Lineages
<1> QED
  BY <1>1, <1>3

\* A record that is left by a commit that failed is new.
LEMMA PartialTells ==
    ASSUME TypeOK, NEW n \in NodeId, NEW r, r.kind # "Absent", NEW es,
           PartialCommit(n, r, es)
    PROVE  StateTells
<1>1. nodes' = add_node(n, r)
  BY DEF PartialCommit
<1>2. CASE n \in Present(nodes)
  BY <1>1, <1>2 DEF add_node, StateTells
<1>3. CASE n \notin Present(nodes)
  <2>1. nodes' = [nodes EXCEPT ![n] = r] /\ nodes \in [NodeId -> Records]
    BY <1>1, <1>3 DEF add_node, TypeOK
  <2>2. \A m \in NodeId : nodes'[m] = IF m = n THEN r ELSE nodes[m]
    BY <2>1
  <2> QED
    BY <1>3, <2>2 DEF Present, StateTells
<1> QED
  BY <1>2, <1>3

\* Every publication advances the lineage generation, or stops after it left a
\* new record.
LEMMA PublicationTells ==
    ASSUME TypeOK, Publication
    PROVE  lin'.lgen # lin.lgen \/ StateTells
<1> SUFFICES ASSUME NEW auth \in Callers, NEW n \in NodeId,
                    \/ RoutePublication(auth, n)
                    \/ Declaration(auth, n)
                    \/ Correction(auth, n)
                    \/ Administration(auth, n)
             PROVE  lin'.lgen # lin.lgen \/ StateTells
  BY DEF Publication
<1>0. lin \in Lineages
  BY DEF TypeOK
<1>1. CASE RoutePublication(auth, n)
  <2>1. PICK gen \in 1..MaxGen, bind \in BindingSet, root \in BOOLEAN,
             specs \in SpecLists : PublishRoute(auth, n, gen, bind, root, specs)
    BY <1>1 DEF RoutePublication
  <2> DEFINE r == NewRecord("RouteGeneration", gen, auth, bind, root, None,
                            "Current")
             ln == AdvanceLineage(n, gen)
  <2>2. r.kind # "Absent"
    BY DEF NewRecord
  <2>3. ln \in Lineages /\ ln.lgen = lin.lgen
    <3>1. gen \in 0..MaxGen
      BY StoreAssumption
    <3>2. ln = [lin EXCEPT !.gen = gen, !.cur = n,
                  !.life = IF lin.life = "Withdrawn" THEN "Active"
                           ELSE lin.life]
      BY <1>0 DEF AdvanceLineage, Lineages
    <3> HIDE DEF ln
    <3> QED
      BY <1>0, <3>1, <3>2 DEF Lineages, LineageLifecycles
  <2> HIDE DEF r, ln
  <2>4. \/ \E es : PartialCommit(n, r, es)
        \/ \E ns, es, A : Finish(auth, ns, es, ln, A)
    BY <2>1 DEF PublishRoute, r, ln
  <2> QED
    BY <2>2, <2>3, <2>4, PartialTells, FinishCounts
<1>2. CASE Declaration(auth, n)
  <2>1. \E ns, es, A : Finish(auth, ns, es, lin, A)
    BY <1>2 DEF Declaration, Declare
  <2> QED
    BY <1>0, <2>1, FinishCounts
<1>3. CASE Correction(auth, n)
  <2>1. PICK target \in Present(nodes), bind \in BindingSet :
             Correct(auth, n, target, bind)
    BY <1>3 DEF Correction
  <2> DEFINE r == Replacement(auth, target, bind)
             ln == [lin EXCEPT !.cur = IF @ = target THEN n ELSE @]
  <2>2. r.kind # "Absent"
    BY DEF Replacement, NewRecord, Present
  <2>3. ln \in Lineages /\ ln.lgen = lin.lgen
    BY <1>0 DEF Lineages
  <2> HIDE DEF r, ln
  <2>4. \/ \E es : PartialCommit(n, r, es)
        \/ \E ns, es, A : Finish(auth, ns, es, ln, A)
    BY <2>1 DEF Correct, r, ln
  <2> QED
    BY <2>2, <2>3, <2>4, PartialTells, FinishCounts
<1>4. CASE Administration(auth, n)
  <2>1. ASSUME NEW target, NEW bind, NEW type, NEW ns, NEW ln \in Lineages,
               ln.lgen = lin.lgen,
               Administer(auth, n, target, bind, type, ns, ln)
        PROVE  lin'.lgen # lin.lgen \/ StateTells
    <3> DEFINE r == ActionRecord(auth, target, bind)
    <3>1. r.kind # "Absent"
      BY DEF ActionRecord, NewRecord
    <3> HIDE DEF r
    <3>2. \/ \E es : PartialCommit(n, r, es)
          \/ \E es, A : Finish(auth, ns, es, ln, A)
      BY <2>1 DEF Administer, r
    <3> QED
      BY <2>1, <3>1, <3>2, PartialTells, FinishCounts
  <2>2. \A l \in {"Withdrawn", "Revoked", "Retired"} :
           /\ [lin EXCEPT !.life = l] \in Lineages
           /\ [lin EXCEPT !.life = l].lgen = lin.lgen
    BY <1>0 DEF Lineages, LineageLifecycles
  <2>3. PICK target \in Present(nodes), bind \in BindingSet :
          \/ Withdraw(auth, n, target, bind)
          \/ Revoke(auth, n, target, bind)
          \/ Retire(auth, n, target, bind)
          \/ Revalidate(auth, n, target, bind)
          \/ Invalidate(auth, n, target, bind)
    BY <1>4 DEF Administration
  <2>4. CASE Withdraw(auth, n, target, bind)
    BY <2>1, <2>2, <2>4 DEF Withdraw
  <2>5. CASE Revoke(auth, n, target, bind)
    BY <2>1, <2>2, <2>5 DEF Revoke
  <2>6. CASE Retire(auth, n, target, bind)
    BY <2>1, <2>2, <2>6 DEF Retire
  <2>7. CASE Revalidate(auth, n, target, bind)
    BY <1>0, <2>1, <2>7 DEF Revalidate
  <2>8. CASE Invalidate(auth, n, target, bind)
    BY <1>0, <2>1, <2>8 DEF Invalidate
  <2> QED
    BY <2>3, <2>4, <2>5, <2>6, <2>7, <2>8
<1> QED
  BY <1>1, <1>2, <1>3, <1>4

\* A link or a compaction advances it too.
LEMMA MaintenanceTells ==
    ASSUME TypeOK, Maintenance
    PROVE  lin'.lgen # lin.lgen
<1>0. lin \in Lineages /\ lin.lgen \in Nat
  BY DEF TypeOK, Lineages
<1>1. ASSUME NEW auth, Link(auth)
      PROVE  lin'.lgen # lin.lgen
  <2>1. \E ns, es, A : Finish(auth, ns, es, lin, A)
    BY <1>1 DEF Link, LinkDerivation
  <2> QED
    BY <1>0, <2>1, FinishCounts
<1>2. ASSUME NEW auth, Compaction(auth)
      PROVE  lin'.lgen # lin.lgen
  <2>1. \E c : lin' = [lin EXCEPT !.lgen = @ + 1, !.hist = c]
    BY <1>2 DEF Compaction, Compact
  <2>2. lin'.lgen = lin.lgen + 1
    BY <1>0, <2>1 DEF Lineages
  <2> QED
    BY <1>0, <2>2
<1> QED
  BY <1>1, <1>2 DEF Maintenance

\* A recomputation shows in the currentness.
LEMMA RecomputationTells ==
    ASSUME TypeOK, NEW S, NEW ln, NEW mk, NEW ps,
           nodes' = reevaluate(nodes, S, ln, mk, ps)
    PROVE  StateTells
<1> SUFFICES ASSUME NEW m \in NodeId, nodes'[m] # nodes[m]
             PROVE  m \in Present(nodes') /\ nodes'[m].cur # nodes[m].cur
  BY DEF StateTells
<1>1. nodes[m] \in Records
  BY DEF TypeOK
<1> DEFINE c == compute_currentness(ln, nodes[m], mk,
                                    publisher_state(ps, nodes[m].auth))
<1>2. nodes'[m] = IF m \in S /\ nodes[m].kind # "Absent"
                  THEN [nodes[m] EXCEPT !.cur = c] ELSE nodes[m]
  BY DEF reevaluate
<1> HIDE DEF c
<1>3. nodes'[m] = [nodes[m] EXCEPT !.cur = c] /\ nodes[m].kind # "Absent"
  BY <1>2
<1>4. nodes'[m].kind = nodes[m].kind /\ nodes'[m].cur = c
  BY <1>1, <1>3 DEF Records
<1>5. c # nodes[m].cur
  BY <1>1, <1>3 DEF Records
<1> QED
  BY <1>3, <1>4, <1>5 DEF Present

\* So does a reload, in the lifecycle of what it demotes.
LEMMA RestartTells ==
    ASSUME TypeOK, StateInv, Restart
    PROVE  StateTells
<1> DEFINE ns == [n \in NodeId |-> Demote(nodes[n])]
           ps == [k \in Publishers \X Boots |-> "Unknown"]
           l  == [lin EXCEPT !.hist = HistoryCount(ns)]
<1>1. nodes' = reevaluate(ns, NodeId, l, marks, ps)
  BY DEF Restart
<1> SUFFICES ASSUME NEW m \in NodeId, nodes'[m] # nodes[m]
             PROVE  /\ m \in Present(nodes')
                    /\ \/ nodes'[m].life # nodes[m].life
                       \/ nodes'[m].cur # nodes[m].cur
  BY DEF StateTells
<1>2. nodes[m] \in Records /\ Coherent(nodes[m])
  BY DEF TypeOK, StateInv, Coherence
<1> DEFINE d == Demote(nodes[m])
           c == compute_currentness(l, d, marks, publisher_state(ps, d.auth))
<1>3. nodes'[m] = IF d.kind # "Absent" THEN [d EXCEPT !.cur = c] ELSE d
  BY <1>1 DEF reevaluate
<1> HIDE DEF c, l, ps, ns
<1>4. CASE nodes[m].life = "Current" /\ nodes[m].cur = "Current"
  <2>1. nodes[m].kind # "Absent"
    BY <1>2, <1>4 DEF Coherent, NoRecord
  <2>2. d = [nodes[m] EXCEPT !.life = "RevalidationRequired",
                   !.cur = "RevalidationRequired", !.rr = TRUE]
    BY <1>4 DEF Demote
  <2> HIDE DEF d
  <2>3. /\ d.kind = nodes[m].kind /\ d.life = "RevalidationRequired"
        /\ DOMAIN d = DOMAIN nodes[m]
    BY <1>2, <2>2 DEF Records
  <2>4. nodes'[m] = [d EXCEPT !.cur = c]
    BY <1>3, <2>1, <2>3
  <2>5. nodes'[m].kind = d.kind /\ nodes'[m].life = d.life
    BY <1>2, <2>2, <2>4 DEF Records
  <2> QED
    BY <1>4, <2>1, <2>3, <2>5 DEF Present
<1>5. CASE ~(nodes[m].life = "Current" /\ nodes[m].cur = "Current")
  <2>1. d = nodes[m]
    BY <1>5 DEF Demote
  <2> HIDE DEF d
  <2>2. nodes'[m] = [nodes[m] EXCEPT !.cur = c] /\ nodes[m].kind # "Absent"
    BY <1>3, <2>1
  <2>3. nodes'[m].kind = nodes[m].kind /\ nodes'[m].cur = c
    BY <1>2, <2>2 DEF Records
  <2>4. c # nodes[m].cur
    BY <1>2, <2>2 DEF Records
  <2> QED
    BY <2>2, <2>3, <2>4 DEF Present
<1> QED
  BY <1>4, <1>5

\* Nothing a step does to a record escapes a diff with history.
LEMMA StepTells ==
    ASSUME TypeOK, StateInv, [Next]_vars
    PROVE  lin'.lgen # lin.lgen \/ StateTells
<1>1. CASE Publication
  BY <1>1, PublicationTells
<1>2. CASE Maintenance
  BY <1>2, MaintenanceTells
<1>3. ASSUME nodes' = nodes
      PROVE  StateTells
  BY <1>3 DEF StateTells
<1>4. CASE Registration
  <2>1. ASSUME NEW p, NEW b, NEW epoch, register_publisher(p, b, epoch)
        PROVE  StateTells
    BY <2>1, RecomputationTells DEF register_publisher
  <2>2. ASSUME NEW epoch, register_refused(epoch)
        PROVE  StateTells
    BY <1>3, <2>2 DEF register_refused, graphVars
  <2> QED
    BY <1>4, <2>1, <2>2 DEF Registration
<1>5. CASE Notification
  <2>1. ASSUME NEW mk, NEW S, Announce(mk, S)
        PROVE  StateTells
    BY <2>1, RecomputationTells DEF Announce
  <2>2. ASSUME NEW p, NEW b, fence_publisher(p, b)
        PROVE  StateTells
    BY <2>2, RecomputationTells DEF fence_publisher
  <2>3. ASSUME NEW p, NEW b, NotifyWorkerFence(p, b)
        PROVE  StateTells
    BY <1>3, <2>3, RecomputationTells DEF NotifyWorkerFence
  <2> QED
    BY <1>5, <2>1, <2>2, <2>3
       DEF Notification, NotifyPathAuthority, NotifyPolicy, NotifyEvidence,
           NotifyPlan, advance_epoch
<1>6. CASE Restart
  BY <1>6, RestartTells
<1>7. CASE Elsewhere
  BY <1>3, <1>7, ElsewhereKeeps
<1>8. CASE UNCHANGED vars
  BY <1>3, <1>8 DEF vars
<1> QED
  BY <1>1, <1>2, <1>4, <1>5, <1>6, <1>7, <1>8 DEF Next

\* No edge and no record disappears in a step.
LEMMA NothingDisappears ==
    ASSUME TypeOK, [Next]_vars
    PROVE  edges \subseteq edges' /\ Present(nodes) \subseteq Present(nodes')
<1>1. CASE Quiet
  <2>1. \A m \in NodeId : nodes'[m].kind = nodes[m].kind
    BY <1>1 DEF Quiet, SameCores, Core
  <2> QED
    BY <1>1, <2>1 DEF Quiet, Present
<1>2. CASE Pruning
  <2>1. \A m \in Present(nodes) : nodes'[m].kind # "Absent"
    BY <1>2 DEF Pruning, Core, Present
  <2> QED
    BY <1>2, <2>1 DEF Pruning, Present
<1>3. CASE Growth
  <2>1. \A m \in Present(nodes) : nodes'[m].kind = nodes[m].kind
    BY <1>3 DEF Growth, Core
  <2> QED
    BY <1>3, <2>1 DEF Growth, Present
<1> QED
  BY <1>1, <1>2, <1>3, StepShape

-----------------------------------------------------------------------------
(* Diffs *)

\* The entries about a set of records.
LEMMA EntriesAre ==
    ASSUME NEW kind, NEW S, NEW state
    PROVE  /\ \A x \in NodeEntries(kind, S, state) :
                 x.kind = kind /\ x.node \in S /\ x.state = state[x.node]
           /\ \A n \in S : \E x \in NodeEntries(kind, S, state) : x.node = n
<1>1. \A x \in NodeEntries(kind, S, state) :
         x.kind = kind /\ x.node \in S /\ x.state = state[x.node]
  BY DEF NodeEntries
<1>2. ASSUME NEW n \in S
      PROVE  \E x \in NodeEntries(kind, S, state) : x.node = n
  <2> DEFINE x == [kind |-> kind, node |-> n, state |-> state[n]]
  <2>1. x \in NodeEntries(kind, S, state) /\ x.node = n
    BY DEF NodeEntries
  <2> QED
    BY <2>1
<1> QED
  BY <1>1, <1>2

\* The parts of a diff: E are its entries about edges and generations.
Parts(b, a, diff, E) ==
    LET both == DOMAIN b.nodes \cap DOMAIN a.nodes
    IN /\ diff = NodeEntries("NodeAdded", DOMAIN a.nodes \ DOMAIN b.nodes,
                             a.nodes)
                 \cup NodeEntries("NodeRemoved",
                                  DOMAIN b.nodes \ DOMAIN a.nodes, b.nodes)
                 \cup NodeEntries("CurrentnessChanged",
                         {n \in both : b.nodes[n].cur # a.nodes[n].cur},
                         [n \in both |-> a.nodes[n].cur])
                 \cup NodeEntries("LifecycleChanged",
                         {n \in both : b.nodes[n].life # a.nodes[n].life},
                         [n \in both |-> a.nodes[n].life])
                 \cup E
       /\ \A x \in E : x.kind \notin {"NodeAdded", "NodeRemoved",
                                      "CurrentnessChanged", "LifecycleChanged"}
       /\ b.edges \subseteq a.edges => \A x \in E : x.kind # "EdgeRemoved"
       /\ E = {} => a.lgen = b.lgen

\* Every diff has these parts.
LEMMA DiffParts ==
    ASSUME NEW b, NEW a
    PROVE  \E E : Parts(b, a, compute_diff(b, a), E)
<1> DEFINE added == a.edges \ b.edges
           recorded == {e \in added : e.type \in DOMAIN RecordedKinds}
           EA == EdgeEntries("EdgeAdded", added)
           ER == EdgeEntries("EdgeRemoved", b.edges \ a.edges)
           ES == UNION {EdgeEntries(RecordedKinds[e.type], {e}) :
                           e \in recorded}
           G == IF a.lgen = b.lgen THEN {}
                ELSE {[kind |-> "LineageGenerationChanged"]}
           E == EA \cup ER \cup ES \cup G
           Kinds == {"SupersessionRecorded", "RevocationRecorded",
                     "RetirementRecorded", "CorrectionRecorded"}
<1>1. \A x \in EA : x.kind = "EdgeAdded"
  BY DEF EdgeEntries
<1>2. /\ \A x \in ER : x.kind = "EdgeRemoved"
      /\ b.edges \subseteq a.edges => ER = {}
  BY DEF EdgeEntries
<1>3. \A t \in DOMAIN RecordedKinds : RecordedKinds[t] \in Kinds
  BY DEF RecordedKinds
<1>4. \A x \in ES : x.kind \in Kinds
  <2> SUFFICES ASSUME NEW e \in recorded,
                      NEW x \in EdgeEntries(RecordedKinds[e.type], {e})
               PROVE  x.kind \in Kinds
    OBVIOUS
  <2>1. x.kind = RecordedKinds[e.type]
    BY DEF EdgeEntries
  <2>2. e.type \in DOMAIN RecordedKinds
    OBVIOUS
  <2> HIDE DEF Kinds
  <2> QED
    BY <1>3, <2>1, <2>2
<1>5. /\ \A x \in G : x.kind = "LineageGenerationChanged"
      /\ G = {} => a.lgen = b.lgen
  <2>1. CASE a.lgen = b.lgen
    BY <2>1
  <2>2. CASE a.lgen # b.lgen
    <3> DEFINE r == [kind |-> "LineageGenerationChanged"]
    <3>1. G = {r}
      BY <2>2
    <3>2. r.kind = "LineageGenerationChanged"
      OBVIOUS
    <3> HIDE DEF G, r
    <3> QED
      BY <3>1, <3>2
  <2> QED
    BY <2>1, <2>2
<1>a. compute_diff(b, a) =
         NodeEntries("NodeAdded", DOMAIN a.nodes \ DOMAIN b.nodes, a.nodes)
         \cup NodeEntries("NodeRemoved", DOMAIN b.nodes \ DOMAIN a.nodes,
                          b.nodes)
         \cup EA \cup ER \cup ES \cup Changes(b.nodes, a.nodes) \cup G
  BY DEF compute_diff
<1> HIDE DEF EA, ER, ES, G
<1>6. /\ \A x \in E : x.kind \notin {"NodeAdded", "NodeRemoved",
                                     "CurrentnessChanged", "LifecycleChanged"}
      /\ b.edges \subseteq a.edges => \A x \in E : x.kind # "EdgeRemoved"
      /\ E = {} => a.lgen = b.lgen
  BY <1>1, <1>2, <1>4, <1>5
<1> DEFINE both == DOMAIN b.nodes \cap DOMAIN a.nodes
<1>8. Changes(b.nodes, a.nodes) =
         NodeEntries("CurrentnessChanged",
                     {n \in both : b.nodes[n].cur # a.nodes[n].cur},
                     [n \in both |-> a.nodes[n].cur])
         \cup NodeEntries("LifecycleChanged",
                          {n \in both : b.nodes[n].life # a.nodes[n].life},
                          [n \in both |-> a.nodes[n].life])
  BY DEF Changes
<1>9. Parts(b, a, compute_diff(b, a), E)
  BY <1>6, <1>a, <1>8 DEF Parts
<1> HIDE DEF E
<1> QED
  BY <1>9

\* What Patched finds in a diff about record n.
Told(diff, kind, n, old) ==
    LET entries == {x \in diff : x.kind \in {"NodeAdded",
                        "CurrentnessChanged", "LifecycleChanged"}}
    IN IF \E x \in entries : x.kind = kind /\ x.node = n
       THEN (CHOOSE x \in entries : x.kind = kind /\ x.node = n).state
       ELSE old

\* The entries of a kind about n say v, or there is none and v is not new.
Says(diff, kind, n, old, v) ==
    /\ kind \in {"NodeAdded", "CurrentnessChanged", "LifecycleChanged"}
    /\ \A x \in diff : x.kind = kind /\ x.node = n => x.state = v
    /\ (\A x \in diff : ~(x.kind = kind /\ x.node = n)) => old = v

\* Then that is what Patched finds.
LEMMA ToldState ==
    ASSUME NEW diff, NEW kind, NEW n, NEW old, NEW v,
           Says(diff, kind, n, old, v)
    PROVE  Told(diff, kind, n, old) = v
<1> DEFINE entries == {x \in diff : x.kind \in {"NodeAdded",
                           "CurrentnessChanged", "LifecycleChanged"}}
<1>1. CASE \E x \in entries : x.kind = kind /\ x.node = n
  <2> DEFINE y == CHOOSE x \in entries : x.kind = kind /\ x.node = n
  <2>1. y \in entries /\ y.kind = kind /\ y.node = n
    BY <1>1
  <2>2. Told(diff, kind, n, old) = y.state
    BY <1>1 DEF Told
  <2>3. y \in diff
    BY <2>1
  <2> HIDE DEF y
  <2> QED
    BY <2>1, <2>2, <2>3 DEF Says
<1>2. CASE ~\E x \in entries : x.kind = kind /\ x.node = n
  <2>1. Told(diff, kind, n, old) = old
    BY <1>2 DEF Told
  <2>2. \A x \in diff : ~(x.kind = kind /\ x.node = n)
    BY <1>2 DEF Says
  <2> QED
    BY <2>1, <2>2 DEF Says
<1> QED
  BY <1>1, <1>2

States == [life : NodeLifecycles, cur : CurrentnessValues]

\* What the four kinds of entries about records say; A and B are the records
\* of the two snapshots.
Tells(b, a, B, A, diff) ==
    /\ \A x \in diff : x.kind = "NodeAdded" =>
          x.node \in A \ B /\ x.state = a.nodes[x.node]
    /\ \A n \in A \ B :
          \E x \in diff : x.kind = "NodeAdded" /\ x.node = n
    /\ \A x \in diff : x.kind = "NodeRemoved" => x.node \in B \ A
    /\ \A n \in B \ A :
          \E x \in diff : x.kind = "NodeRemoved" /\ x.node = n
    /\ \A x \in diff : x.kind = "CurrentnessChanged" =>
          /\ x.node \in A \cap B
          /\ x.state = a.nodes[x.node].cur
    /\ \A n \in A \cap B : b.nodes[n].cur # a.nodes[n].cur =>
          \E x \in diff : x.kind = "CurrentnessChanged" /\ x.node = n
    /\ \A x \in diff : x.kind = "LifecycleChanged" =>
          /\ x.node \in A \cap B
          /\ x.state = a.nodes[x.node].life
    /\ \A n \in A \cap B : b.nodes[n].life # a.nodes[n].life =>
          \E x \in diff : x.kind = "LifecycleChanged" /\ x.node = n

\* Every diff says that.
LEMMA EntriesTell ==
    ASSUME NEW b, NEW a, NEW diff, NEW E, Parts(b, a, diff, E),
           NEW B, B = DOMAIN b.nodes, NEW A, A = DOMAIN a.nodes
    PROVE  Tells(b, a, B, A, diff)
<1> DEFINE both == B \cap A
           cs == [n \in both |-> a.nodes[n].cur]
           ls == [n \in both |-> a.nodes[n].life]
           C == {n \in both : b.nodes[n].cur # a.nodes[n].cur}
           L == {n \in both : b.nodes[n].life # a.nodes[n].life}
           NA == NodeEntries("NodeAdded", A \ B, a.nodes)
           NR == NodeEntries("NodeRemoved", B \ A, b.nodes)
           NC == NodeEntries("CurrentnessChanged", C, cs)
           NL == NodeEntries("LifecycleChanged", L, ls)
<1>1. /\ diff = NA \cup NR \cup NC \cup NL \cup E
      /\ \A x \in E : x.kind \notin {"NodeAdded", "NodeRemoved",
                                     "CurrentnessChanged", "LifecycleChanged"}
  BY DEF Parts
<1>2. \A n \in both : cs[n] = a.nodes[n].cur /\ ls[n] = a.nodes[n].life
  OBVIOUS
<1>3. C \subseteq both /\ L \subseteq both
  OBVIOUS
<1> HIDE DEF cs, ls
<1>4. /\ \A x \in NA : x.kind = "NodeAdded" /\ x.node \in A \ B
                       /\ x.state = a.nodes[x.node]
      /\ \A n \in A \ B : \E x \in NA : x.node = n
  <2> DEFINE S == A \ B
             state == a.nodes
  <2> HIDE DEF S, state
  <2>1. /\ \A x \in NodeEntries("NodeAdded", S, state) :
              x.kind = "NodeAdded" /\ x.node \in S /\ x.state = state[x.node]
        /\ \A n \in S : \E x \in NodeEntries("NodeAdded", S, state) : x.node = n
    BY EntriesAre
  <2> QED
    BY <2>1 DEF S, state
<1>5. /\ \A x \in NR : x.kind = "NodeRemoved" /\ x.node \in B \ A
      /\ \A n \in B \ A : \E x \in NR : x.node = n
  <2> DEFINE S == B \ A
             state == b.nodes
  <2> HIDE DEF S, state
  <2>1. /\ \A x \in NodeEntries("NodeRemoved", S, state) :
              x.kind = "NodeRemoved" /\ x.node \in S
        /\ \A n \in S :
              \E x \in NodeEntries("NodeRemoved", S, state) : x.node = n
    BY EntriesAre
  <2> QED
    BY <2>1 DEF S, state
<1>6. /\ \A x \in NC : x.kind = "CurrentnessChanged" /\ x.node \in C
                       /\ x.state = cs[x.node]
      /\ \A n \in C : \E x \in NC : x.node = n
  <2> HIDE DEF C
  <2> QED
    BY EntriesAre
<1>7. /\ \A x \in NL : x.kind = "LifecycleChanged" /\ x.node \in L
                       /\ x.state = ls[x.node]
      /\ \A n \in L : \E x \in NL : x.node = n
  <2> HIDE DEF L
  <2> QED
    BY EntriesAre
<1> HIDE DEF NA, NR, NC, NL
<1>8. /\ \A x \in diff : x.kind = "NodeAdded" => x \in NA
      /\ \A x \in diff : x.kind = "NodeRemoved" => x \in NR
      /\ \A x \in diff : x.kind = "CurrentnessChanged" => x \in NC
      /\ \A x \in diff : x.kind = "LifecycleChanged" => x \in NL
  BY <1>1, <1>4, <1>5, <1>6, <1>7
<1>9. NA \subseteq diff /\ NR \subseteq diff /\ NC \subseteq diff
         /\ NL \subseteq diff
  BY <1>1
<1>10. /\ \A x \in diff : x.kind = "NodeAdded" =>
             x.node \in A \ B /\ x.state = a.nodes[x.node]
       /\ \A n \in A \ B :
             \E x \in diff : x.kind = "NodeAdded" /\ x.node = n
  BY <1>4, <1>8, <1>9
<1>11. /\ \A x \in diff : x.kind = "NodeRemoved" => x.node \in B \ A
       /\ \A n \in B \ A :
             \E x \in diff : x.kind = "NodeRemoved" /\ x.node = n
  BY <1>5, <1>8, <1>9
<1>12. \A n \in A \cap B : /\ n \in C <=> b.nodes[n].cur # a.nodes[n].cur
                           /\ n \in L <=> b.nodes[n].life # a.nodes[n].life
  OBVIOUS
<1> HIDE DEF C, L
<1>13. /\ \A x \in diff : x.kind = "CurrentnessChanged" =>
             x.node \in A \cap B /\ x.state = a.nodes[x.node].cur
       /\ \A n \in A \cap B : b.nodes[n].cur # a.nodes[n].cur =>
             \E x \in diff : x.kind = "CurrentnessChanged" /\ x.node = n
  BY <1>2, <1>3, <1>6, <1>8, <1>9, <1>12
<1>14. /\ \A x \in diff : x.kind = "LifecycleChanged" =>
             x.node \in A \cap B /\ x.state = a.nodes[x.node].life
       /\ \A n \in A \cap B : b.nodes[n].life # a.nodes[n].life =>
             \E x \in diff : x.kind = "LifecycleChanged" /\ x.node = n
  BY <1>2, <1>3, <1>7, <1>8, <1>9, <1>12
<1> QED
  BY <1>10, <1>11, <1>13, <1>14 DEF Tells

\* A snapshot with the diff to another applied is the other's records.
LEMMA PatchedIsAfter ==
    ASSUME NEW b, NEW a, NEW diff, NEW E, Parts(b, a, diff, E),
           NEW A, a.nodes \in [A -> States], NEW B, b.nodes \in [B -> States]
    PROVE  Patched(b, diff) = a.nodes
<1> DEFINE added == {x.node : x \in {y \in diff : y.kind = "NodeAdded"}}
           removed == {x.node : x \in {y \in diff : y.kind = "NodeRemoved"}}
           P(n) == IF n \in added THEN Told(diff, "NodeAdded", n, None)
                   ELSE [life |-> Told(diff, "LifecycleChanged", n,
                                       b.nodes[n].life),
                         cur |-> Told(diff, "CurrentnessChanged", n,
                                      b.nodes[n].cur)]
<1>0. DOMAIN a.nodes = A /\ DOMAIN b.nodes = B
  OBVIOUS
<1>1. Patched(b, diff) = [n \in (DOMAIN b.nodes \cup added) \ removed |-> P(n)]
  BY DEF Patched, Told
<1>2. /\ \A x \in diff : x.kind = "NodeAdded" =>
            x.node \in A \ B /\ x.state = a.nodes[x.node]
      /\ \A n \in A \ B : \E x \in diff : x.kind = "NodeAdded" /\ x.node = n
      /\ \A x \in diff : x.kind = "NodeRemoved" => x.node \in B \ A
      /\ \A n \in B \ A :
            \E x \in diff : x.kind = "NodeRemoved" /\ x.node = n
      /\ \A x \in diff : x.kind = "CurrentnessChanged" =>
            /\ x.node \in A \cap B
            /\ x.state = a.nodes[x.node].cur
      /\ \A n \in A \cap B : b.nodes[n].cur # a.nodes[n].cur =>
            \E x \in diff : x.kind = "CurrentnessChanged" /\ x.node = n
      /\ \A x \in diff : x.kind = "LifecycleChanged" =>
            /\ x.node \in A \cap B
            /\ x.state = a.nodes[x.node].life
      /\ \A n \in A \cap B : b.nodes[n].life # a.nodes[n].life =>
            \E x \in diff : x.kind = "LifecycleChanged" /\ x.node = n
  <2>1. Tells(b, a, B, A, diff)
    BY <1>0, EntriesTell
  <2> QED
    BY <2>1 DEF Tells
<1>3. added = A \ B /\ removed = B \ A
  BY <1>2
<1>4. (DOMAIN b.nodes \cup added) \ removed = A
  BY <1>0, <1>3
<1>5. ASSUME NEW n \in A
      PROVE  P(n) = a.nodes[n]
  <2>1. CASE n \in added
    <3>1. \A x \in diff : x.kind = "NodeAdded" /\ x.node = n =>
             x.state = a.nodes[n]
      BY <1>2
    <3>2. \E x \in diff : x.kind = "NodeAdded" /\ x.node = n
      BY <1>2, <1>3, <2>1
    <3>3. Told(diff, "NodeAdded", n, None) = a.nodes[n]
      <4>1. Says(diff, "NodeAdded", n, None, a.nodes[n])
        BY <3>1, <3>2 DEF Says
      <4> QED
        BY <4>1, ToldState
    <3> QED
      BY <2>1, <3>3
  <2>2. CASE n \notin added
    <3>1. n \in A \cap B
      BY <1>3, <2>2
    <3>2. Told(diff, "CurrentnessChanged", n, b.nodes[n].cur) = a.nodes[n].cur
      <4>1. \A x \in diff : x.kind = "CurrentnessChanged" /\ x.node = n =>
               x.state = a.nodes[n].cur
        BY <1>2
      <4>2. (\A x \in diff : ~(x.kind = "CurrentnessChanged" /\ x.node = n))
               => b.nodes[n].cur = a.nodes[n].cur
        BY <1>2, <3>1
      <4>3. Says(diff, "CurrentnessChanged", n, b.nodes[n].cur, a.nodes[n].cur)
        BY <4>1, <4>2 DEF Says
      <4> QED
        BY <4>3, ToldState
    <3>3. Told(diff, "LifecycleChanged", n, b.nodes[n].life) = a.nodes[n].life
      <4>1. \A x \in diff : x.kind = "LifecycleChanged" /\ x.node = n =>
               x.state = a.nodes[n].life
        BY <1>2
      <4>2. (\A x \in diff : ~(x.kind = "LifecycleChanged" /\ x.node = n))
               => b.nodes[n].life = a.nodes[n].life
        BY <1>2, <3>1
      <4>3. Says(diff, "LifecycleChanged", n, b.nodes[n].life, a.nodes[n].life)
        BY <4>1, <4>2 DEF Says
      <4> QED
        BY <4>3, ToldState
    <3>4. P(n) = [life |-> a.nodes[n].life, cur |-> a.nodes[n].cur]
      BY <2>2, <3>2, <3>3
    <3>5. a.nodes[n] \in States
      OBVIOUS
    <3> HIDE DEF P
    <3> QED
      BY <3>4, <3>5 DEF States
  <2> QED
    BY <2>1, <2>2
<1>6. [n \in A |-> P(n)] = a.nodes
  <2> HIDE DEF P
  <2> QED
    BY <1>5
<1> HIDE DEF P, added, removed
<1> QED
  BY <1>1, <1>4, <1>6

\* Without a removed edge no entry reports one; without entries the lineage
\* generation is the same.
LEMMA DiffKinds ==
    ASSUME NEW b, NEW a, NEW diff, NEW E, Parts(b, a, diff, E)
    PROVE  /\ b.edges \subseteq a.edges =>
                 \A x \in diff : x.kind # "EdgeRemoved"
           /\ diff = {} => a.lgen = b.lgen
<1>1. \A kind, S, state : \A x \in NodeEntries(kind, S, state) : x.kind = kind
  BY DEF NodeEntries
<1> DEFINE both == DOMAIN b.nodes \cap DOMAIN a.nodes
           NA == NodeEntries("NodeAdded", DOMAIN a.nodes \ DOMAIN b.nodes,
                             a.nodes)
           NR == NodeEntries("NodeRemoved", DOMAIN b.nodes \ DOMAIN a.nodes,
                             b.nodes)
           NC == NodeEntries("CurrentnessChanged",
                             {n \in both : b.nodes[n].cur # a.nodes[n].cur},
                             [n \in both |-> a.nodes[n].cur])
           NL == NodeEntries("LifecycleChanged",
                             {n \in both : b.nodes[n].life # a.nodes[n].life},
                             [n \in both |-> a.nodes[n].life])
<1>2. /\ diff = NA \cup NR \cup NC \cup NL \cup E
      /\ b.edges \subseteq a.edges => \A x \in E : x.kind # "EdgeRemoved"
      /\ E = {} => a.lgen = b.lgen
  BY DEF Parts
<1>3. /\ \A x \in NA : x.kind = "NodeAdded"
      /\ \A x \in NR : x.kind = "NodeRemoved"
      /\ \A x \in NC : x.kind = "CurrentnessChanged"
      /\ \A x \in NL : x.kind = "LifecycleChanged"
  <2> DEFINE C == {n \in both : b.nodes[n].cur # a.nodes[n].cur}
             L == {n \in both : b.nodes[n].life # a.nodes[n].life}
             cur == [n \in both |-> a.nodes[n].cur]
             life == [n \in both |-> a.nodes[n].life]
  <2>1. /\ NC = NodeEntries("CurrentnessChanged", C, cur)
        /\ NL = NodeEntries("LifecycleChanged", L, life)
    OBVIOUS
  <2> HIDE DEF both, C, L, cur, life
  <2>2. \A x \in NA : x.kind = "NodeAdded"
    BY <1>1
  <2>3. \A x \in NR : x.kind = "NodeRemoved"
    BY <1>1
  <2> HIDE DEF NA, NR, NC, NL
  <2>4. \A x \in NC : x.kind = "CurrentnessChanged"
    BY <1>1, <2>1
  <2>5. \A x \in NL : x.kind = "LifecycleChanged"
    BY <1>1, <2>1
  <2> QED
    BY <2>2, <2>3, <2>4, <2>5
<1> HIDE DEF NA, NR, NC, NL
<1>4. \A x \in NA \cup NR \cup NC \cup NL : x.kind # "EdgeRemoved"
  BY <1>3
<1>5. diff = {} => E = {}
  BY <1>2
<1>6. \A x \in diff : x \in NA \cup NR \cup NC \cup NL \/ x \in E
  BY <1>2
<1> QED
  BY <1>2, <1>4, <1>5, <1>6

\* The records of a snapshot.
Shown(ns, h) == {n \in Present(ns) : h \/ ns[n].cur = "Current"}

\* A snapshot shows the states, the edges and the lineage generation.
LEMMA SnapshotShows ==
    ASSUME NEW ns \in [NodeId -> Records], NEW es, NEW ln, NEW h \in BOOLEAN,
           NEW s, s = snapshot(ns, es, ln, h)
    PROVE  /\ s.edges = es /\ s.lgen = ln.lgen
           /\ s.nodes \in [Shown(ns, h) -> States]
           /\ \A n \in Shown(ns, h) : /\ s.nodes[n].life = ns[n].life
                                      /\ s.nodes[n].cur = ns[n].cur
<1> DEFINE S == Shown(ns, h)
           State(n) == [life |-> ns[n].life, cur |-> ns[n].cur]
<1>1. s.edges = es /\ s.lgen = ln.lgen /\ s.nodes = [n \in S |-> State(n)]
  BY DEF snapshot, Shown
<1>2. S \subseteq NodeId
  BY DEF Shown, Present
<1>3. \A n \in S : State(n) \in States
  BY <1>2 DEF States, Records
<1>4. \A n \in S : State(n).life = ns[n].life /\ State(n).cur = ns[n].cur
  OBVIOUS
<1> HIDE DEF S, State
<1>5. s.nodes \in [S -> States]
  BY <1>1, <1>3
<1>6. \A n \in S : s.nodes[n] = State(n)
  BY <1>1
<1>7. \A n \in S : s.nodes[n].life = ns[n].life /\ s.nodes[n].cur = ns[n].cur
  BY <1>4, <1>6
<1> QED
  BY <1>1, <1>5, <1>7 DEF S

\* A diff tells the whole step, whatever operation the step was and for every
\* value of the constants: nothing is reported as removed that a lineage may
\* not lose, the old snapshot with the diff applied is the new one, and no
\* change of a record escapes it.
THEOREM DiffAlwaysTells == Spec => DiffTellsTheStep
<1>1. ASSUME TypeOK, TypeOK', StateInv, [Next]_vars
      PROVE  \A historical \in BOOLEAN :
                LET b == snapshot(nodes, edges, lin, historical)
                    a == snapshot(nodes', edges', lin', historical)
                    diff == compute_diff(b, a)
                IN /\ Patched(b, diff) = a.nodes
                   /\ \A x \in diff : x.kind # "EdgeRemoved"
                   /\ historical => /\ \A x \in diff : x.kind # "NodeRemoved"
                                    /\ diff = {} => nodes' = nodes
  <2> TAKE h \in BOOLEAN
  <2> DEFINE b == snapshot(nodes, edges, lin, h)
             a == snapshot(nodes', edges', lin', h)
             diff == compute_diff(b, a)
             B == Shown(nodes, h)
             A == Shown(nodes', h)
  <2>1. nodes \in [NodeId -> Records] /\ nodes' \in [NodeId -> Records]
    BY <1>1 DEF TypeOK
  <2>2. /\ b.edges = edges /\ b.lgen = lin.lgen
        /\ b.nodes \in [B -> States]
        /\ \A n \in B : /\ b.nodes[n].life = nodes[n].life
                        /\ b.nodes[n].cur = nodes[n].cur
    BY <1>1, <2>1, SnapshotShows
  <2>3. /\ a.edges = edges' /\ a.lgen = lin'.lgen
        /\ a.nodes \in [A -> States]
        /\ \A n \in A : /\ a.nodes[n].life = nodes'[n].life
                        /\ a.nodes[n].cur = nodes'[n].cur
    BY <1>1, <2>1, SnapshotShows
  <2> HIDE DEF a, b
  <2>4. PICK E : Parts(b, a, diff, E)
    BY DiffParts
  <2> HIDE DEF diff, A, B
  <2>5. Patched(b, diff) = a.nodes
    <3>1. a.nodes \in [A -> States] /\ b.nodes \in [B -> States]
      BY <2>2, <2>3
    <3> QED
      BY <2>4, <3>1, PatchedIsAfter, Zenon
  <2>6. edges \subseteq edges' /\ Present(nodes) \subseteq Present(nodes')
    BY <1>1, NothingDisappears
  <2>7. \A x \in diff : x.kind # "EdgeRemoved"
    BY <2>2, <2>3, <2>4, <2>6, DiffKinds
  <2>8. Tells(b, a, B, A, diff)
    <3>1. B = DOMAIN b.nodes /\ A = DOMAIN a.nodes
      BY <2>2, <2>3
    <3> QED
      BY <2>4, <3>1, EntriesTell
  <2>9. ASSUME h
        PROVE  A = Present(nodes') /\ B = Present(nodes)
    BY <2>9 DEF A, B, Shown
  <2>10. ASSUME h
         PROVE  \A x \in diff : x.kind # "NodeRemoved"
    BY <2>6, <2>8, <2>9, <2>10 DEF Tells
  <2>11. ASSUME h, diff = {}
         PROVE  nodes' = nodes
    <3>1. lin'.lgen = lin.lgen
      BY <2>2, <2>3, <2>4, <2>11, DiffKinds
    <3>2. StateTells
      BY <1>1, <3>1, StepTells
    <3>3. /\ A \ B = {}
          /\ \A n \in A \cap B : /\ b.nodes[n].cur = a.nodes[n].cur
                                 /\ b.nodes[n].life = a.nodes[n].life
      BY <2>8, <2>11 DEF Tells
    <3>4. ASSUME NEW m \in NodeId
          PROVE  nodes'[m] = nodes[m]
      <4> SUFFICES ASSUME nodes'[m] # nodes[m]
                   PROVE  FALSE
        OBVIOUS
      <4>1. /\ m \in Present(nodes')
            /\ \/ m \notin Present(nodes)
               \/ nodes'[m].life # nodes[m].life
               \/ nodes'[m].cur # nodes[m].cur
        BY <3>2 DEF StateTells
      <4>2. m \in A \cap B
        BY <2>9, <2>11, <3>3, <4>1
      <4> QED
        BY <2>2, <2>3, <2>9, <2>11, <3>3, <4>1, <4>2
    <3> QED
      BY <2>1, <3>4
  <2> QED
    BY <2>5, <2>7, <2>10, <2>11 DEF diff, a, b
<1> QED
  BY <1>1, TypeCorrect, StateInvariance, PTL DEF Spec, DiffTellsTheStep

=============================================================================
