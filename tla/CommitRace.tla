----------------------------- MODULE CommitRace -----------------------------
(***************************************************************************)
(* Concurrent calls on one lineage, split where the code takes and drops   *)
(* its locks.  A publication reads the watermarks (index_mutex), then the  *)
(* publisher's liveness (publisher_mutex), and only then locks the         *)
(* lineage; inside the lineage lock it reads watermarks and liveness       *)
(* again, and enters the record in the indexes last.  Fences, announcements *)
(* and epoch advances change the shared state first, copy the affected     *)
(* identities out of the indexes, and lock the lineage afterwards.         *)
(*                                                                         *)
(* The route's generation index is shared with other lineages of the route; *)
(* a publication in one of them is a call too.                             *)
(*                                                                         *)
(* Each thread makes one call.  index_mutex and publisher_mutex are only   *)
(* held for one step each, so they need no variable of their own.          *)
(***************************************************************************)
EXTENDS ProvenanceRecord, FiniteSets

CONSTANTS
    Threads,    \* the calling threads
    Root,       \* the record the lineage starts with
    None,       \* nobody
    Boots,      \* worker boots with a live session at the start
    RootBoot,   \* the boot that published the root
    Calls,      \* the calls a thread may make
    MaxGen      \* bound: route generations

CommitOps == {"publish", "session", "retire"}
NotifyOps == {"fence", "announce", "advance_epoch"}

\* elsewhere: a publication in another lineage of the same route.
\* boot: the caller's; gen, path: what it publishes or announces; expect: the
\* expected store generation (0: none); victim: the boot to fence.
CallType == [op : CommitOps \cup NotifyOps \cup {"elsewhere"}, boot : Boots,
             gen : 1..MaxGen, path : Nat, expect : Nat, victim : Boots]

ASSUME RaceAssumption ==
    /\ IsFiniteSet(Threads)
    /\ Root \notin Threads
    /\ None \notin Threads
    /\ RootBoot \in Boots
    /\ MaxGen \in Nat \ {0}
    /\ Calls \subseteq CallType

RecordIds == Threads \cup {Root}

VARIABLES
    call,       \* what each thread calls
    pc,         \* where each thread is
    snap,       \* the watermarks each thread read last
    captured,   \* DependencySnapshot of a two-phase publication
    todo,       \* records a thread has still to recompute
    found,      \* the affected records a notification copied from an index
    outcome,    \* what each call came to
    lin,        \* LineageState
    nodes,      \* the records; a publication creates the one named after it
    holder,     \* the thread that holds the lineage mutex
    marks,      \* DependencyWatermarks
    live,       \* boots whose session is live
    indexed,    \* records entered in the indexes
    genIndex    \* generations whose entry in route_generation_index leads
                \* to a record of this lineage

threadVars == <<snap, captured, todo, found, outcome>>
sharedVars == <<lin, nodes, marks, live, indexed, genIndex>>
vars == <<call, pc, threadVars, holder, sharedVars>>

Steps == {"begin", "begin_lineage", "check", "check_route", "check_lineage",
          "watermarks", "live", "lock", "insert", "marks1", "eval1", "marks2",
          "eval2", "index", "fence", "announce", "collect", "relock", "marks",
          "eval", "unlock", "elsewhere", "overwrite", "done"}

Bind(path) == [path |-> path, policy |-> 0, adPolicy |-> 0, adEvidence |-> 0,
               plan |-> 0, fabric |-> 0]

Node(kind, gen, boot, path) ==
    [kind |-> kind, gen |-> gen, auth |-> [boot |-> boot, epoch |-> 1],
     bind |-> Bind(path), life |-> "Current", cur |-> "HistoricalOnly",
     rr |-> FALSE, reval |-> FALSE]

Nodes == [kind : NodeKinds \cup {"Absent"}, gen : 0..MaxGen,
          auth : [boot : Boots \cup {None}, epoch : {1}],
          bind : [path : Nat, policy : {0}, adPolicy : {0},
                  adEvidence : {0}, plan : {0}, fabric : {0}],
          life : NodeLifecycles,
          cur : CurrentnessValues, rr : {FALSE}, reval : {FALSE}]

Marks == [path : Nat, policy : {0}, evidence : {0}, epoch : {1, 2},
          store : Nat]

TypeOK ==
    /\ call \in [Threads -> Calls]
    /\ pc \in [Threads -> Steps]
    /\ snap \in [Threads -> Marks]
    /\ captured \in [Threads -> [marks : Marks, gen : 0..MaxGen, lgen : Nat]]
    /\ todo \in [Threads -> SUBSET RecordIds]
    /\ found \in [Threads -> SUBSET RecordIds]
    /\ outcome \in [Threads -> {"Pending", "Applied", "Rejected"}]
    /\ lin \in [life : {"Active", "Retired"}, gen : 1..MaxGen,
                cur : RecordIds, lgen : Nat]
    /\ nodes \in [RecordIds -> Nodes]
    /\ holder \in Threads \cup {None}
    /\ marks \in Marks
    /\ live \subseteq Boots
    /\ indexed \subseteq RecordIds
    /\ genIndex \subseteq 1..MaxGen

\* A call elsewhere starts where its own checks are behind it: they only reject.
FirstStep(op) == CASE op = "session" -> "begin"
                   [] op = "elsewhere" -> "elsewhere"
                   [] OTHER -> "watermarks"

\* One live boot has published the root generation, bound to the announced
\* path authority generation 1.
Init ==
    LET m0 == [path |-> 1, policy |-> 0, evidence |-> 0, epoch |-> 1,
               store |-> 1]
    IN /\ call \in [Threads -> Calls]
       /\ pc = [t \in Threads |-> FirstStep(call[t].op)]
       /\ marks = m0
       /\ snap = [t \in Threads |-> m0]
       /\ captured = [t \in Threads |-> [marks |-> m0, gen |-> 0,
                                         lgen |-> 0]]
       /\ todo = [t \in Threads |-> {}]
       /\ found = [t \in Threads |-> {}]
       /\ outcome = [t \in Threads |-> "Pending"]
       /\ lin = [life |-> "Active", gen |-> 1, cur |-> Root, lgen |-> 1]
       /\ nodes = [r \in RecordIds |->
                     IF r = Root
                     THEN [Node("RouteGeneration", 1, RootBoot, 1)
                              EXCEPT !.cur = "Current"]
                     ELSE Node("Absent", 0, None, 0)]
       /\ holder = None
       /\ live = Boots
       /\ indexed = {Root}
       /\ genIndex = {1}

-----------------------------------------------------------------------------
(* Thread bookkeeping *)

Goto(t, from, to) == pc[t] = from /\ pc' = [pc EXCEPT ![t] = to]

Ends(t, result) == outcome' = [outcome EXCEPT ![t] = result]

\* A step that either lets the call go on or rejects it.
Check(t, from, ok, to) ==
    /\ Goto(t, from, IF ok THEN to ELSE "done")
    /\ IF ok THEN UNCHANGED outcome ELSE Ends(t, "Rejected")

-----------------------------------------------------------------------------
(* Two-phase publication: begin_publication and commit_session *)

BeginMarks(t) ==
    /\ Goto(t, "begin", "begin_lineage")
    /\ captured' = [captured EXCEPT ![t].marks = marks]
    /\ UNCHANGED <<call, snap, todo, found, outcome, holder, sharedVars>>

\* The lineage is read under a shared lock.
BeginLineage(t) ==
    /\ Goto(t, "begin_lineage", "check")
    /\ holder = None
    /\ captured' = [captured EXCEPT ![t].gen = lin.gen, ![t].lgen = lin.lgen]
    /\ UNCHANGED <<call, snap, todo, found, outcome, holder, sharedVars>>

CheckMarks(t) ==
    /\ Goto(t, "check", "check_route")
    /\ snap' = [snap EXCEPT ![t] = marks]
    /\ UNCHANGED <<call, captured, todo, found, outcome, holder, sharedVars>>

CheckRoute(t) ==
    /\ holder = None
    /\ Check(t, "check_route", /\ lin.gen = captured[t].gen
                               /\ snap[t].path = captured[t].marks.path,
             "check_lineage")
    /\ UNCHANGED <<call, snap, captured, todo, found, holder, sharedVars>>

\* The second shared lock; epoch and store generation are compared last.
CheckLineage(t) ==
    /\ holder = None
    /\ Check(t, "check_lineage", /\ lin.lgen = captured[t].lgen
                                 /\ snap[t] = captured[t].marks,
             "watermarks")
    /\ UNCHANGED <<call, snap, captured, todo, found, holder, sharedVars>>

-----------------------------------------------------------------------------
(* Authority, common to every call *)

\* Stage 4 of a commit, and the same test in the notifications.
ReadWatermarks(t) ==
    /\ Check(t, "watermarks", marks.epoch = 1, "live")
    /\ snap' = [snap EXCEPT ![t] = marks]
    /\ UNCHANGED <<call, captured, todo, found, holder, sharedVars>>

\* Stage 5.
CheckLive(t) ==
    /\ Check(t, "live", call[t].boot \in live,
             IF call[t].op \in CommitOps THEN "lock"
             ELSE IF call[t].op = "fence" THEN "fence" ELSE "announce")
    /\ UNCHANGED <<call, snap, captured, todo, found, holder, sharedVars>>

-----------------------------------------------------------------------------
(* The part of a commit under the lineage lock *)

\* Mutant: the generation index is not consulted.
Admissible_NoIndex(t) ==
    /\ lin.life # "Retired"
    /\ call[t].op # "retire" => call[t].gen >= lin.gen

\* Mutant: an older generation is accepted.
Admissible_AnyGeneration(t) ==
    /\ lin.life # "Retired"
    /\ call[t].op # "retire" => call[t].gen \notin genIndex

\* Stages 7 to 12, against the watermarks of stage 4.  A publication
\* supersedes the root, a retirement retires it.  An index entry that leads to
\* a record of another lineage refuses nothing.
Admissible(t) ==
    /\ lin.life # "Retired"
    /\ call[t].expect \in {0, snap[t].store}
    /\ call[t].op # "retire" =>
          /\ call[t].gen >= lin.gen
          /\ call[t].gen \notin genIndex
          /\ ~differs(call[t].path, snap[t].path)

Lock(t) ==
    /\ holder = None
    /\ Check(t, "lock", Admissible(t), "insert")
    /\ holder' = IF Admissible(t) THEN t ELSE None
    /\ UNCHANGED <<call, snap, captured, todo, found, sharedVars>>

\* Stage 14 and the bookkeeping after it; the store generation is advanced
\* under index_mutex.
InsertRoute(t) ==
    /\ lin' = [lin EXCEPT !.gen = call[t].gen, !.cur = t, !.lgen = @ + 1]
    /\ nodes' = [nodes EXCEPT
                    ![t] = Node("RouteGeneration", call[t].gen, call[t].boot,
                                call[t].path),
                    ![lin.cur].life = IF lin.cur = Root THEN "Superseded"
                                      ELSE "Historical",
                    ![lin.cur].cur = "HistoricalOnly"]
    /\ todo' = [todo EXCEPT ![t] = {t, Root, lin.cur}]

\* Mutant: the lifecycle of the revocation branch.
InsertRetirement_Revokes(t) ==
    /\ lin' = [lin EXCEPT !.life = "Revoked", !.lgen = @ + 1]
    /\ nodes' = [nodes EXCEPT ![Root].life = "Revoked"]
    /\ todo' = [todo EXCEPT ![t] = {Root}]

InsertRetirement(t) ==
    /\ lin' = [lin EXCEPT !.life = "Retired", !.lgen = @ + 1]
    /\ nodes' = [nodes EXCEPT
                    ![t] = Node("AdministrativeAction", nodes[Root].gen,
                                call[t].boot, 0),
                    ![Root].life = "Retired",
                    ![Root].cur = "HistoricalOnly"]
    /\ todo' = [todo EXCEPT ![t] = {t, Root}]

\* Mutant: the store generation is computed from the watermarks of stage 4.
Insert_FromSnapshot(t) ==
    /\ Goto(t, "insert", "marks1")
    /\ IF call[t].op = "retire" THEN InsertRetirement(t) ELSE InsertRoute(t)
    /\ marks' = [marks EXCEPT !.store = snap[t].store + 1]
    /\ Ends(t, "Applied")
    /\ UNCHANGED <<call, snap, captured, found, holder, live, indexed,
                   genIndex>>

Insert(t) ==
    /\ Goto(t, "insert", "marks1")
    /\ IF call[t].op = "retire" THEN InsertRetirement(t) ELSE InsertRoute(t)
    /\ marks' = [marks EXCEPT !.store = @ + 1]
    /\ Ends(t, "Applied")
    /\ UNCHANGED <<call, snap, captured, found, holder, live, indexed,
                   genIndex>>

\* reevaluate_nodes reads the watermarks once ...
ReadMarks(t, from, to) ==
    /\ Goto(t, from, to)
    /\ snap' = [snap EXCEPT ![t] = marks]
    /\ UNCHANGED <<call, captured, todo, found, outcome, holder, sharedVars>>

\* ... and the liveness of each record's publisher as it comes to the record.
Evaluate(t, from, to, next) ==
    \E r \in todo[t] :
        /\ Goto(t, from, IF todo[t] = {r} THEN to ELSE from)
        /\ nodes' = [nodes EXCEPT ![r].cur =
              compute_currentness(lin, nodes[r], snap[t],
                 IF nodes[r].auth.boot \in live THEN "Live" ELSE "Fenced")]
        /\ todo' = [todo EXCEPT ![t] = IF @ = {r} THEN next ELSE @ \ {r}]
        /\ UNCHANGED <<call, snap, captured, found, outcome, holder, lin,
                       marks, live, indexed, genIndex>>

\* Mutant: the current record is not recomputed after the affected ones.
Reevaluate_AffectedOnly(t) ==
    \/ ReadMarks(t, "marks1", "eval1")
    \/ Evaluate(t, "eval1", "index", {})

\* Mutant: the current record is recomputed through reevaluate_index, which
\* takes the lineage lock itself.
Reevaluate_Relocks(t) ==
    \/ ReadMarks(t, "marks1", "eval1")
    \/ Evaluate(t, "eval1", "marks2", {lin.cur})
    \/ holder = None /\ ReadMarks(t, "marks2", "eval2")
    \/ Evaluate(t, "eval2", "index", {})

\* The affected records, and then the current record once more.
Reevaluate(t) ==
    \/ ReadMarks(t, "marks1", "eval1")
    \/ Evaluate(t, "eval1", "marks2", {lin.cur})
    \/ ReadMarks(t, "marks2", "eval2")
    \/ Evaluate(t, "eval2", "index", {})

\* Index insertion, the attempt ledger and the release of the lineage lock.
Index(t) ==
    /\ Goto(t, "index", "done")
    /\ indexed' = indexed \cup {t}
    /\ genIndex' = IF call[t].op = "retire" THEN genIndex
                   ELSE genIndex \cup {call[t].gen}
    /\ holder' = None
    /\ UNCHANGED <<call, threadVars, lin, nodes, marks, live>>

-----------------------------------------------------------------------------
(* Fences, announcements and epoch advances *)

Fence(t) ==
    /\ Goto(t, "fence", "collect")
    /\ live' = live \ {call[t].victim}
    /\ Ends(t, "Applied")
    /\ UNCHANGED <<call, snap, captured, todo, found, holder, lin, nodes,
                   marks, indexed, genIndex>>

\* The records a notification has to recompute, as the indexes list them.
Affected(t) ==
    {r \in indexed :
        CASE call[t].op = "fence" -> nodes[r].auth.boot = call[t].victim
          [] call[t].op = "announce" ->
                nodes[r].bind.path # 0 /\ nodes[r].bind.path < call[t].path
          [] OTHER -> TRUE}

CopyAffected(t) ==
    /\ found' = [found EXCEPT ![t] = Affected(t)]
    /\ todo' = [todo EXCEPT ![t] = Affected(t)]

\* What call t announces is newer than what the store knows.
IsNewer(t) == IF call[t].op = "announce" THEN call[t].path > marks.path
              ELSE marks.epoch = 1

\* A path authority advance collects and announces under one index_mutex.
AnnouncePath(t) ==
    /\ call[t].op = "announce" /\ IsNewer(t)
    /\ Goto(t, "announce", "relock")
    /\ marks' = [marks EXCEPT !.path = call[t].path, !.store = @ + 1]
    /\ CopyAffected(t)
    /\ Ends(t, "Applied")
    /\ UNCHANGED <<call, snap, captured, holder, lin, nodes, live, indexed,
                   genIndex>>

\* An epoch advance announces first and collects under a second index_mutex.
AdvanceEpoch(t) ==
    /\ call[t].op = "advance_epoch" /\ IsNewer(t)
    /\ Goto(t, "announce", "collect")
    /\ marks' = [marks EXCEPT !.epoch = 2, !.store = @ + 1]
    /\ Ends(t, "Applied")
    /\ UNCHANGED <<call, snap, captured, todo, found, holder, lin, nodes,
                   live, indexed, genIndex>>

NothingNew(t) ==
    /\ ~IsNewer(t)
    /\ Check(t, "announce", FALSE, "done")
    /\ UNCHANGED <<call, snap, captured, todo, found, holder, sharedVars>>

Announce(t) == AnnouncePath(t) \/ AdvanceEpoch(t) \/ NothingNew(t)

Collect(t) ==
    /\ Goto(t, "collect", "relock")
    /\ CopyAffected(t)
    /\ UNCHANGED <<call, snap, captured, outcome, holder, sharedVars>>

\* reevaluate_index locks the lineage that owns the records, if any.
Relock(t) ==
    /\ todo[t] # {} => holder = None
    /\ Goto(t, "relock", IF todo[t] = {} THEN "done" ELSE "marks")
    /\ holder' = IF todo[t] = {} THEN holder ELSE t
    /\ UNCHANGED <<call, threadVars, sharedVars>>

\* Mutant: the watermarks read before the lineage lock are used.
Recompute_Stale(t) ==
    \/ /\ Goto(t, "marks", "eval")
       /\ UNCHANGED <<call, threadVars, holder, sharedVars>>
    \/ Evaluate(t, "eval", "unlock", {})

Recompute(t) ==
    \/ ReadMarks(t, "marks", "eval")
    \/ Evaluate(t, "eval", "unlock", {})

Unlock(t) ==
    /\ Goto(t, "unlock", "done")
    /\ holder' = None
    /\ UNCHANGED <<call, threadVars, sharedVars>>

-----------------------------------------------------------------------------
(* A publication in another lineage of the route *)

\* It runs under the lock of its own lineage; of what this one sees, it first
\* advances the store generation ...
CommitElsewhere(t) ==
    /\ Goto(t, "elsewhere", "overwrite")
    /\ marks' = [marks EXCEPT !.store = @ + 1]
    /\ Ends(t, "Applied")
    /\ UNCHANGED <<call, snap, captured, todo, found, holder, lin, nodes,
                   live, indexed, genIndex>>

\* ... and at its end takes over the index entry of its generation.
OverwriteIndex(t) ==
    /\ Goto(t, "overwrite", "done")
    /\ genIndex' = genIndex \ {call[t].gen}
    /\ UNCHANGED <<call, threadVars, holder, lin, nodes, marks, live, indexed>>

\* Another lineage of this route has published.
Shared ==
    \E t \in Threads : call[t].op = "elsewhere" /\ outcome[t] = "Applied"

-----------------------------------------------------------------------------

Session(t) == BeginMarks(t) \/ BeginLineage(t) \/ CheckMarks(t)
              \/ CheckRoute(t) \/ CheckLineage(t)

Authority(t) == ReadWatermarks(t) \/ CheckLive(t)

Commit(t) == Lock(t) \/ Insert(t) \/ Reevaluate(t) \/ Index(t)

Notify(t) == Fence(t) \/ Announce(t) \/ Collect(t) \/ Relock(t)
             \/ Recompute(t) \/ Unlock(t)

Elsewhere(t) == CommitElsewhere(t) \/ OverwriteIndex(t)

Step(t) == Session(t) \/ Authority(t) \/ Commit(t) \/ Notify(t)
           \/ Elsewhere(t)

AllDone == \A t \in Threads : pc[t] = "done"

\* Nobody holds the lineage lock; this is when a reader can look.
Quiet == holder = None

Next == \E t \in Threads : Step(t)

Spec == Init /\ [][Next]_vars

\* Every thread is scheduled; a thread at the lineage lock proceeds when the
\* lock is free often enough, which it is since every call is finite.
FairSpec == Spec /\ \A t \in Threads : WF_vars(Step(t))

-----------------------------------------------------------------------------
(* Properties *)

\* Mutual exclusion covers the whole commit: while the route has one lineage a
\* reader never sees two route records of one generation; in any case the
\* current record is the last generation, no other route record is reported
\* CURRENT, and every reader-visible record is indexed.
OneRecordPerGeneration ==
    Quiet =>
      /\ ~Shared => \A m, n \in RecordIds :
            /\ nodes[m].kind = "RouteGeneration"
            /\ nodes[n].kind = "RouteGeneration"
            /\ nodes[m].gen = nodes[n].gen
            => m = n
      /\ nodes[lin.cur].gen = lin.gen
      /\ \A r \in RecordIds :
            nodes[r].kind = "RouteGeneration" /\ nodes[r].cur = "Current"
                => r = lin.cur
      /\ indexed = {r \in RecordIds : nodes[r].kind # "Absent"}

\* A retirement wins against the publications, fences and announcements it
\* races with: once it is visible, no record of the lineage is CURRENT.
RetirementWins ==
    Quiet /\ lin.life = "Retired" =>
        \A r \in RecordIds : nodes[r].cur # "Current"

\* A fence, announcement or epoch advance that returned has demoted every
\* record it found in the index, and no later commit restores one of them.
FoundIsDemoted ==
    \A t \in Threads :
        /\ call[t].op \in NotifyOps
        /\ pc[t] = "done"
        /\ outcome[t] = "Applied"
        => \A r \in found[t] : nodes[r].cur # "Current"

\* No increment of the store generation is lost: it counts the applied
\* mutations and announcements.
StoreGenerationCounts ==
    marks.store = 1 + Cardinality({t \in Threads :
                        call[t].op # "fence" /\ outcome[t] = "Applied"})

Lineage == INSTANCE RouteLineage
               WITH life <- lin.life, gen <- lin.gen - 1, shared <- Shared

\* Interleaved at its locks, the lineage still behaves like the abstract one:
\* it repeats its generation only if another lineage shares the route.
RefinesRouteLineage == Lineage!Spec

\* Every call returns: no call waits for a lineage lock that is never handed
\* back, its own included.
EveryCallReturns == <>AllDone

-----------------------------------------------------------------------------
(* What a test of the repository says *)

\* tests/test_race.cpp:201-202: after the fence and a racing publication the
\* current record is FencedPublisher: no record of a fenced boot is CURRENT.
FencedIsNotCurrent ==
    AllDone => \A r \in RecordIds :
        nodes[r].cur = "Current" => nodes[r].auth.boot \in live

=============================================================================
