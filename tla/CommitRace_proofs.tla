-------------------------- MODULE CommitRace_proofs --------------------------
(***************************************************************************)
(* Why concurrent calls on a lineage interleave safely, for any number of  *)
(* threads and any calls they make.  The lineage mutex covers a commit     *)
(* from its last check to its index entry (LockInv), so every record that  *)
(* is visible has been indexed and carries a generation of its own         *)
(* (RecordInv); a notification that copied records from an index has its   *)
(* change announced before it locks the lineage, so whoever evaluates one  *)
(* of these records later sees the announced state (FoundInv).             *)
(***************************************************************************)
EXTENDS CommitRace, FiniteSetTheorems, TLAPS

\* The program counters of a commit and of a notification.
SessionSteps == {"begin", "begin_lineage", "check", "check_route",
                 "check_lineage"}
CommitSteps  == {"lock", "insert", "marks1", "eval1", "marks2", "eval2",
                 "index"}
NotifySteps  == {"fence", "announce", "collect", "relock", "marks", "eval",
                 "unlock"}

\* The steps made under the lineage mutex, and those of them after which the
\* thread's record is in the graph.
Committing == {"marks1", "eval1", "marks2", "eval2", "index"}
Inside     == {"insert", "marks", "eval", "unlock"} \cup Committing
Evaluating == {"eval1", "eval2", "eval"}

\* The steps after which a call has taken effect, "done" apart.
Late == Committing \cup {"collect", "relock", "marks", "eval", "unlock",
                        "overwrite"}

-----------------------------------------------------------------------------
(* The inductive invariant *)

\* A thread is at a step of its own operation, its outcome says whether the
\* call has taken effect, and it copies records from the indexes only then.
PcInv ==
    \A t \in Threads :
        /\ pc[t] \in SessionSteps => call[t].op = "session"
        /\ pc[t] \in CommitSteps => call[t].op \in CommitOps
        /\ pc[t] \in NotifySteps => call[t].op \in NotifyOps
        /\ pc[t] = "fence" => call[t].op = "fence"
        /\ pc[t] = "announce" => call[t].op # "fence"
        /\ pc[t] \in {"watermarks", "live"} => call[t].op # "elsewhere"
        /\ pc[t] \in {"elsewhere", "overwrite"} => call[t].op = "elsewhere"
        /\ pc[t] # "done" => (outcome[t] = "Applied" <=> pc[t] \in Late)
        /\ pc[t] # "done" => outcome[t] # "Rejected"
        /\ outcome[t] # "Applied" \/ pc[t] = "collect" => found[t] = {}

\* The mutex is held by the one thread that is inside.
MutexInv == \A t \in Threads : pc[t] \in Inside <=> holder = t

\* Thread t has put its record into the graph.
Inserted(t) == call[t].op \in CommitOps /\ outcome[t] = "Applied"

\* A thread's record exists once it was inserted and is entered in the indexes
\* with the release of the mutex; while the route has one lineage, route
\* records have generations of their own, and all of them but the holder's are
\* in the generation index.
RecordInv ==
    /\ nodes[Root].kind = "RouteGeneration"
    /\ \A t \in Threads :
          /\ nodes[t].kind = "Absent" <=> ~Inserted(t)
          /\ t \in indexed <=> Inserted(t) /\ pc[t] = "done"
    /\ Root \in indexed
    /\ ~Shared => \A m, n \in RecordIds :
          /\ nodes[m].kind = "RouteGeneration"
          /\ nodes[n].kind = "RouteGeneration"
          /\ nodes[m].gen = nodes[n].gen
          => m = n
    /\ ~Shared => \A r \in RecordIds :
          nodes[r].kind = "RouteGeneration" =>
             \/ nodes[r].gen \in genIndex
             \/ /\ r \in Threads /\ r = holder
                /\ call[r].op # "retire" /\ call[r].gen = nodes[r].gen
    /\ nodes[lin.cur].kind = "RouteGeneration"
    /\ nodes[lin.cur].gen = lin.gen

\* What a commit checked when it took the mutex still holds when it inserts.
LockInv ==
    \A t \in Threads :
        pc[t] = "insert" =>
            /\ lin.life # "Retired"
            /\ call[t].op # "retire" => /\ call[t].gen >= lin.gen
                                        /\ call[t].gen \notin genIndex

Past == {"Superseded", "Historical", "Retired"}

\* A replaced route record has left the current state for good, and the record
\* of a retirement is never in it; only existing records are recomputed.  In a
\* retired lineage only the current record may still be reported CURRENT, and
\* only until the retirement has come to it.
CurInv ==
    /\ \A r \in RecordIds :
          nodes[r].kind = "RouteGeneration" /\ r # lin.cur =>
             nodes[r].life \in Past /\ nodes[r].cur # "Current"
    /\ \A r \in RecordIds : nodes[r].kind # "RouteGeneration" =>
          /\ nodes[r].cur # "Current"
          /\ nodes[r].kind # "Absent" => lin.life = "Retired"
    /\ \A t \in Threads : \A r \in todo[t] : nodes[r].kind # "Absent"
    /\ \A t \in Threads : pc[t] \in {"marks2", "eval2"} =>
          todo[t] = {lin.cur}
    /\ lin.life = "Retired" =>
          \A r \in RecordIds : nodes[r].cur = "Current" =>
             r = lin.cur /\ \E t \in Threads : pc[t] \in Committing \ {"index"}

\* The change of notification t is visible in watermarks mk.
Visible(t, mk) ==
    /\ call[t].op = "announce" => mk.path >= call[t].path
    /\ call[t].op = "advance_epoch" => mk.epoch = 2

\* Notification t has taken effect, and what it copied from the indexes is
\* affected by it.
EffectInv ==
    \A t \in Threads :
        call[t].op \in NotifyOps /\ outcome[t] = "Applied" =>
            /\ Visible(t, marks)
            /\ call[t].op = "fence" => call[t].victim \notin live
            /\ found[t] \subseteq indexed
            /\ \A r \in found[t] :
                  /\ call[t].op = "fence" =>
                        nodes[r].auth.boot = call[t].victim
                  /\ call[t].op = "announce" =>
                        /\ nodes[r].bind.path # 0
                        /\ nodes[r].bind.path < call[t].path

\* Whoever evaluates a record while notification t is past its own lock uses
\* watermarks that show t's change; so the records t has come to stay demoted.
FoundInv ==
    \A t \in Threads :
        call[t].op \in NotifyOps /\ outcome[t] = "Applied" =>
            /\ pc[t] \in {"relock", "marks"} => todo[t] = found[t]
            /\ pc[t] \in {"unlock", "done"} => todo[t] = {}
            /\ pc[t] \in {"eval", "unlock", "done"} =>
                  /\ \A r \in found[t] \ todo[t] : nodes[r].cur # "Current"
                  /\ found[t] # {} =>
                        \A u \in Threads :
                           pc[u] \in Evaluating => Visible(t, snap[u])

Inv == /\ TypeOK /\ PcInv /\ MutexInv /\ RecordInv /\ LockInv /\ CurInv
       /\ EffectInv /\ FoundInv

-----------------------------------------------------------------------------
(* The vocabulary *)

\* The calls are well formed.
LEMMA CallTyped ==
    ASSUME TypeOK, NEW t \in Threads
    PROVE  call[t] \in CallType
  BY RaceAssumption DEF TypeOK

\* compute_currentness returns a currentness value.
LEMMA CurrentnessTyped ==
    ASSUME NEW l, NEW n, NEW m, NEW p
    PROVE  compute_currentness(l, n, m, p) \in CurrentnessValues
  BY DEF compute_currentness, CurrentnessValues

\* A record that was replaced, or belongs to a retired lineage, is history.
LEMMA PastIsHistory ==
    ASSUME NEW l, NEW n, NEW m, NEW p,
           l.life = "Retired" \/ n.life \in Past
    PROVE  compute_currentness(l, n, m, p) # "Current"
  BY DEF compute_currentness, Past, HistoryLifecycles

\* What CURRENT vouches for: the announced path, the epoch, the publisher.
LEMMA CurrentNeeds ==
    ASSUME NEW l, NEW n, NEW m, NEW p,
           compute_currentness(l, n, m, p) = "Current"
    PROVE  /\ ~differs(n.bind.path, m.path)
           /\ m.epoch # 0 => n.auth.epoch = m.epoch
           /\ n.reval \/ p # "Fenced"
  BY DEF compute_currentness

-----------------------------------------------------------------------------
(* Frames: what a step leaves alone keeps its part of the invariant *)

\* The records and the lineage are left alone, no call ends with a record or
\* loses its effect, and no thread gives up the mutex with a route record.
LEMMA RecordFrame ==
    ASSUME RecordInv,
           UNCHANGED <<call, nodes, lin, indexed, genIndex>>,
           \A u \in Threads :
              /\ Inserted(u)' <=> Inserted(u)
              /\ Inserted(u) => (pc'[u] = "done" <=> pc[u] = "done")
              /\ outcome[u] = "Applied" => outcome'[u] = "Applied",
           \A u \in Threads :
              nodes[u].kind = "RouteGeneration" /\ u = holder => holder' = u
    PROVE  RecordInv'
<1>1. Shared => Shared'
  BY DEF Shared
<1> QED
  BY <1>1 DEF RecordInv

\* No notification moves or takes effect, no record is recomputed, and nobody
\* starts to evaluate.
LEMMA FoundFrame ==
    ASSUME FoundInv, UNCHANGED <<call, found, todo, nodes>>,
           \A u \in Threads :
              call[u].op \in NotifyOps /\ outcome'[u] = "Applied" =>
                 outcome[u] = "Applied" /\ pc'[u] = pc[u],
           \A u \in Threads :
              pc'[u] \in Evaluating =>
                 pc[u] \in Evaluating /\ snap'[u] = snap[u]
    PROVE  FoundInv'
  BY DEF FoundInv, Visible

-----------------------------------------------------------------------------
(* Two-phase publication and the checks before the lineage lock *)

\* begin_publication captures the watermarks.
LEMMA BeginMarksInv ==
    ASSUME Inv, NEW t \in Threads, BeginMarks(t)
    PROVE  Inv'
<1>1. TypeOK'
  BY DEF Inv, TypeOK, Steps, BeginMarks, Goto, sharedVars
<1>2. PcInv'
  BY DEF Inv, TypeOK, PcInv, SessionSteps, CommitSteps, NotifySteps, Late,
     Committing, CommitOps, NotifyOps, BeginMarks, Goto, sharedVars
<1>3. MutexInv'
  BY DEF Inv, TypeOK, MutexInv, Inside, Committing, BeginMarks, Goto,
     sharedVars
<1>4. RecordInv'
  <2>1. UNCHANGED <<call, nodes, lin, indexed, genIndex>>
    BY DEF BeginMarks, Goto, sharedVars
  <2>2. \A u \in Threads :
           /\ Inserted(u)' <=> Inserted(u)
           /\ Inserted(u) => (pc'[u] = "done" <=> pc[u] = "done")
           /\ outcome[u] = "Applied" => outcome'[u] = "Applied"
    BY DEF Inv, TypeOK, PcInv, Inserted, Late, Committing, BeginMarks, Goto,
       sharedVars
  <2>3. \A u \in Threads :
           nodes[u].kind = "RouteGeneration" /\ u = holder => holder' = u
    BY DEF BeginMarks, Goto, sharedVars
  <2> QED
    BY <2>1, <2>2, <2>3, RecordFrame DEF Inv
<1>5. LockInv'
  BY DEF Inv, TypeOK, PcInv, MutexInv, Inside, Committing, LockInv,
     BeginMarks, Goto, sharedVars
<1>6. CurInv'
  BY DEF Inv, TypeOK, CurInv, Committing, BeginMarks, Goto, sharedVars
<1>7. EffectInv'
  BY DEF Inv, TypeOK, PcInv, EffectInv, Visible, BeginMarks, Goto, sharedVars
<1>8. FoundInv'
  <2>1. UNCHANGED <<call, found, todo, nodes>>
    BY DEF BeginMarks, Goto, sharedVars
  <2>2. \A u \in Threads :
           call[u].op \in NotifyOps /\ outcome'[u] = "Applied" =>
              outcome[u] = "Applied" /\ pc'[u] = pc[u]
    BY DEF Inv, TypeOK, PcInv, Late, Committing, BeginMarks, Goto, sharedVars
  <2>3. \A u \in Threads :
           pc'[u] \in Evaluating =>
              pc[u] \in Evaluating /\ snap'[u] = snap[u]
    BY DEF Inv, TypeOK, Evaluating, BeginMarks, Goto, sharedVars
  <2> QED
    BY <2>1, <2>2, <2>3, FoundFrame DEF Inv
<1> QED
  BY <1>1, <1>2, <1>3, <1>4, <1>5, <1>6, <1>7, <1>8 DEF Inv

\* ... and then the lineage.
LEMMA BeginLineageInv ==
    ASSUME Inv, NEW t \in Threads, BeginLineage(t)
    PROVE  Inv'
<1>1. TypeOK'
  <2>1. captured' = [captured EXCEPT
                        ![t] = [@ EXCEPT !.gen = lin.gen, !.lgen = lin.lgen]]
    BY DEF Inv, TypeOK, BeginLineage
  <2>2. captured[t] \in [marks : Marks, gen : 0..MaxGen, lgen : Nat]
    BY DEF Inv, TypeOK
  <2>3. lin.gen \in 0..MaxGen /\ lin.lgen \in Nat
    BY RaceAssumption DEF Inv, TypeOK
  <2>4. [captured[t] EXCEPT !.gen = lin.gen, !.lgen = lin.lgen]
           \in [marks : Marks, gen : 0..MaxGen, lgen : Nat]
    BY <2>2, <2>3
  <2>5. captured' \in [Threads -> [marks : Marks, gen : 0..MaxGen, lgen : Nat]]
    BY <2>1, <2>4 DEF Inv, TypeOK
  <2> QED
    BY <2>5 DEF Inv, TypeOK, Steps, BeginLineage, Goto, sharedVars
<1>2. PcInv'
  BY DEF Inv, TypeOK, PcInv, SessionSteps, CommitSteps, NotifySteps, Late,
     Committing, CommitOps, NotifyOps, BeginLineage, Goto, sharedVars
<1>3. MutexInv'
  BY DEF Inv, TypeOK, MutexInv, Inside, Committing, BeginLineage, Goto,
     sharedVars
<1>4. RecordInv'
  <2>1. UNCHANGED <<call, nodes, lin, indexed, genIndex>>
    BY DEF BeginLineage, Goto, sharedVars
  <2>2. \A u \in Threads :
           /\ Inserted(u)' <=> Inserted(u)
           /\ Inserted(u) => (pc'[u] = "done" <=> pc[u] = "done")
           /\ outcome[u] = "Applied" => outcome'[u] = "Applied"
    BY DEF Inv, TypeOK, PcInv, Inserted, Late, Committing, BeginLineage,
       Goto, sharedVars
  <2>3. \A u \in Threads :
           nodes[u].kind = "RouteGeneration" /\ u = holder => holder' = u
    BY DEF BeginLineage, Goto, sharedVars
  <2> QED
    BY <2>1, <2>2, <2>3, RecordFrame DEF Inv
<1>5. LockInv'
  BY DEF Inv, TypeOK, PcInv, MutexInv, Inside, Committing, LockInv,
     BeginLineage, Goto, sharedVars
<1>6. CurInv'
  BY DEF Inv, TypeOK, CurInv, Committing, BeginLineage, Goto, sharedVars
<1>7. EffectInv'
  BY DEF Inv, TypeOK, PcInv, EffectInv, Visible, BeginLineage, Goto,
     sharedVars
<1>8. FoundInv'
  <2>1. UNCHANGED <<call, found, todo, nodes>>
    BY DEF BeginLineage, Goto, sharedVars
  <2>2. \A u \in Threads :
           call[u].op \in NotifyOps /\ outcome'[u] = "Applied" =>
              outcome[u] = "Applied" /\ pc'[u] = pc[u]
    BY DEF Inv, TypeOK, PcInv, Late, Committing, BeginLineage, Goto,
       sharedVars
  <2>3. \A u \in Threads :
           pc'[u] \in Evaluating =>
              pc[u] \in Evaluating /\ snap'[u] = snap[u]
    BY DEF Inv, TypeOK, Evaluating, BeginLineage, Goto, sharedVars
  <2> QED
    BY <2>1, <2>2, <2>3, FoundFrame DEF Inv
<1> QED
  BY <1>1, <1>2, <1>3, <1>4, <1>5, <1>6, <1>7, <1>8 DEF Inv

\* commit_session reads the watermarks again.
LEMMA CheckMarksInv ==
    ASSUME Inv, NEW t \in Threads, CheckMarks(t)
    PROVE  Inv'
<1>1. TypeOK'
  BY DEF Inv, TypeOK, Steps, CheckMarks, Goto, sharedVars
<1>2. PcInv'
  BY DEF Inv, TypeOK, PcInv, SessionSteps, CommitSteps, NotifySteps, Late,
     Committing, CommitOps, NotifyOps, CheckMarks, Goto, sharedVars
<1>3. MutexInv'
  BY DEF Inv, TypeOK, MutexInv, Inside, Committing, CheckMarks, Goto,
     sharedVars
<1>4. RecordInv'
  <2>1. UNCHANGED <<call, nodes, lin, indexed, genIndex>>
    BY DEF CheckMarks, Goto, sharedVars
  <2>2. \A u \in Threads :
           /\ Inserted(u)' <=> Inserted(u)
           /\ Inserted(u) => (pc'[u] = "done" <=> pc[u] = "done")
           /\ outcome[u] = "Applied" => outcome'[u] = "Applied"
    BY DEF Inv, TypeOK, PcInv, Inserted, Late, Committing, CheckMarks, Goto,
       sharedVars
  <2>3. \A u \in Threads :
           nodes[u].kind = "RouteGeneration" /\ u = holder => holder' = u
    BY DEF CheckMarks, Goto, sharedVars
  <2> QED
    BY <2>1, <2>2, <2>3, RecordFrame DEF Inv
<1>5. LockInv'
  BY DEF Inv, TypeOK, PcInv, MutexInv, Inside, Committing, LockInv,
     CheckMarks, Goto, sharedVars
<1>6. CurInv'
  BY DEF Inv, TypeOK, CurInv, Committing, CheckMarks, Goto, sharedVars
<1>7. EffectInv'
  BY DEF Inv, TypeOK, PcInv, EffectInv, Visible, CheckMarks, Goto, sharedVars
<1>8. FoundInv'
  <2>1. UNCHANGED <<call, found, todo, nodes>>
    BY DEF CheckMarks, Goto, sharedVars
  <2>2. \A u \in Threads :
           call[u].op \in NotifyOps /\ outcome'[u] = "Applied" =>
              outcome[u] = "Applied" /\ pc'[u] = pc[u]
    BY DEF Inv, TypeOK, PcInv, Late, Committing, CheckMarks, Goto, sharedVars
  <2>3. \A u \in Threads :
           pc'[u] \in Evaluating =>
              pc[u] \in Evaluating /\ snap'[u] = snap[u]
    BY DEF Inv, TypeOK, Evaluating, CheckMarks, Goto, sharedVars
  <2> QED
    BY <2>1, <2>2, <2>3, FoundFrame DEF Inv
<1> QED
  BY <1>1, <1>2, <1>3, <1>4, <1>5, <1>6, <1>7, <1>8 DEF Inv

\* The captured route generation and path are compared.
LEMMA CheckRouteInv ==
    ASSUME Inv, NEW t \in Threads, CheckRoute(t)
    PROVE  Inv'
<1>1. TypeOK'
  BY DEF Inv, TypeOK, Steps, CheckRoute, Check, Goto, Ends, sharedVars
<1>2. PcInv'
  BY DEF Inv, TypeOK, PcInv, SessionSteps, CommitSteps, NotifySteps, Late,
     Committing, CommitOps, NotifyOps, CheckRoute, Check, Goto, Ends,
     sharedVars
<1>3. MutexInv'
  BY DEF Inv, TypeOK, MutexInv, Inside, Committing, CheckRoute, Check, Goto,
     Ends, sharedVars
<1>4. RecordInv'
  <2>1. UNCHANGED <<call, nodes, lin, indexed, genIndex>>
    BY DEF CheckRoute, Check, Goto, Ends, sharedVars
  <2>2. \A u \in Threads :
           /\ Inserted(u)' <=> Inserted(u)
           /\ Inserted(u) => (pc'[u] = "done" <=> pc[u] = "done")
           /\ outcome[u] = "Applied" => outcome'[u] = "Applied"
    BY DEF Inv, TypeOK, PcInv, Inserted, Late, Committing, CheckRoute, Check,
       Goto, Ends, sharedVars
  <2>3. \A u \in Threads :
           nodes[u].kind = "RouteGeneration" /\ u = holder => holder' = u
    BY DEF CheckRoute, Check, Goto, Ends, sharedVars
  <2> QED
    BY <2>1, <2>2, <2>3, RecordFrame DEF Inv
<1>5. LockInv'
  BY DEF Inv, TypeOK, PcInv, MutexInv, Inside, Committing, LockInv,
     CheckRoute, Check, Goto, Ends, sharedVars
<1>6. CurInv'
  BY DEF Inv, TypeOK, CurInv, Committing, CheckRoute, Check, Goto, Ends,
     sharedVars
<1>7. EffectInv'
  BY DEF Inv, TypeOK, PcInv, EffectInv, Visible, CheckRoute, Check, Goto,
     Ends, sharedVars
<1>8. FoundInv'
  <2>1. UNCHANGED <<call, found, todo, nodes>>
    BY DEF CheckRoute, Check, Goto, Ends, sharedVars
  <2>2. \A u \in Threads :
           call[u].op \in NotifyOps /\ outcome'[u] = "Applied" =>
              outcome[u] = "Applied" /\ pc'[u] = pc[u]
    BY DEF Inv, TypeOK, PcInv, Late, Committing, CheckRoute, Check, Goto,
       Ends, sharedVars
  <2>3. \A u \in Threads :
           pc'[u] \in Evaluating =>
              pc[u] \in Evaluating /\ snap'[u] = snap[u]
    BY DEF Inv, TypeOK, Evaluating, CheckRoute, Check, Goto, Ends, sharedVars
  <2> QED
    BY <2>1, <2>2, <2>3, FoundFrame DEF Inv
<1> QED
  BY <1>1, <1>2, <1>3, <1>4, <1>5, <1>6, <1>7, <1>8 DEF Inv

\* ... and then the lineage generation and all watermarks.
LEMMA CheckLineageInv ==
    ASSUME Inv, NEW t \in Threads, CheckLineage(t)
    PROVE  Inv'
<1>1. TypeOK'
  BY DEF Inv, TypeOK, Steps, CheckLineage, Check, Goto, Ends, sharedVars
<1>2. PcInv'
  BY DEF Inv, TypeOK, PcInv, SessionSteps, CommitSteps, NotifySteps, Late,
     Committing, CommitOps, NotifyOps, CheckLineage, Check, Goto, Ends,
     sharedVars
<1>3. MutexInv'
  BY DEF Inv, TypeOK, MutexInv, Inside, Committing, CheckLineage, Check,
     Goto, Ends, sharedVars
<1>4. RecordInv'
  <2>1. UNCHANGED <<call, nodes, lin, indexed, genIndex>>
    BY DEF CheckLineage, Check, Goto, Ends, sharedVars
  <2>2. \A u \in Threads :
           /\ Inserted(u)' <=> Inserted(u)
           /\ Inserted(u) => (pc'[u] = "done" <=> pc[u] = "done")
           /\ outcome[u] = "Applied" => outcome'[u] = "Applied"
    BY DEF Inv, TypeOK, PcInv, Inserted, Late, Committing, CheckLineage,
       Check, Goto, Ends, sharedVars
  <2>3. \A u \in Threads :
           nodes[u].kind = "RouteGeneration" /\ u = holder => holder' = u
    BY DEF CheckLineage, Check, Goto, Ends, sharedVars
  <2> QED
    BY <2>1, <2>2, <2>3, RecordFrame DEF Inv
<1>5. LockInv'
  BY DEF Inv, TypeOK, PcInv, MutexInv, Inside, Committing, LockInv,
     CheckLineage, Check, Goto, Ends, sharedVars
<1>6. CurInv'
  BY DEF Inv, TypeOK, CurInv, Committing, CheckLineage, Check, Goto, Ends,
     sharedVars
<1>7. EffectInv'
  BY DEF Inv, TypeOK, PcInv, EffectInv, Visible, CheckLineage, Check, Goto,
     Ends, sharedVars
<1>8. FoundInv'
  <2>1. UNCHANGED <<call, found, todo, nodes>>
    BY DEF CheckLineage, Check, Goto, Ends, sharedVars
  <2>2. \A u \in Threads :
           call[u].op \in NotifyOps /\ outcome'[u] = "Applied" =>
              outcome[u] = "Applied" /\ pc'[u] = pc[u]
    BY DEF Inv, TypeOK, PcInv, Late, Committing, CheckLineage, Check, Goto,
       Ends, sharedVars
  <2>3. \A u \in Threads :
           pc'[u] \in Evaluating =>
              pc[u] \in Evaluating /\ snap'[u] = snap[u]
    BY DEF Inv, TypeOK, Evaluating, CheckLineage, Check, Goto, Ends,
       sharedVars
  <2> QED
    BY <2>1, <2>2, <2>3, FoundFrame DEF Inv
<1> QED
  BY <1>1, <1>2, <1>3, <1>4, <1>5, <1>6, <1>7, <1>8 DEF Inv

\* Stage 4 reads the watermarks.
LEMMA ReadWatermarksInv ==
    ASSUME Inv, NEW t \in Threads, ReadWatermarks(t)
    PROVE  Inv'
<1>1. TypeOK'
  BY DEF Inv, TypeOK, Steps, ReadWatermarks, Check, Goto, Ends, sharedVars
<1>2. PcInv'
  BY DEF Inv, TypeOK, PcInv, SessionSteps, CommitSteps, NotifySteps, Late,
     Committing, CommitOps, NotifyOps, ReadWatermarks, Check, Goto, Ends,
     sharedVars
<1>3. MutexInv'
  BY DEF Inv, TypeOK, MutexInv, Inside, Committing, ReadWatermarks, Check,
     Goto, Ends, sharedVars
<1>4. RecordInv'
  <2>1. UNCHANGED <<call, nodes, lin, indexed, genIndex>>
    BY DEF ReadWatermarks, Check, Goto, Ends, sharedVars
  <2>2. \A u \in Threads :
           /\ Inserted(u)' <=> Inserted(u)
           /\ Inserted(u) => (pc'[u] = "done" <=> pc[u] = "done")
           /\ outcome[u] = "Applied" => outcome'[u] = "Applied"
    BY DEF Inv, TypeOK, PcInv, Inserted, Late, Committing, ReadWatermarks,
       Check, Goto, Ends, sharedVars
  <2>3. \A u \in Threads :
           nodes[u].kind = "RouteGeneration" /\ u = holder => holder' = u
    BY DEF ReadWatermarks, Check, Goto, Ends, sharedVars
  <2> QED
    BY <2>1, <2>2, <2>3, RecordFrame DEF Inv
<1>5. LockInv'
  BY DEF Inv, TypeOK, PcInv, MutexInv, Inside, Committing, LockInv,
     ReadWatermarks, Check, Goto, Ends, sharedVars
<1>6. CurInv'
  BY DEF Inv, TypeOK, CurInv, Committing, ReadWatermarks, Check, Goto, Ends,
     sharedVars
<1>7. EffectInv'
  BY DEF Inv, TypeOK, PcInv, EffectInv, Visible, ReadWatermarks, Check, Goto,
     Ends, sharedVars
<1>8. FoundInv'
  <2>1. UNCHANGED <<call, found, todo, nodes>>
    BY DEF ReadWatermarks, Check, Goto, Ends, sharedVars
  <2>2. \A u \in Threads :
           call[u].op \in NotifyOps /\ outcome'[u] = "Applied" =>
              outcome[u] = "Applied" /\ pc'[u] = pc[u]
    BY DEF Inv, TypeOK, PcInv, Late, Committing, ReadWatermarks, Check, Goto,
       Ends, sharedVars
  <2>3. \A u \in Threads :
           pc'[u] \in Evaluating =>
              pc[u] \in Evaluating /\ snap'[u] = snap[u]
    BY DEF Inv, TypeOK, Evaluating, ReadWatermarks, Check, Goto, Ends,
       sharedVars
  <2> QED
    BY <2>1, <2>2, <2>3, FoundFrame DEF Inv
<1> QED
  BY <1>1, <1>2, <1>3, <1>4, <1>5, <1>6, <1>7, <1>8 DEF Inv

\* Stage 5 checks the caller's liveness and leads to the steps of its
\* operation.
LEMMA CheckLiveInv ==
    ASSUME Inv, NEW t \in Threads, CheckLive(t)
    PROVE  Inv'
<1>1. TypeOK'
  BY DEF Inv, TypeOK, Steps, CheckLive, Check, Goto, Ends, sharedVars
<1>2. PcInv'
  BY CallTyped DEF Inv, TypeOK, PcInv, SessionSteps, CommitSteps,
     NotifySteps, Late, Committing, CommitOps, NotifyOps, CallType,
     CheckLive, Check, Goto, Ends, sharedVars
<1>3. MutexInv'
  BY DEF Inv, TypeOK, MutexInv, Inside, Committing, CheckLive, Check, Goto,
     Ends, sharedVars
<1>4. RecordInv'
  <2>1. UNCHANGED <<call, nodes, lin, indexed, genIndex>>
    BY DEF CheckLive, Check, Goto, Ends, sharedVars
  <2>2. \A u \in Threads :
           /\ Inserted(u)' <=> Inserted(u)
           /\ Inserted(u) => (pc'[u] = "done" <=> pc[u] = "done")
           /\ outcome[u] = "Applied" => outcome'[u] = "Applied"
    BY DEF Inv, TypeOK, PcInv, Inserted, Late, Committing, CheckLive, Check,
       Goto, Ends, sharedVars
  <2>3. \A u \in Threads :
           nodes[u].kind = "RouteGeneration" /\ u = holder => holder' = u
    BY DEF CheckLive, Check, Goto, Ends, sharedVars
  <2> QED
    BY <2>1, <2>2, <2>3, RecordFrame DEF Inv
<1>5. LockInv'
  BY DEF Inv, TypeOK, PcInv, MutexInv, Inside, Committing, LockInv,
     CheckLive, Check, Goto, Ends, sharedVars
<1>6. CurInv'
  BY DEF Inv, TypeOK, CurInv, Committing, CheckLive, Check, Goto, Ends,
     sharedVars
<1>7. EffectInv'
  BY DEF Inv, TypeOK, PcInv, EffectInv, Visible, CheckLive, Check, Goto,
     Ends, sharedVars
<1>8. FoundInv'
  <2>1. UNCHANGED <<call, found, todo, nodes>>
    BY DEF CheckLive, Check, Goto, Ends, sharedVars
  <2>2. \A u \in Threads :
           call[u].op \in NotifyOps /\ outcome'[u] = "Applied" =>
              outcome[u] = "Applied" /\ pc'[u] = pc[u]
    BY DEF Inv, TypeOK, PcInv, Late, Committing, CheckLive, Check, Goto,
       Ends, sharedVars
  <2>3. \A u \in Threads :
           pc'[u] \in Evaluating =>
              pc[u] \in Evaluating /\ snap'[u] = snap[u]
    BY DEF Inv, TypeOK, Evaluating, CheckLive, Check, Goto, Ends, sharedVars
  <2> QED
    BY <2>1, <2>2, <2>3, FoundFrame DEF Inv
<1> QED
  BY <1>1, <1>2, <1>3, <1>4, <1>5, <1>6, <1>7, <1>8 DEF Inv

-----------------------------------------------------------------------------
(* The commit *)

\* The commit takes the mutex where its checks hold, and leaves it free where
\* they do not.
LEMMA LockInvStep ==
    ASSUME Inv, NEW t \in Threads, Lock(t)
    PROVE  Inv'
<1>1. TypeOK'
  BY DEF Inv, TypeOK, Steps, Lock, Check, Goto, Ends, sharedVars
<1>2. PcInv'
  BY DEF Inv, TypeOK, PcInv, SessionSteps, CommitSteps, NotifySteps, Late,
     Committing, CommitOps, NotifyOps, Lock, Check, Goto, Ends, sharedVars
<1>3. MutexInv'
  BY RaceAssumption DEF Inv, TypeOK, MutexInv, Inside, Committing, Lock,
     Check, Goto, Ends, sharedVars
<1>4. RecordInv'
  <2>1. UNCHANGED <<call, nodes, lin, indexed, genIndex>>
    BY DEF Lock, Check, Goto, Ends, sharedVars
  <2>2. \A u \in Threads :
           /\ Inserted(u)' <=> Inserted(u)
           /\ Inserted(u) => (pc'[u] = "done" <=> pc[u] = "done")
           /\ outcome[u] = "Applied" => outcome'[u] = "Applied"
    BY DEF Inv, TypeOK, PcInv, Inserted, Late, Committing, Lock, Check, Goto,
       Ends, sharedVars
  <2>3. \A u \in Threads :
           nodes[u].kind = "RouteGeneration" /\ u = holder => holder' = u
    BY RaceAssumption DEF Lock, Check, Goto, Ends, sharedVars
  <2> QED
    BY <2>1, <2>2, <2>3, RecordFrame DEF Inv
<1>5. LockInv'
  BY RaceAssumption DEF Inv, TypeOK, PcInv, MutexInv, Inside, Committing,
     LockInv, Admissible, Lock, Check, Goto, Ends, sharedVars
<1>6. CurInv'
  BY DEF Inv, TypeOK, CurInv, Committing, Lock, Check, Goto, Ends, sharedVars
<1>7. EffectInv'
  BY DEF Inv, TypeOK, PcInv, EffectInv, Visible, Lock, Check, Goto, Ends,
     sharedVars
<1>8. FoundInv'
  <2>1. UNCHANGED <<call, found, todo, nodes>>
    BY DEF Lock, Check, Goto, Ends, sharedVars
  <2>2. \A u \in Threads :
           call[u].op \in NotifyOps /\ outcome'[u] = "Applied" =>
              outcome[u] = "Applied" /\ pc'[u] = pc[u]
    BY DEF Inv, TypeOK, PcInv, Late, Committing, Lock, Check, Goto, Ends,
       sharedVars
  <2>3. \A u \in Threads :
           pc'[u] \in Evaluating =>
              pc[u] \in Evaluating /\ snap'[u] = snap[u]
    BY DEF Inv, TypeOK, Evaluating, Lock, Check, Goto, Ends, sharedVars
  <2> QED
    BY <2>1, <2>2, <2>3, FoundFrame DEF Inv
<1> QED
  BY <1>1, <1>2, <1>3, <1>4, <1>5, <1>6, <1>7, <1>8 DEF Inv

\* A route record: the new one replaces the current one, which becomes
\* history; the others are left alone.
LEMMA RouteRecords ==
    ASSUME Inv, NEW t \in Threads, Insert(t), InsertRoute(t)
    PROVE  /\ t # lin.cur /\ t # Root
           /\ nodes'[t] = Node("RouteGeneration", call[t].gen, call[t].boot,
                               call[t].path)
           /\ nodes'[lin.cur] = [nodes[lin.cur] EXCEPT
                 !.life = IF lin.cur = Root THEN "Superseded"
                          ELSE "Historical",
                 !.cur = "HistoricalOnly"]
           /\ \A r \in RecordIds \ {t, lin.cur} : nodes'[r] = nodes[r]
           /\ nodes' \in [RecordIds -> Nodes]
<1>1. pc[t] = "insert" /\ outcome[t] # "Applied"
  BY DEF Inv, PcInv, Insert, Goto, Late, Committing
<1>2. nodes[t].kind = "Absent" /\ t \in RecordIds /\ lin.cur \in RecordIds
  BY <1>1 DEF Inv, RecordInv, Inserted, TypeOK, RecordIds
<1>3. t # lin.cur /\ t # Root
  BY <1>2, RaceAssumption DEF Inv, RecordInv
<1> DEFINE new == Node("RouteGeneration", call[t].gen, call[t].boot,
                       call[t].path)
           old == [nodes[lin.cur] EXCEPT
                     !.life = IF lin.cur = Root THEN "Superseded"
                              ELSE "Historical",
                     !.cur = "HistoricalOnly"]
<1>4. nodes' = [nodes EXCEPT ![t] = new, ![lin.cur] = old]
  BY <1>2, <1>3 DEF InsertRoute, Inv, TypeOK
<1>5. new \in Nodes
  BY CallTyped, RaceAssumption
     DEF Inv, CallType, Node, Bind, Nodes, NodeKinds, NodeLifecycles,
         CurrentnessValues
<1>6. old \in Nodes
  <2>1. nodes[lin.cur] \in Nodes
    BY <1>2 DEF Inv, TypeOK
  <2> QED
    BY <2>1 DEF Nodes, NodeLifecycles, CurrentnessValues
<1> HIDE DEF new, old
<1>7. nodes' \in [RecordIds -> Nodes]
  BY <1>2, <1>4, <1>5, <1>6 DEF Inv, TypeOK
<1>8. \A r \in RecordIds : nodes'[r] = IF r = lin.cur THEN old
                                       ELSE IF r = t THEN new ELSE nodes[r]
  BY <1>2, <1>3, <1>4 DEF Inv, TypeOK
<1> QED
  BY <1>2, <1>3, <1>7, <1>8 DEF new, old

\* A retirement: its own record is added and the root retired.
LEMMA RetirementRecords ==
    ASSUME Inv, NEW t \in Threads, Insert(t), InsertRetirement(t)
    PROVE  /\ t # lin.cur /\ t # Root
           /\ nodes'[t] = Node("AdministrativeAction", nodes[Root].gen,
                               call[t].boot, 0)
           /\ nodes'[Root] = [nodes[Root] EXCEPT !.life = "Retired",
                                                 !.cur = "HistoricalOnly"]
           /\ \A r \in RecordIds \ {t, Root} : nodes'[r] = nodes[r]
           /\ nodes' \in [RecordIds -> Nodes]
<1>1. pc[t] = "insert" /\ outcome[t] # "Applied"
  BY DEF Inv, PcInv, Insert, Goto, Late, Committing
<1>2. nodes[t].kind = "Absent" /\ t \in RecordIds /\ Root \in RecordIds
  BY <1>1 DEF Inv, RecordInv, Inserted, TypeOK, RecordIds
<1>3. t # lin.cur /\ t # Root
  BY <1>2, RaceAssumption DEF Inv, RecordInv
<1> DEFINE new == Node("AdministrativeAction", nodes[Root].gen,
                       call[t].boot, 0)
           old == [nodes[Root] EXCEPT !.life = "Retired",
                                      !.cur = "HistoricalOnly"]
<1>4. nodes' = [nodes EXCEPT ![t] = new, ![Root] = old]
  BY <1>2, <1>3 DEF InsertRetirement, Inv, TypeOK
<1>5. nodes[Root] \in Nodes
  BY <1>2 DEF Inv, TypeOK
<1>6. new \in Nodes
  BY <1>5, CallTyped, RaceAssumption
     DEF Inv, CallType, Node, Bind, Nodes, NodeKinds, NodeLifecycles,
         CurrentnessValues
<1>7. old \in Nodes
  BY <1>5 DEF Nodes, NodeLifecycles, CurrentnessValues
<1> HIDE DEF new, old
<1>8. nodes' \in [RecordIds -> Nodes]
  BY <1>2, <1>4, <1>6, <1>7 DEF Inv, TypeOK
<1>9. \A r \in RecordIds : nodes'[r] = IF r = Root THEN old
                                       ELSE IF r = t THEN new ELSE nodes[r]
  BY <1>2, <1>3, <1>4 DEF Inv, TypeOK
<1> QED
  BY <1>2, <1>3, <1>8, <1>9 DEF new, old

\* An insertion adds the record of the thread and, of the others, only
\* demotes.
LEMMA InsertRecords ==
    ASSUME Inv, NEW t \in Threads, Insert(t)
    PROVE  /\ t \in RecordIds /\ Root \in RecordIds /\ t # Root
           /\ t # lin.cur /\ lin.cur \in RecordIds
           /\ nodes' \in [RecordIds -> Nodes]
           /\ nodes'[t].kind = IF call[t].op = "retire"
                               THEN "AdministrativeAction"
                               ELSE "RouteGeneration"
           /\ call[t].op # "retire" => nodes'[t].gen = call[t].gen
           /\ nodes'[t].cur = "HistoricalOnly"
           /\ \A r \in RecordIds \ {t} :
                 /\ nodes'[r].kind = nodes[r].kind
                 /\ nodes'[r].gen = nodes[r].gen
                 /\ nodes'[r].auth = nodes[r].auth
                 /\ nodes'[r].bind = nodes[r].bind
                 /\ nodes'[r].cur \in {nodes[r].cur, "HistoricalOnly"}
                 /\ nodes'[r].life \in {nodes[r].life} \cup Past
                 /\ call[t].op # "retire" /\ r = lin.cur =>
                       /\ nodes'[r].cur = "HistoricalOnly"
                       /\ nodes'[r].life \in Past
<1>1. t \in RecordIds /\ Root \in RecordIds /\ lin.cur \in RecordIds
  BY DEF RecordIds, Inv, TypeOK
<1>2. \A r \in RecordIds :
         /\ nodes[r] \in Nodes
         /\ nodes[r].cur \in CurrentnessValues
         /\ nodes[r].life \in NodeLifecycles
  BY DEF Inv, TypeOK, Nodes
<1>3. CASE call[t].op = "retire"
  <2>1. InsertRetirement(t)
    BY <1>3 DEF Insert
  <2>2. \A r \in RecordIds \ {t, Root} : nodes'[r] = nodes[r]
    BY <2>1, RetirementRecords
  <2>3. /\ nodes'[Root].kind = nodes[Root].kind
        /\ nodes'[Root].gen = nodes[Root].gen
        /\ nodes'[Root].auth = nodes[Root].auth
        /\ nodes'[Root].bind = nodes[Root].bind
        /\ nodes'[Root].cur = "HistoricalOnly"
        /\ nodes'[Root].life = "Retired"
    BY <1>1, <1>2, <2>1, RetirementRecords DEF Nodes
  <2>4. /\ nodes'[t].kind = "AdministrativeAction"
        /\ nodes'[t].cur = "HistoricalOnly"
    <3>1. nodes'[t] = Node("AdministrativeAction", nodes[Root].gen,
                           call[t].boot, 0)
      BY <2>1, RetirementRecords
    <3> QED
      BY <3>1 DEF Node
  <2>5. t # Root /\ t # lin.cur /\ nodes' \in [RecordIds -> Nodes]
    BY <2>1, RetirementRecords
  <2> QED
    BY <1>1, <1>3, <2>2, <2>3, <2>4, <2>5 DEF Past
<1>4. CASE call[t].op # "retire"
  <2>1. InsertRoute(t)
    BY <1>4 DEF Insert
  <2>2. \A r \in RecordIds \ {t, lin.cur} : nodes'[r] = nodes[r]
    BY <2>1, RouteRecords
  <2>3. /\ nodes'[lin.cur].kind = nodes[lin.cur].kind
        /\ nodes'[lin.cur].gen = nodes[lin.cur].gen
        /\ nodes'[lin.cur].auth = nodes[lin.cur].auth
        /\ nodes'[lin.cur].bind = nodes[lin.cur].bind
        /\ nodes'[lin.cur].cur = "HistoricalOnly"
        /\ nodes'[lin.cur].life \in {"Superseded", "Historical"}
    BY <1>1, <1>2, <2>1, RouteRecords DEF Nodes
  <2>4. /\ nodes'[t].kind = "RouteGeneration"
        /\ nodes'[t].gen = call[t].gen
        /\ nodes'[t].cur = "HistoricalOnly"
    <3>1. nodes'[t] = Node("RouteGeneration", call[t].gen, call[t].boot,
                           call[t].path)
      BY <2>1, RouteRecords
    <3> QED
      BY <3>1 DEF Node
  <2>5. t # Root /\ t # lin.cur /\ nodes' \in [RecordIds -> Nodes]
    BY <2>1, RouteRecords
  <2> QED
    BY <1>1, <1>4, <2>2, <2>3, <2>4, <2>5 DEF Past
<1> QED
  BY <1>3, <1>4

\* The lineage after an insertion, and what the commit has to recompute.
LEMMA InsertLineage ==
    ASSUME Inv, NEW t \in Threads, Insert(t)
    PROVE  /\ lin' \in [life : {"Active", "Retired"}, gen : 1..MaxGen,
                        cur : RecordIds, lgen : Nat]
           /\ todo' \in [Threads -> SUBSET RecordIds]
           /\ \A u \in Threads \ {t} : todo'[u] = todo[u]
           /\ call[t].op = "retire" =>
                 /\ lin'.life = "Retired" /\ lin'.gen = lin.gen
                 /\ lin'.cur = lin.cur /\ todo'[t] = {t, Root}
           /\ call[t].op # "retire" =>
                 /\ lin'.life = lin.life /\ lin'.gen = call[t].gen
                 /\ lin'.cur = t /\ todo'[t] = {t, Root, lin.cur}
<1>1. t \in RecordIds /\ Root \in RecordIds
  BY DEF RecordIds
<1>2. lin \in [life : {"Active", "Retired"}, gen : 1..MaxGen,
               cur : RecordIds, lgen : Nat]
      /\ todo \in [Threads -> SUBSET RecordIds]
  BY DEF Inv, TypeOK
<1>3. call[t].gen \in 1..MaxGen
  BY CallTyped DEF Inv, CallType
<1>4. CASE call[t].op = "retire"
  <2>1. lin' = [lin EXCEPT !.life = "Retired", !.lgen = @ + 1]
    BY <1>4 DEF Insert, InsertRetirement
  <2>2. todo' = [todo EXCEPT ![t] = {t, Root}]
    BY <1>4 DEF Insert, InsertRetirement
  <2>3. /\ todo' \in [Threads -> SUBSET RecordIds]
        /\ todo'[t] = {t, Root}
        /\ \A u \in Threads \ {t} : todo'[u] = todo[u]
    BY <1>1, <1>2, <2>2
  <2>4. lin'.life = "Retired" /\ lin'.gen = lin.gen /\ lin'.cur = lin.cur
    BY <1>2, <2>1
  <2>5. lin' \in [life : {"Active", "Retired"}, gen : 1..MaxGen,
                  cur : RecordIds, lgen : Nat]
    <3>1. lin' = [life |-> "Retired", gen |-> lin.gen, cur |-> lin.cur,
                  lgen |-> lin.lgen + 1]
      BY <1>2, <2>1
    <3>2. lin.gen \in 1..MaxGen /\ lin.cur \in RecordIds /\ lin.lgen \in Nat
      BY <1>2
    <3>3. lin.lgen + 1 \in Nat
      BY <3>2
    <3> QED
      BY <3>1, <3>2, <3>3
  <2> QED
    BY <1>4, <2>3, <2>4, <2>5
<1>5. CASE call[t].op # "retire"
  <2>1. lin' = [lin EXCEPT !.gen = call[t].gen, !.cur = t, !.lgen = @ + 1]
    BY <1>5 DEF Insert, InsertRoute
  <2>2. todo' = [todo EXCEPT ![t] = {t, Root, lin.cur}]
    BY <1>5 DEF Insert, InsertRoute
  <2>3. /\ todo' \in [Threads -> SUBSET RecordIds]
        /\ todo'[t] = {t, Root, lin.cur}
        /\ \A u \in Threads \ {t} : todo'[u] = todo[u]
    BY <1>1, <1>2, <2>2
  <2>4. lin'.life = lin.life /\ lin'.gen = call[t].gen /\ lin'.cur = t
    BY <1>2, <2>1
  <2>5. lin' \in [life : {"Active", "Retired"}, gen : 1..MaxGen,
                  cur : RecordIds, lgen : Nat]
    <3>1. lin' = [life |-> lin.life, gen |-> call[t].gen, cur |-> t,
                  lgen |-> lin.lgen + 1]
      BY <1>2, <2>1
    <3>2. lin.life \in {"Active", "Retired"} /\ lin.lgen \in Nat
      BY <1>2
    <3>3. lin.lgen + 1 \in Nat
      BY <3>2
    <3> QED
      BY <1>1, <1>3, <3>1, <3>2, <3>3
  <2> QED
    BY <1>5, <2>3, <2>4, <2>5
<1> QED
  BY <1>4, <1>5

\* The watermarks after an insertion.
LEMMA InsertMarks ==
    ASSUME Inv, NEW t \in Threads, Insert(t)
    PROVE  /\ marks' \in Marks
           /\ marks'.path = marks.path /\ marks'.epoch = marks.epoch
           /\ marks'.store = marks.store + 1
<1>1. marks \in Marks
  BY DEF Inv, TypeOK
<1>2. marks' = [marks EXCEPT !.store = marks.store + 1]
  BY DEF Insert
<1>3. marks.store + 1 \in Nat
  BY <1>1 DEF Marks
<1> QED
  BY <1>1, <1>2, <1>3 DEF Marks

\* Stage 14: the record is inserted under the mutex.
LEMMA InsertInv ==
    ASSUME Inv, NEW t \in Threads, Insert(t)
    PROVE  Inv'
<1>1. /\ pc[t] = "insert" /\ outcome[t] = "Pending" /\ holder = t
      /\ call[t].op \in CommitOps
      /\ pc' = [pc EXCEPT ![t] = "marks1"]
      /\ outcome' = [outcome EXCEPT ![t] = "Applied"]
      /\ UNCHANGED <<call, snap, captured, found, holder, live, indexed,
                     genIndex>>
  BY DEF Inv, TypeOK, PcInv, MutexInv, Inside, Late, Committing,
         CommitSteps, Insert, Goto, Ends
<1>2. /\ \A u \in Threads \ {t} : pc'[u] = pc[u] /\ outcome'[u] = outcome[u]
      /\ pc'[t] = "marks1" /\ outcome'[t] = "Applied"
  BY <1>1 DEF Inv, TypeOK
<1>3. \A u \in Threads \ {t} : pc[u] \notin Inside
  BY <1>1 DEF Inv, MutexInv
<1>4. TypeOK'
  BY <1>1, InsertRecords, InsertLineage, InsertMarks DEF Inv, TypeOK, Steps
<1>5. PcInv'
  BY <1>1, <1>2 DEF Inv, PcInv, SessionSteps, CommitSteps, NotifySteps,
                    Late, Committing, CommitOps
<1>6. MutexInv'
  BY <1>1, <1>2 DEF Inv, MutexInv, Inside, Committing
<1>7. RecordInv'
  <2>1. \A u \in Threads : Inserted(u)' <=> Inserted(u) \/ u = t
    BY <1>1, <1>2 DEF Inserted
  <2>2. ~Inserted(t)
    BY <1>1 DEF Inserted
  <2>3. nodes'[Root].kind = "RouteGeneration"
    BY InsertRecords DEF Inv, RecordInv
  <2>4. \A u \in Threads :
           /\ nodes'[u].kind = "Absent" <=> ~Inserted(u)'
           /\ u \in indexed' <=> Inserted(u)' /\ pc'[u] = "done"
    BY <1>1, <1>2, <2>1, <2>2, InsertRecords
       DEF Inv, RecordInv, RecordIds
  <2>5. call[t].op # "retire" => call[t].gen \notin genIndex
    BY <1>1 DEF Inv, LockInv
  <2>6. ~Shared => \A r \in RecordIds :
           nodes[r].kind = "RouteGeneration" => nodes[r].gen \in genIndex
    BY <1>1, <2>2 DEF Inv, RecordInv
  <2>7. Shared' <=> Shared
    BY <1>1, <1>2 DEF Shared, CommitOps
  <2>8. ~Shared => \A m, n \in RecordIds :
           /\ nodes'[m].kind = "RouteGeneration"
           /\ nodes'[n].kind = "RouteGeneration"
           /\ nodes'[m].gen = nodes'[n].gen
           => m = n
    BY <2>5, <2>6, InsertRecords DEF Inv, RecordInv
  <2>9. ~Shared => \A r \in RecordIds :
           nodes'[r].kind = "RouteGeneration" =>
              \/ nodes'[r].gen \in genIndex'
              \/ /\ r \in Threads /\ r = holder'
                 /\ call'[r].op # "retire" /\ call'[r].gen = nodes'[r].gen
    BY <1>1, <2>6, InsertRecords
  <2>10. nodes'[lin'.cur].kind = "RouteGeneration"
        /\ nodes'[lin'.cur].gen = lin'.gen
    BY InsertRecords, InsertLineage DEF Inv, RecordInv
  <2> QED
    BY <1>1, <2>3, <2>4, <2>7, <2>8, <2>9, <2>10 DEF Inv, RecordInv
<1>8. LockInv'
  BY <1>2, <1>3 DEF LockInv, Inside
<1>9. CurInv'
  <2>1. call[t].op # "retire" => lin'.life # "Retired"
    BY <1>1, InsertLineage DEF Inv, LockInv
  <2>2. \A r \in RecordIds :
           nodes'[r].kind = "RouteGeneration" /\ r # lin'.cur =>
              nodes'[r].life \in Past /\ nodes'[r].cur # "Current"
    BY InsertRecords, InsertLineage DEF Inv, CurInv
  <2>3. \A r \in RecordIds : nodes'[r].kind # "RouteGeneration" =>
           /\ nodes'[r].cur # "Current"
           /\ nodes'[r].kind # "Absent" => lin'.life = "Retired"
    BY InsertRecords, InsertLineage DEF Inv, CurInv
  <2>4. \A u \in Threads : todo[u] \subseteq RecordIds
    BY DEF Inv, TypeOK
  <2>5. \A u \in Threads : \A r \in todo'[u] : nodes'[r].kind # "Absent"
    BY <2>4, InsertRecords, InsertLineage DEF Inv, CurInv, RecordInv
  <2>6. \A u \in Threads : pc'[u] \notin {"marks2", "eval2"}
    BY <1>2, <1>3 DEF Inside, Committing
  <2>7. lin'.life = "Retired" =>
           \A r \in RecordIds : nodes'[r].cur = "Current" => r = lin'.cur
    BY <2>1, <2>2, <2>3
  <2>8. pc'[t] \in Committing \ {"index"}
    BY <1>2 DEF Committing
  <2> QED
    BY <2>2, <2>3, <2>5, <2>6, <2>7, <2>8 DEF CurInv
<1>10. t \notin indexed
  BY <1>1 DEF Inv, RecordInv
<1>11. indexed \subseteq RecordIds
  BY DEF Inv, TypeOK
<1>12. EffectInv'
  BY <1>1, <1>2, <1>10, <1>11, InsertRecords, InsertMarks
     DEF Inv, EffectInv, Visible, CommitOps, NotifyOps
<1>13. FoundInv'
  <2>1. call[t].op \notin NotifyOps
    BY <1>1 DEF CommitOps, NotifyOps
  <2>2. \A u \in Threads : pc'[u] \notin Evaluating
    BY <1>2, <1>3 DEF Inside, Committing, Evaluating
  <2>3. ASSUME NEW u \in Threads, call[u].op \in NotifyOps,
               outcome'[u] = "Applied"
        PROVE  /\ u # t /\ pc'[u] = pc[u] /\ outcome[u] = "Applied"
               /\ found[u] \subseteq RecordIds \ {t} /\ todo'[u] = todo[u]
    BY <1>2, <1>10, <1>11, <2>1, <2>3, InsertLineage DEF Inv, EffectInv
  <2>4. \A r \in RecordIds \ {t} :
           nodes[r].cur # "Current" => nodes'[r].cur # "Current"
    BY InsertRecords
  <2> QED
    BY <1>1, <2>2, <2>3, <2>4 DEF Inv, FoundInv
<1> QED
  BY <1>4, <1>5, <1>6, <1>7, <1>8, <1>9, <1>12, <1>13 DEF Inv

\* reevaluate_nodes reads the watermarks, which show what every notification
\* that took effect has announced.
LEMMA ReadMarksInv ==
    ASSUME Inv, NEW t \in Threads, NEW from, NEW to,
           <<from, to>> \in {<<"marks1", "eval1">>, <<"marks2", "eval2">>,
                             <<"marks", "eval">>},
           ReadMarks(t, from, to)
    PROVE  Inv'
<1>1. /\ pc[t] = from /\ holder = t
      /\ pc' = [pc EXCEPT ![t] = to]
      /\ snap' = [snap EXCEPT ![t] = marks]
      /\ UNCHANGED <<call, captured, todo, found, outcome, holder, lin,
                     nodes, marks, live, indexed, genIndex>>
  BY DEF Inv, MutexInv, Inside, Committing, ReadMarks, Goto, sharedVars
<1>2. /\ \A u \in Threads \ {t} : pc'[u] = pc[u] /\ snap'[u] = snap[u]
      /\ pc'[t] = to /\ snap'[t] = marks
  BY <1>1 DEF Inv, TypeOK
<1>3. \A u \in Threads \ {t} : pc[u] \notin Inside
  BY <1>1 DEF Inv, MutexInv
<1>4. TypeOK'
  BY <1>1 DEF Inv, TypeOK, Steps
<1>5. PcInv'
  BY <1>1, <1>2 DEF Inv, PcInv, SessionSteps, CommitSteps, NotifySteps,
                    Late, Committing
<1>6. MutexInv'
  BY <1>1, <1>2 DEF Inv, MutexInv, Inside, Committing
<1>7. RecordInv'
  <2>1. \A u \in Threads :
           /\ Inserted(u)' <=> Inserted(u)
           /\ Inserted(u) => (pc'[u] = "done" <=> pc[u] = "done")
           /\ outcome[u] = "Applied" => outcome'[u] = "Applied"
    BY <1>1, <1>2 DEF Inserted
  <2> QED
    BY <1>1, <2>1, RecordFrame DEF Inv
<1>8. LockInv'
  BY <1>1, <1>2 DEF Inv, LockInv
<1>9. CurInv'
  BY <1>1, <1>2 DEF Inv, CurInv, Committing
<1>10. EffectInv'
  BY <1>1 DEF Inv, EffectInv, Visible
<1>11. FoundInv'
  <2>1. ASSUME NEW u \in Threads, call[u].op \in NotifyOps,
               outcome[u] = "Applied"
        PROVE  /\ pc'[u] \in {"relock", "marks"} => todo[u] = found[u]
               /\ pc'[u] \in {"unlock", "done"} => todo[u] = {}
               /\ pc'[u] \in {"eval", "unlock", "done"} =>
                     \A r \in found[u] \ todo[u] : nodes[r].cur # "Current"
    BY <1>1, <1>2, <2>1 DEF Inv, FoundInv, PcInv, CommitSteps, CommitOps,
                            NotifyOps
  <2>2. ASSUME NEW u \in Threads, call[u].op \in NotifyOps,
               outcome[u] = "Applied", NEW v \in Threads,
               pc'[v] \in Evaluating
        PROVE  Visible(u, snap[v])'
    <3>1. v = t
      BY <1>2, <1>3, <2>2 DEF Inside, Committing, Evaluating
    <3> QED
      BY <1>1, <1>2, <2>2, <3>1 DEF Inv, EffectInv, Visible
  <2> QED
    BY <1>1, <2>1, <2>2 DEF FoundInv
<1> QED
  BY <1>4, <1>5, <1>6, <1>7, <1>8, <1>9, <1>10, <1>11 DEF Inv

\* A record of the lineage is recomputed.  What it becomes is CURRENT only if
\* it is the current record of an open lineage, and never if a notification
\* past its lock found it.
LEMMA EvaluateInv ==
    ASSUME Inv, NEW t \in Threads, NEW from, NEW to, NEW next,
           \/ from = "eval1" /\ to = "marks2" /\ next = {lin.cur}
           \/ from = "eval2" /\ to = "index" /\ next = {}
           \/ from = "eval" /\ to = "unlock" /\ next = {},
           Evaluate(t, from, to, next)
    PROVE  Inv'
<1>1. PICK r \in todo[t] :
        /\ pc' = [pc EXCEPT ![t] = IF todo[t] = {r} THEN to ELSE from]
        /\ nodes' = [nodes EXCEPT ![r].cur =
              compute_currentness(lin, nodes[r], snap[t],
                 IF nodes[r].auth.boot \in live THEN "Live" ELSE "Fenced")]
        /\ todo' = [todo EXCEPT ![t] = IF @ = {r} THEN next ELSE @ \ {r}]
  BY DEF Evaluate, Goto
<1>2. /\ pc[t] = from /\ holder = t /\ r \in RecordIds
      /\ UNCHANGED <<call, snap, captured, found, outcome, holder, lin,
                     marks, live, indexed, genIndex>>
  BY DEF Inv, TypeOK, MutexInv, Inside, Committing, Evaluate, Goto
<1> DEFINE c == compute_currentness(lin, nodes[r], snap[t],
                   IF nodes[r].auth.boot \in live THEN "Live" ELSE "Fenced")
<1>3. /\ \A u \in Threads \ {t} : pc'[u] = pc[u] /\ todo'[u] = todo[u]
      /\ pc'[t] = IF todo[t] = {r} THEN to ELSE from
      /\ todo'[t] = IF todo[t] = {r} THEN next ELSE todo[t] \ {r}
  BY <1>1 DEF Inv, TypeOK
<1>4. c \in CurrentnessValues
  BY CurrentnessTyped
<1>5. nodes' = [nodes EXCEPT ![r].cur = c]
  BY <1>1
<1>6. nodes[r] \in Nodes
  BY <1>2 DEF Inv, TypeOK
<1> HIDE DEF c
<1>7. /\ nodes' \in [RecordIds -> Nodes]
      /\ \A q \in RecordIds :
            /\ nodes'[q].kind = nodes[q].kind
            /\ nodes'[q].gen = nodes[q].gen
            /\ nodes'[q].auth = nodes[q].auth
            /\ nodes'[q].bind = nodes[q].bind
            /\ nodes'[q].life = nodes[q].life
            /\ nodes'[q].cur = IF q = r THEN c ELSE nodes[q].cur
  <2>1. [nodes[r] EXCEPT !.cur = c] \in Nodes
    BY <1>4, <1>6 DEF Nodes
  <2>2. nodes' = [nodes EXCEPT ![r] = [nodes[r] EXCEPT !.cur = c]]
    BY <1>2, <1>5 DEF Inv, TypeOK
  <2>3. nodes' \in [RecordIds -> Nodes]
    BY <2>1, <2>2 DEF Inv, TypeOK
  <2>4. \A q \in RecordIds :
           nodes'[q] = IF q = r THEN [nodes[r] EXCEPT !.cur = c]
                       ELSE nodes[q]
    BY <2>2 DEF Inv, TypeOK
  <2>5. /\ nodes'[r].kind = nodes[r].kind
        /\ nodes'[r].gen = nodes[r].gen
        /\ nodes'[r].auth = nodes[r].auth
        /\ nodes'[r].bind = nodes[r].bind
        /\ nodes'[r].life = nodes[r].life
        /\ nodes'[r].cur = c
    BY <1>2, <1>6, <2>4 DEF Nodes
  <2>6. \A q \in RecordIds \ {r} : nodes'[q] = nodes[q]
    BY <2>4
  <2> QED
    BY <2>3, <2>5, <2>6
<1>8. \A u \in Threads \ {t} : pc[u] \notin Inside
  BY <1>2 DEF Inv, MutexInv
<1>9. TypeOK'
  <2>1. pc' \in [Threads -> Steps]
    BY <1>1 DEF Inv, TypeOK, Steps
  <2>2. todo' \in [Threads -> SUBSET RecordIds]
    BY <1>1 DEF Inv, TypeOK
  <2> QED
    BY <1>2, <1>7, <2>1, <2>2 DEF Inv, TypeOK
<1>10. PcInv'
  BY <1>2, <1>3 DEF Inv, PcInv, SessionSteps, CommitSteps, NotifySteps,
                    Late, Committing
<1>11. MutexInv'
  BY <1>2, <1>3 DEF Inv, MutexInv, Inside, Committing
<1>12. RecordInv'
  <2>1. \A u \in Threads :
           /\ Inserted(u)' <=> Inserted(u)
           /\ pc'[u] = "done" <=> pc[u] = "done"
    BY <1>2, <1>3 DEF Inserted
  <2>2. Root \in RecordIds /\ lin.cur \in RecordIds
        /\ \A u \in Threads : u \in RecordIds
    BY DEF Inv, TypeOK, RecordIds
  <2>3. Shared' <=> Shared
    BY <1>2 DEF Shared
  <2> QED
    BY <1>2, <1>7, <2>1, <2>2, <2>3 DEF Inv, RecordInv
<1>13. LockInv'
  BY <1>2, <1>3 DEF Inv, LockInv
<1>14. c = "Current" => lin.life # "Retired" /\ nodes[r].life \notin Past
  BY PastIsHistory DEF c
<1>15. nodes[r].kind # "RouteGeneration" => lin.life = "Retired"
  BY <1>2 DEF Inv, CurInv
<1>16. CurInv'
  <2>1. \A q \in RecordIds :
           nodes'[q].kind = "RouteGeneration" /\ q # lin'.cur =>
              nodes'[q].life \in Past /\ nodes'[q].cur # "Current"
    BY <1>2, <1>7, <1>14 DEF Inv, CurInv
  <2>2. \A q \in RecordIds : nodes'[q].kind # "RouteGeneration" =>
           /\ nodes'[q].cur # "Current"
           /\ nodes'[q].kind # "Absent" => lin'.life = "Retired"
    BY <1>2, <1>7, <1>14, <1>15 DEF Inv, CurInv
  <2>3. lin.cur \in RecordIds /\ nodes[lin.cur].kind # "Absent"
        /\ \A u \in Threads : todo[u] \subseteq RecordIds
    BY DEF Inv, TypeOK, RecordInv
  <2>4. \A u \in Threads : \A q \in todo'[u] : nodes'[q].kind # "Absent"
    BY <1>3, <1>7, <2>3 DEF Inv, CurInv
  <2>5. \A u \in Threads : pc'[u] \in {"marks2", "eval2"} =>
           todo'[u] = {lin'.cur}
    BY <1>2, <1>3 DEF Inv, CurInv
  <2>6. ASSUME lin.life = "Retired", NEW q \in RecordIds,
               nodes'[q].cur = "Current"
        PROVE  q = lin.cur
               /\ \E u \in Threads : pc'[u] \in Committing \ {"index"}
    <3>1. q # r /\ nodes[q].cur = "Current"
      BY <1>7, <1>14, <2>6
    <3>2. q = lin.cur /\ pc[t] \in Committing \ {"index"}
      BY <1>8, <2>6, <3>1 DEF Inv, CurInv, Inside
    <3>3. pc'[t] # "index"
      BY <1>2, <1>3, <3>1, <3>2 DEF Inv, CurInv
    <3>4. pc'[t] \in Committing \ {"index"}
      BY <1>2, <1>3, <3>2, <3>3 DEF Committing
    <3> QED
      BY <3>2, <3>4
  <2> QED
    BY <1>2, <2>1, <2>2, <2>4, <2>5, <2>6 DEF CurInv
<1>17. EffectInv'
  BY <1>2, <1>7 DEF Inv, EffectInv, Visible, TypeOK
<1>18. ASSUME NEW u \in Threads, call[u].op \in NotifyOps,
              outcome[u] = "Applied", Visible(u, snap[t]), r \in found[u]
       PROVE  c # "Current"
  <2>1. /\ nodes[r].auth.epoch = 1 /\ ~nodes[r].reval
        /\ nodes[r].bind.path \in Nat /\ snap[t].path \in Nat
        /\ call[u].path \in Nat
    BY <1>6, CallTyped DEF Inv, TypeOK, Nodes, Marks, CallType
  <2>2. SUFFICES ASSUME c = "Current" PROVE FALSE
    OBVIOUS
  <2>3. /\ ~differs(nodes[r].bind.path, snap[t].path)
        /\ snap[t].epoch # 0 => nodes[r].auth.epoch = snap[t].epoch
        /\ nodes[r].auth.boot \in live
    BY <2>1, <2>2, CurrentNeeds DEF c
  <2>4. CASE call[u].op = "fence"
    BY <1>18, <2>3, <2>4 DEF Inv, EffectInv
  <2>5. CASE call[u].op = "announce"
    BY <1>18, <2>1, <2>3, <2>5 DEF Inv, EffectInv, Visible, differs
  <2>6. CASE call[u].op = "advance_epoch"
    BY <1>18, <2>1, <2>3, <2>6 DEF Visible
  <2> QED
    BY <1>18, <2>4, <2>5, <2>6 DEF NotifyOps
<1>19. FoundInv'
  <2>1. ASSUME NEW u \in Threads, call[u].op \in NotifyOps,
               outcome[u] = "Applied"
        PROVE  /\ pc'[u] \in {"relock", "marks"} => todo'[u] = found[u]
               /\ pc'[u] \in {"unlock", "done"} => todo'[u] = {}
    BY <1>2, <1>3, <2>1 DEF Inv, FoundInv, PcInv, CommitSteps, CommitOps,
                            NotifyOps
  <2>2. ASSUME NEW u \in Threads, call[u].op \in NotifyOps,
               outcome[u] = "Applied", pc'[u] \in {"eval", "unlock", "done"}
        PROVE  /\ pc[u] \in {"eval", "unlock", "done"}
               /\ found[u] \subseteq RecordIds
               /\ \A q \in found[u] \ todo'[u] : q = r \/ q \notin todo[u]
    BY <1>2, <1>3, <2>2 DEF Inv, TypeOK, PcInv, CommitSteps, CommitOps,
                            NotifyOps
  <2>3. ASSUME NEW u \in Threads, call[u].op \in NotifyOps,
               outcome[u] = "Applied", pc'[u] \in {"eval", "unlock", "done"},
               NEW q \in found[u] \ todo'[u]
        PROVE  nodes'[q].cur # "Current"
    <3>1. Visible(u, snap[t])
      BY <1>2, <2>2, <2>3 DEF Inv, FoundInv, Evaluating
    <3>2. CASE q = r
      BY <1>2, <1>7, <1>18, <2>3, <3>1, <3>2
    <3>3. CASE q # r
      BY <1>7, <2>2, <2>3, <3>3 DEF Inv, FoundInv
    <3> QED
      BY <3>2, <3>3
  <2>4. ASSUME NEW u \in Threads, call[u].op \in NotifyOps,
               outcome[u] = "Applied", pc'[u] \in {"eval", "unlock", "done"},
               found[u] # {}, NEW v \in Threads, pc'[v] \in Evaluating
        PROVE  Visible(u, snap[v])'
    <3>1. pc[v] \in Evaluating
      BY <1>2, <1>3, <2>4 DEF Evaluating
    <3> QED
      BY <1>2, <2>2, <2>4, <3>1 DEF Inv, FoundInv, Visible
  <2> QED
    BY <1>2, <2>1, <2>2, <2>3, <2>4 DEF FoundInv
<1> QED
  BY <1>9, <1>10, <1>11, <1>12, <1>13, <1>16, <1>17, <1>19 DEF Inv

\* The reevaluation after a commit.
LEMMA ReevaluateInv ==
    ASSUME Inv, NEW t \in Threads, Reevaluate(t)
    PROVE  Inv'
<1>1. CASE ReadMarks(t, "marks1", "eval1")
  BY <1>1, ReadMarksInv
<1>2. CASE Evaluate(t, "eval1", "marks2", {lin.cur})
  BY <1>2, EvaluateInv
<1>3. CASE ReadMarks(t, "marks2", "eval2")
  BY <1>3, ReadMarksInv
<1>4. CASE Evaluate(t, "eval2", "index", {})
  BY <1>4, EvaluateInv
<1> QED
  BY <1>1, <1>2, <1>3, <1>4 DEF Reevaluate

\* The record is entered in the indexes with the release of the mutex.
LEMMA IndexInv ==
    ASSUME Inv, NEW t \in Threads, Index(t)
    PROVE  Inv'
<1>1. /\ pc[t] = "index" /\ holder = t /\ call[t].op \in CommitOps
      /\ outcome[t] = "Applied"
      /\ pc' = [pc EXCEPT ![t] = "done"]
      /\ indexed' = indexed \cup {t}
      /\ genIndex' = IF call[t].op = "retire" THEN genIndex
                     ELSE genIndex \cup {call[t].gen}
      /\ holder' = None
      /\ UNCHANGED <<call, snap, captured, todo, found, outcome, lin, nodes,
                     marks, live>>
  BY DEF Inv, PcInv, MutexInv, Inside, Late, Committing, CommitSteps, Index,
         Goto, threadVars
<1>2. /\ \A u \in Threads \ {t} : pc'[u] = pc[u]
      /\ pc'[t] = "done"
  BY <1>1 DEF Inv, TypeOK
<1>3. \A u \in Threads \ {t} : pc[u] \notin Inside
  BY <1>1 DEF Inv, MutexInv
<1>4. call[t].gen \in 1..MaxGen /\ t \in RecordIds
  BY CallTyped DEF Inv, CallType, RecordIds
<1>5. TypeOK'
  BY <1>1, <1>4 DEF Inv, TypeOK, Steps
<1>6. PcInv'
  BY <1>1, <1>2 DEF Inv, PcInv, SessionSteps, CommitSteps, NotifySteps
<1>7. MutexInv'
  BY <1>1, <1>2, <1>3, RaceAssumption DEF MutexInv, Inside, Committing
<1>8. RecordInv'
  <2>1. \A u \in Threads : Inserted(u)' <=> Inserted(u)
    BY <1>1 DEF Inserted
  <2>2. Inserted(t)
    BY <1>1 DEF Inserted
  <2>3. \A u \in Threads :
           u \in indexed' <=> Inserted(u)' /\ pc'[u] = "done"
    BY <1>1, <1>2, <2>1, <2>2 DEF Inv, RecordInv
  <2>4. ~Shared => \A r \in RecordIds :
           nodes[r].kind = "RouteGeneration" => nodes[r].gen \in genIndex'
    BY <1>1 DEF Inv, RecordInv
  <2>5. Shared' <=> Shared
    BY <1>1 DEF Shared
  <2> QED
    BY <1>1, <2>1, <2>3, <2>4, <2>5 DEF Inv, RecordInv
<1>9. LockInv'
  BY <1>2, <1>3 DEF LockInv, Inside
<1>10. CurInv'
  <2>1. \A u \in Threads : pc[u] \notin Committing \ {"index"}
    BY <1>1, <1>3 DEF Inside, Committing
  <2> QED
    BY <1>1, <1>2, <2>1 DEF Inv, CurInv
<1>11. EffectInv'
  BY <1>1 DEF Inv, EffectInv, Visible
<1>12. FoundInv'
  BY <1>1, <1>2 DEF Inv, FoundInv, Visible, CommitOps, NotifyOps, Evaluating
<1> QED
  BY <1>5, <1>6, <1>7, <1>8, <1>9, <1>10, <1>11, <1>12 DEF Inv

-----------------------------------------------------------------------------
(* The notifications *)

\* A fence takes the victim's session away.
LEMMA FenceInv ==
    ASSUME Inv, NEW t \in Threads, Fence(t)
    PROVE  Inv'
<1>1. /\ pc[t] = "fence" /\ call[t].op = "fence" /\ outcome[t] = "Pending"
      /\ pc' = [pc EXCEPT ![t] = "collect"]
      /\ live' = live \ {call[t].victim}
      /\ outcome' = [outcome EXCEPT ![t] = "Applied"]
      /\ UNCHANGED <<call, snap, captured, todo, found, holder, lin, nodes,
                     marks, indexed, genIndex>>
  BY DEF Inv, TypeOK, PcInv, Late, Committing, Fence, Goto, Ends
<1>2. /\ \A u \in Threads \ {t} : pc'[u] = pc[u] /\ outcome'[u] = outcome[u]
      /\ pc'[t] = "collect" /\ outcome'[t] = "Applied"
  BY <1>1 DEF Inv, TypeOK
<1>3. found[t] = {}
  BY <1>1 DEF Inv, PcInv
<1>4. TypeOK'
  BY <1>1 DEF Inv, TypeOK, Steps
<1>5. PcInv'
  BY <1>1, <1>2 DEF Inv, PcInv, SessionSteps, CommitSteps, NotifySteps,
                    Late, Committing, NotifyOps
<1>6. MutexInv'
  BY <1>1, <1>2 DEF Inv, MutexInv, Inside, Committing
<1>7. RecordInv'
  <2>1. \A u \in Threads :
           /\ Inserted(u)' <=> Inserted(u)
           /\ Inserted(u) => (pc'[u] = "done" <=> pc[u] = "done")
           /\ outcome[u] = "Applied" => outcome'[u] = "Applied"
    BY <1>1, <1>2 DEF Inserted, CommitOps
  <2> QED
    BY <1>1, <2>1, RecordFrame DEF Inv
<1>8. LockInv'
  BY <1>1, <1>2 DEF Inv, LockInv
<1>9. CurInv'
  BY <1>1, <1>2 DEF Inv, CurInv, Committing
<1>10. EffectInv'
  <2>1. \A u \in Threads :
           (Visible(u, marks)' <=> Visible(u, marks)) /\ Visible(t, marks)
    BY <1>1 DEF Visible
  <2> QED
    BY <1>1, <1>2, <1>3, <2>1 DEF Inv, EffectInv
<1>11. FoundInv'
  BY <1>1, <1>2, <1>3 DEF Inv, FoundInv, Visible, Evaluating
<1> QED
  BY <1>4, <1>5, <1>6, <1>7, <1>8, <1>9, <1>10, <1>11 DEF Inv

\* The copied records are the affected ones.
LEMMA AffectedRecords ==
    ASSUME Inv, NEW t \in Threads, CopyAffected(t), call[t].op \in NotifyOps
    PROVE  /\ found' \in [Threads -> SUBSET RecordIds]
           /\ todo' \in [Threads -> SUBSET RecordIds]
           /\ \A u \in Threads \ {t} : found'[u] = found[u]
                                       /\ todo'[u] = todo[u]
           /\ found'[t] = todo'[t] /\ found'[t] \subseteq indexed
           /\ indexed \subseteq RecordIds
           /\ \A r \in found'[t] :
                 /\ nodes[r].kind # "Absent"
                 /\ call[t].op = "fence" =>
                       nodes[r].auth.boot = call[t].victim
                 /\ call[t].op = "announce" =>
                       /\ nodes[r].bind.path # 0
                       /\ nodes[r].bind.path < call[t].path
<1>1. Affected(t) \subseteq indexed /\ indexed \subseteq RecordIds
  BY DEF Affected, Inv, TypeOK
<1>2. /\ found' = [found EXCEPT ![t] = Affected(t)]
      /\ todo' = [todo EXCEPT ![t] = Affected(t)]
  BY DEF CopyAffected
<1>3. \A r \in Affected(t) :
         /\ call[t].op = "fence" => nodes[r].auth.boot = call[t].victim
         /\ call[t].op = "announce" =>
               nodes[r].bind.path # 0 /\ nodes[r].bind.path < call[t].path
  BY DEF Affected
<1>4. \A r \in indexed : nodes[r].kind # "Absent"
  BY <1>1 DEF Inv, RecordInv, RecordIds
<1>5. found'[t] = Affected(t) /\ todo'[t] = Affected(t)
  BY <1>2 DEF Inv, TypeOK
<1>6. \A u \in Threads \ {t} : found'[u] = found[u] /\ todo'[u] = todo[u]
  BY <1>2 DEF Inv, TypeOK
<1>7. /\ found' \in [Threads -> SUBSET RecordIds]
      /\ todo' \in [Threads -> SUBSET RecordIds]
  BY <1>1, <1>2 DEF Inv, TypeOK
<1> QED
  BY <1>1, <1>3, <1>4, <1>5, <1>6, <1>7

\* An announcement raises the path authority and copies what it affects.
LEMMA AnnouncePathInv ==
    ASSUME Inv, NEW t \in Threads, AnnouncePath(t)
    PROVE  Inv'
<1>1. /\ pc[t] = "announce" /\ call[t].op = "announce"
      /\ outcome[t] = "Pending" /\ call[t].path > marks.path
      /\ pc' = [pc EXCEPT ![t] = "relock"]
      /\ outcome' = [outcome EXCEPT ![t] = "Applied"]
      /\ marks' = [marks EXCEPT !.path = call[t].path,
                                !.store = marks.store + 1]
      /\ UNCHANGED <<call, snap, captured, holder, lin, nodes, live, indexed,
                     genIndex>>
      /\ CopyAffected(t)
  BY DEF Inv, TypeOK, PcInv, Late, Committing, AnnouncePath, IsNewer, Goto,
         Ends
<1>2. /\ \A u \in Threads \ {t} : pc'[u] = pc[u] /\ outcome'[u] = outcome[u]
      /\ pc'[t] = "relock" /\ outcome'[t] = "Applied"
  BY <1>1 DEF Inv, TypeOK
<1>3. call[t].op \in NotifyOps
  BY <1>1 DEF NotifyOps
<1>4. /\ marks \in Marks /\ marks' \in Marks
      /\ marks'.path = call[t].path /\ marks'.epoch = marks.epoch
  <2>1. marks \in Marks /\ call[t].path \in Nat
    BY CallTyped DEF Inv, TypeOK, CallType
  <2>2. marks.store + 1 \in Nat
    BY <2>1 DEF Marks
  <2> QED
    BY <1>1, <2>1, <2>2 DEF Marks
<1>5. TypeOK'
  BY <1>1, <1>3, <1>4, AffectedRecords DEF Inv, TypeOK, Steps
<1>6. PcInv'
  BY <1>1, <1>2, <1>3, AffectedRecords
     DEF Inv, PcInv, SessionSteps, CommitSteps, NotifySteps, Late,
         Committing, NotifyOps
<1>7. MutexInv'
  BY <1>1, <1>2 DEF Inv, MutexInv, Inside, Committing
<1>8. RecordInv'
  <2>1. \A u \in Threads :
           /\ Inserted(u)' <=> Inserted(u)
           /\ Inserted(u) => (pc'[u] = "done" <=> pc[u] = "done")
           /\ outcome[u] = "Applied" => outcome'[u] = "Applied"
    BY <1>1, <1>2 DEF Inserted, CommitOps
  <2> QED
    BY <1>1, <2>1, RecordFrame DEF Inv
<1>9. LockInv'
  BY <1>1, <1>2 DEF Inv, LockInv
<1>10. CurInv'
  BY <1>1, <1>2, <1>3, AffectedRecords DEF Inv, CurInv, Committing
<1>11. EffectInv'
  <2>1. \A u \in Threads : call[u].path \in Nat
    BY CallTyped DEF Inv, CallType
  <2>2. \A u \in Threads \ {t} : Visible(u, marks) => Visible(u, marks)'
    BY <1>1, <1>4, <2>1 DEF Visible, Marks
  <2>3. Visible(t, marks)'
    BY <1>1, <1>4, <2>1 DEF Visible
  <2> QED
    BY <1>1, <1>2, <1>3, <2>2, <2>3, AffectedRecords DEF Inv, EffectInv
<1>12. FoundInv'
  BY <1>1, <1>2, <1>3, AffectedRecords DEF Inv, FoundInv, Visible, Evaluating
<1> QED
  BY <1>5, <1>6, <1>7, <1>8, <1>9, <1>10, <1>11, <1>12 DEF Inv

\* An epoch advance announces the new epoch and collects later.
LEMMA AdvanceEpochInv ==
    ASSUME Inv, NEW t \in Threads, AdvanceEpoch(t)
    PROVE  Inv'
<1>1. /\ pc[t] = "announce" /\ call[t].op = "advance_epoch"
      /\ outcome[t] = "Pending" /\ found[t] = {}
      /\ pc' = [pc EXCEPT ![t] = "collect"]
      /\ outcome' = [outcome EXCEPT ![t] = "Applied"]
      /\ marks' = [marks EXCEPT !.epoch = 2, !.store = marks.store + 1]
      /\ UNCHANGED <<call, snap, captured, todo, found, holder, lin, nodes,
                     live, indexed, genIndex>>
  BY DEF Inv, TypeOK, PcInv, Late, Committing, AdvanceEpoch, Goto, Ends
<1>2. /\ \A u \in Threads \ {t} : pc'[u] = pc[u] /\ outcome'[u] = outcome[u]
      /\ pc'[t] = "collect" /\ outcome'[t] = "Applied"
  BY <1>1 DEF Inv, TypeOK
<1>3. call[t].op \in NotifyOps
  BY <1>1 DEF NotifyOps
<1>4. /\ marks' \in Marks
      /\ marks'.path = marks.path /\ marks'.epoch = 2
  <2>1. marks \in Marks
    BY DEF Inv, TypeOK
  <2>2. marks.store + 1 \in Nat
    BY <2>1 DEF Marks
  <2> QED
    BY <1>1, <2>1, <2>2 DEF Marks
<1>5. TypeOK'
  BY <1>1, <1>4 DEF Inv, TypeOK, Steps
<1>6. PcInv'
  BY <1>1, <1>2, <1>3
     DEF Inv, PcInv, SessionSteps, CommitSteps, NotifySteps, Late,
         Committing, NotifyOps
<1>7. MutexInv'
  BY <1>1, <1>2 DEF Inv, MutexInv, Inside, Committing
<1>8. RecordInv'
  <2>1. \A u \in Threads :
           /\ Inserted(u)' <=> Inserted(u)
           /\ Inserted(u) => (pc'[u] = "done" <=> pc[u] = "done")
           /\ outcome[u] = "Applied" => outcome'[u] = "Applied"
    BY <1>1, <1>2 DEF Inserted, CommitOps
  <2> QED
    BY <1>1, <2>1, RecordFrame DEF Inv
<1>9. LockInv'
  BY <1>1, <1>2 DEF Inv, LockInv
<1>10. CurInv'
  BY <1>1, <1>2 DEF Inv, CurInv, Committing
<1>11. EffectInv'
  <2>1. \A u \in Threads \ {t} : Visible(u, marks) => Visible(u, marks)'
    BY <1>1, <1>4 DEF Visible
  <2>2. Visible(t, marks)'
    BY <1>1, <1>4 DEF Visible
  <2> QED
    BY <1>1, <1>2, <2>1, <2>2 DEF Inv, EffectInv
<1>12. FoundInv'
  BY <1>1, <1>2 DEF Inv, FoundInv, Visible, Evaluating
<1> QED
  BY <1>5, <1>6, <1>7, <1>8, <1>9, <1>10, <1>11, <1>12 DEF Inv

\* A fence or an epoch advance copies what it affects.
LEMMA CollectInv ==
    ASSUME Inv, NEW t \in Threads, Collect(t)
    PROVE  Inv'
<1>1. /\ pc[t] = "collect" /\ call[t].op \in NotifyOps
      /\ outcome[t] = "Applied"
      /\ pc' = [pc EXCEPT ![t] = "relock"]
      /\ UNCHANGED <<call, snap, captured, outcome, holder, lin, nodes,
                     marks, live, indexed, genIndex>>
      /\ CopyAffected(t)
  BY DEF Inv, PcInv, NotifySteps, Late, Committing, Collect, Goto,
         sharedVars
<1>2. /\ \A u \in Threads \ {t} : pc'[u] = pc[u]
      /\ pc'[t] = "relock"
  BY <1>1 DEF Inv, TypeOK
<1>3. TypeOK'
  BY <1>1, AffectedRecords DEF Inv, TypeOK, Steps
<1>4. PcInv'
  BY <1>1, <1>2, AffectedRecords
     DEF Inv, PcInv, SessionSteps, CommitSteps, NotifySteps, Late,
         Committing
<1>5. MutexInv'
  BY <1>1, <1>2 DEF Inv, MutexInv, Inside, Committing
<1>6. RecordInv'
  <2>1. \A u \in Threads :
           /\ Inserted(u)' <=> Inserted(u)
           /\ Inserted(u) => (pc'[u] = "done" <=> pc[u] = "done")
           /\ outcome[u] = "Applied" => outcome'[u] = "Applied"
    BY <1>1, <1>2 DEF Inserted
  <2> QED
    BY <1>1, <2>1, RecordFrame DEF Inv
<1>7. LockInv'
  BY <1>1, <1>2 DEF Inv, LockInv
<1>8. CurInv'
  BY <1>1, <1>2, AffectedRecords DEF Inv, CurInv, Committing
<1>9. EffectInv'
  BY <1>1, AffectedRecords DEF Inv, EffectInv, Visible
<1>10. FoundInv'
  BY <1>1, <1>2, AffectedRecords DEF Inv, FoundInv, Visible, Evaluating
<1> QED
  BY <1>3, <1>4, <1>5, <1>6, <1>7, <1>8, <1>9, <1>10 DEF Inv

\* reevaluate_index takes the mutex if it has anything to recompute.
LEMMA RelockInv ==
    ASSUME Inv, NEW t \in Threads, Relock(t)
    PROVE  Inv'
<1>1. /\ pc[t] = "relock" /\ call[t].op \in NotifyOps
      /\ outcome[t] = "Applied" /\ holder # t
      /\ pc' = [pc EXCEPT ![t] = IF todo[t] = {} THEN "done" ELSE "marks"]
      /\ todo[t] # {} => holder = None
      /\ holder' = IF todo[t] = {} THEN holder ELSE t
      /\ UNCHANGED <<call, snap, captured, todo, found, outcome, lin, nodes,
                     marks, live, indexed, genIndex>>
  BY DEF Inv, PcInv, MutexInv, Inside, NotifySteps, Late, Committing, Relock,
         Goto, threadVars, sharedVars
<1>2. /\ \A u \in Threads \ {t} : pc'[u] = pc[u]
      /\ pc'[t] = IF todo[t] = {} THEN "done" ELSE "marks"
  BY <1>1 DEF Inv, TypeOK
<1>3. TypeOK'
  BY <1>1 DEF Inv, TypeOK, Steps
<1>4. PcInv'
  BY <1>1, <1>2
     DEF Inv, PcInv, SessionSteps, CommitSteps, NotifySteps, Late,
         Committing
<1>5. MutexInv'
  BY <1>1, <1>2, RaceAssumption DEF Inv, MutexInv, Inside, Committing
<1>6. RecordInv'
  <2>1. \A u \in Threads :
           /\ Inserted(u)' <=> Inserted(u)
           /\ Inserted(u) => (pc'[u] = "done" <=> pc[u] = "done")
           /\ outcome[u] = "Applied" => outcome'[u] = "Applied"
    BY <1>1, <1>2 DEF Inserted, CommitOps, NotifyOps
  <2>2. \A u \in Threads : u = holder => holder' = u
    BY <1>1, RaceAssumption
  <2> QED
    BY <1>1, <2>1, <2>2, RecordFrame DEF Inv
<1>7. LockInv'
  BY <1>1, <1>2 DEF Inv, LockInv
<1>8. CurInv'
  BY <1>1, <1>2 DEF Inv, CurInv, Committing
<1>9. EffectInv'
  BY <1>1 DEF Inv, EffectInv, Visible
<1>10. FoundInv'
  BY <1>1, <1>2 DEF Inv, FoundInv, Visible, Evaluating
<1> QED
  BY <1>3, <1>4, <1>5, <1>6, <1>7, <1>8, <1>9, <1>10 DEF Inv

\* ... and releases it when all are recomputed.
LEMMA UnlockInv ==
    ASSUME Inv, NEW t \in Threads, Unlock(t)
    PROVE  Inv'
<1>1. /\ pc[t] = "unlock" /\ call[t].op \in NotifyOps
      /\ outcome[t] = "Applied" /\ holder = t /\ holder' = None
      /\ pc' = [pc EXCEPT ![t] = "done"]
      /\ UNCHANGED <<call, snap, captured, todo, found, outcome, lin, nodes,
                     marks, live, indexed, genIndex>>
  BY DEF Inv, PcInv, MutexInv, Inside, NotifySteps, Late, Committing, Unlock,
         Goto, threadVars, sharedVars
<1>2. /\ \A u \in Threads \ {t} : pc'[u] = pc[u]
      /\ pc'[t] = "done"
  BY <1>1 DEF Inv, TypeOK
<1>3. TypeOK'
  BY <1>1 DEF Inv, TypeOK, Steps
<1>4. PcInv'
  BY <1>1, <1>2 DEF Inv, PcInv, SessionSteps, CommitSteps, NotifySteps
<1>5. MutexInv'
  BY <1>1, <1>2, RaceAssumption DEF Inv, MutexInv, Inside, Committing
<1>6. RecordInv'
  <2>1. \A u \in Threads :
           /\ Inserted(u)' <=> Inserted(u)
           /\ Inserted(u) => (pc'[u] = "done" <=> pc[u] = "done")
           /\ outcome[u] = "Applied" => outcome'[u] = "Applied"
    BY <1>1, <1>2 DEF Inserted, CommitOps, NotifyOps
  <2>2. nodes[t].kind = "Absent"
    BY <1>1 DEF Inv, RecordInv, Inserted, CommitOps, NotifyOps
  <2> QED
    BY <1>1, <2>1, <2>2, RecordFrame DEF Inv
<1>7. LockInv'
  BY <1>1, <1>2 DEF Inv, LockInv
<1>8. CurInv'
  BY <1>1, <1>2 DEF Inv, CurInv, Committing
<1>9. EffectInv'
  BY <1>1 DEF Inv, EffectInv, Visible
<1>10. FoundInv'
  BY <1>1, <1>2 DEF Inv, FoundInv, Visible, Evaluating
<1> QED
  BY <1>3, <1>4, <1>5, <1>6, <1>7, <1>8, <1>9, <1>10 DEF Inv

\* The records of a notification are recomputed.
LEMMA RecomputeInv ==
    ASSUME Inv, NEW t \in Threads, Recompute(t)
    PROVE  Inv'
<1>1. CASE ReadMarks(t, "marks", "eval")
  BY <1>1, ReadMarksInv
<1>2. CASE Evaluate(t, "eval", "unlock", {})
  BY <1>2, EvaluateInv
<1> QED
  BY <1>1, <1>2 DEF Recompute

\* A notification that announces nothing new is rejected.
LEMMA NothingNewInv ==
    ASSUME Inv, NEW t \in Threads, NothingNew(t)
    PROVE  Inv'
<1>1. TypeOK'
  BY DEF Inv, TypeOK, Steps, NothingNew, Check, Goto, Ends, sharedVars
<1>2. PcInv'
  BY DEF Inv, TypeOK, PcInv, SessionSteps, CommitSteps, NotifySteps, Late,
     Committing, CommitOps, NotifyOps, NothingNew, Check, Goto, Ends,
     sharedVars
<1>3. MutexInv'
  BY DEF Inv, TypeOK, MutexInv, Inside, Committing, NothingNew, Check, Goto,
     Ends, sharedVars
<1>4. RecordInv'
  <2>1. UNCHANGED <<call, nodes, lin, indexed, genIndex>>
    BY DEF NothingNew, Check, Goto, Ends, sharedVars
  <2>2. \A u \in Threads :
           /\ Inserted(u)' <=> Inserted(u)
           /\ Inserted(u) => (pc'[u] = "done" <=> pc[u] = "done")
           /\ outcome[u] = "Applied" => outcome'[u] = "Applied"
    BY DEF Inv, TypeOK, PcInv, Inserted, Late, Committing, NothingNew, Check,
       Goto, Ends, sharedVars
  <2>3. \A u \in Threads :
           nodes[u].kind = "RouteGeneration" /\ u = holder => holder' = u
    BY DEF NothingNew, Check, Goto, Ends, sharedVars
  <2> QED
    BY <2>1, <2>2, <2>3, RecordFrame DEF Inv
<1>5. LockInv'
  BY DEF Inv, TypeOK, PcInv, MutexInv, Inside, Committing, LockInv,
     NothingNew, Check, Goto, Ends, sharedVars
<1>6. CurInv'
  BY DEF Inv, TypeOK, CurInv, Committing, NothingNew, Check, Goto, Ends,
     sharedVars
<1>7. EffectInv'
  BY DEF Inv, TypeOK, PcInv, EffectInv, Visible, NothingNew, Check, Goto,
     Ends, sharedVars
<1>8. FoundInv'
  <2>1. UNCHANGED <<call, found, todo, nodes>>
    BY DEF NothingNew, Check, Goto, Ends, sharedVars
  <2>2. \A u \in Threads :
           call[u].op \in NotifyOps /\ outcome'[u] = "Applied" =>
              outcome[u] = "Applied" /\ pc'[u] = pc[u]
    BY DEF Inv, TypeOK, PcInv, Late, Committing, NothingNew, Check, Goto,
       Ends, sharedVars
  <2>3. \A u \in Threads :
           pc'[u] \in Evaluating =>
              pc[u] \in Evaluating /\ snap'[u] = snap[u]
    BY DEF Inv, TypeOK, Evaluating, NothingNew, Check, Goto, Ends, sharedVars
  <2> QED
    BY <2>1, <2>2, <2>3, FoundFrame DEF Inv
<1> QED
  BY <1>1, <1>2, <1>3, <1>4, <1>5, <1>6, <1>7, <1>8 DEF Inv

-----------------------------------------------------------------------------
(* The other lineage of the route *)

\* A commit in another lineage advances the store generation and nothing else
\* of this one.
LEMMA CommitElsewhereInv ==
    ASSUME Inv, NEW t \in Threads, CommitElsewhere(t)
    PROVE  Inv'
<1>1. /\ pc[t] = "elsewhere" /\ call[t].op = "elsewhere"
      /\ outcome[t] = "Pending" /\ found[t] = {}
      /\ pc' = [pc EXCEPT ![t] = "overwrite"]
      /\ outcome' = [outcome EXCEPT ![t] = "Applied"]
      /\ marks' = [marks EXCEPT !.store = marks.store + 1]
      /\ UNCHANGED <<call, snap, captured, todo, found, holder, lin, nodes,
                     live, indexed, genIndex>>
  BY DEF Inv, TypeOK, PcInv, Late, Committing, CommitElsewhere, Goto, Ends
<1>2. /\ \A u \in Threads \ {t} : pc'[u] = pc[u] /\ outcome'[u] = outcome[u]
      /\ pc'[t] = "overwrite" /\ outcome'[t] = "Applied"
  BY <1>1 DEF Inv, TypeOK
<1>3. call[t].op \notin CommitOps /\ call[t].op \notin NotifyOps
  BY <1>1 DEF CommitOps, NotifyOps
<1>4. /\ marks' \in Marks
      /\ marks'.path = marks.path /\ marks'.epoch = marks.epoch
  <2>1. marks \in Marks
    BY DEF Inv, TypeOK
  <2>2. marks.store + 1 \in Nat
    BY <2>1 DEF Marks
  <2> QED
    BY <1>1, <2>1, <2>2 DEF Marks
<1>5. TypeOK'
  BY <1>1, <1>4 DEF Inv, TypeOK, Steps
<1>6. PcInv'
  BY <1>1, <1>2 DEF Inv, PcInv, SessionSteps, CommitSteps, NotifySteps, Late,
                    Committing
<1>7. MutexInv'
  BY <1>1, <1>2 DEF Inv, MutexInv, Inside, Committing
<1>8. RecordInv'
  <2>1. \A u \in Threads :
           /\ Inserted(u)' <=> Inserted(u)
           /\ Inserted(u) => (pc'[u] = "done" <=> pc[u] = "done")
           /\ outcome[u] = "Applied" => outcome'[u] = "Applied"
    BY <1>1, <1>2, <1>3 DEF Inserted
  <2> QED
    BY <1>1, <2>1, RecordFrame DEF Inv
<1>9. LockInv'
  BY <1>1, <1>2 DEF Inv, LockInv
<1>10. CurInv'
  BY <1>1, <1>2 DEF Inv, CurInv, Committing
<1>11. EffectInv'
  BY <1>1, <1>2, <1>3, <1>4 DEF Inv, EffectInv, Visible
<1>12. FoundInv'
  BY <1>1, <1>2, <1>3 DEF Inv, FoundInv, Visible, Evaluating
<1> QED
  BY <1>5, <1>6, <1>7, <1>8, <1>9, <1>10, <1>11, <1>12 DEF Inv

\* It takes over an index entry when the route is shared already.
LEMMA OverwriteIndexInv ==
    ASSUME Inv, NEW t \in Threads, OverwriteIndex(t)
    PROVE  Inv'
<1>1. /\ pc[t] = "overwrite" /\ call[t].op = "elsewhere"
      /\ outcome[t] = "Applied"
      /\ pc' = [pc EXCEPT ![t] = "done"]
      /\ genIndex' = genIndex \ {call[t].gen}
      /\ UNCHANGED <<call, snap, captured, todo, found, outcome, holder, lin,
                     nodes, marks, live, indexed>>
  BY DEF Inv, PcInv, Late, OverwriteIndex, Goto, threadVars
<1>2. \A u \in Threads \ {t} : pc'[u] = pc[u]
      /\ pc'[t] = "done"
  BY <1>1 DEF Inv, TypeOK
<1>3. call[t].op \notin CommitOps /\ call[t].op \notin NotifyOps
  BY <1>1 DEF CommitOps, NotifyOps
<1>4. TypeOK'
  BY <1>1 DEF Inv, TypeOK, Steps
<1>5. PcInv'
  BY <1>1, <1>2 DEF Inv, PcInv, SessionSteps, CommitSteps, NotifySteps
<1>6. MutexInv'
  BY <1>1, <1>2 DEF Inv, MutexInv, Inside, Committing
<1>7. RecordInv'
  <2>1. Shared'
    BY <1>1 DEF Shared
  <2>2. \A u \in Threads :
           /\ Inserted(u)' <=> Inserted(u)
           /\ Inserted(u) => (pc'[u] = "done" <=> pc[u] = "done")
    BY <1>1, <1>2, <1>3 DEF Inserted
  <2> QED
    BY <1>1, <2>1, <2>2 DEF Inv, RecordInv
<1>8. LockInv'
  BY <1>1, <1>2 DEF Inv, LockInv
<1>9. CurInv'
  BY <1>1, <1>2 DEF Inv, CurInv, Committing
<1>10. EffectInv'
  BY <1>1 DEF Inv, EffectInv, Visible
<1>11. FoundInv'
  BY <1>1, <1>2, <1>3 DEF Inv, FoundInv, Visible, Evaluating
<1> QED
  BY <1>4, <1>5, <1>6, <1>7, <1>8, <1>9, <1>10, <1>11 DEF Inv

-----------------------------------------------------------------------------
(* The invariant *)

\* The calls start on one published root generation.
LEMMA InitInv == Init => Inv
<1> SUFFICES ASSUME Init PROVE Inv
  OBVIOUS
<1> DEFINE m0 == [path |-> 1, policy |-> 0, evidence |-> 0, epoch |-> 1,
                  store |-> 1]
<1>1. /\ call \in [Threads -> Calls]
      /\ pc = [t \in Threads |-> FirstStep(call[t].op)]
      /\ marks = m0 /\ snap = [t \in Threads |-> m0]
      /\ captured = [t \in Threads |-> [marks |-> m0, gen |-> 0, lgen |-> 0]]
      /\ todo = [t \in Threads |-> {}] /\ found = [t \in Threads |-> {}]
      /\ outcome = [t \in Threads |-> "Pending"]
      /\ lin = [life |-> "Active", gen |-> 1, cur |-> Root, lgen |-> 1]
      /\ holder = None /\ live = Boots /\ indexed = {Root}
      /\ genIndex = {1}
  BY DEF Init
<1>2. \A r \in RecordIds : nodes[r] =
         IF r = Root THEN [Node("RouteGeneration", 1, RootBoot, 1)
                              EXCEPT !.cur = "Current"]
         ELSE Node("Absent", 0, None, 0)
  BY DEF Init
<1>3. /\ Root \in RecordIds /\ Threads \subseteq RecordIds
      /\ RecordIds \ {Root} = Threads
  BY RaceAssumption DEF RecordIds
<1>4. /\ nodes[Root].kind = "RouteGeneration" /\ nodes[Root].gen = 1
      /\ nodes[Root].cur = "Current" /\ nodes[Root] \in Nodes
  <2>1. nodes[Root] = [Node("RouteGeneration", 1, RootBoot, 1)
                          EXCEPT !.cur = "Current"]
    BY <1>2, <1>3
  <2>2. nodes[Root] = [kind |-> "RouteGeneration", gen |-> 1,
                       auth |-> [boot |-> RootBoot, epoch |-> 1],
                       bind |-> Bind(1), life |-> "Current",
                       cur |-> "Current", rr |-> FALSE, reval |-> FALSE]
    BY <2>1 DEF Node
  <2>3. 1 \in 0..MaxGen
    BY RaceAssumption
  <2>4. nodes[Root] \in Nodes
    BY <2>2, <2>3, RaceAssumption
       DEF Bind, Nodes, NodeKinds, NodeLifecycles, CurrentnessValues
  <2> QED
    BY <2>2, <2>4
<1>5. ASSUME NEW t \in Threads
      PROVE  /\ nodes[t].kind = "Absent" /\ nodes[t].cur = "HistoricalOnly"
             /\ nodes[t] \in Nodes
  <2>1. nodes[t] = Node("Absent", 0, None, 0)
    BY <1>2, <1>3
  <2> QED
    BY <2>1, RaceAssumption DEF Node, Bind, Nodes, NodeKinds,
                                NodeLifecycles, CurrentnessValues
<1>6. m0 \in Marks
  BY DEF Marks
<1> HIDE DEF m0
<1>7. TypeOK
  <2>1. pc \in [Threads -> Steps]
    BY <1>1 DEF FirstStep, Steps
  <2>2. nodes \in [RecordIds -> Nodes]
    BY <1>3, <1>4, <1>5 DEF Init
  <2>3. lin \in [life : {"Active", "Retired"}, gen : 1..MaxGen,
                 cur : RecordIds, lgen : Nat]
    BY <1>1, <1>3, RaceAssumption
  <2>4. 1 \in 1..MaxGen /\ 0 \in 0..MaxGen
    BY RaceAssumption
  <2> QED
    BY <1>1, <1>3, <1>6, <2>1, <2>2, <2>3, <2>4 DEF TypeOK
<1>8. \A t \in Threads :
         /\ pc[t] = FirstStep(call[t].op) /\ outcome[t] = "Pending"
         /\ found[t] = {} /\ todo[t] = {}
  BY <1>1
<1>9. PcInv
  BY <1>8 DEF PcInv, FirstStep, SessionSteps, CommitSteps, NotifySteps, Late,
              Committing
<1>10. MutexInv
  BY <1>1, <1>8, RaceAssumption DEF MutexInv, Inside, Committing, FirstStep
<1>11. RecordInv
  BY <1>1, <1>3, <1>4, <1>5, <1>8, RaceAssumption DEF RecordInv, Inserted
<1>12. LockInv
  BY <1>8 DEF LockInv, FirstStep
<1>13. CurInv
  BY <1>1, <1>3, <1>4, <1>5, <1>8 DEF CurInv, FirstStep
<1>14. EffectInv /\ FoundInv
  BY <1>8 DEF EffectInv, FoundInv
<1> QED
  BY <1>7, <1>9, <1>10, <1>11, <1>12, <1>13, <1>14 DEF Inv

\* Every step of every thread keeps the invariant.
LEMMA StepInv ==
    ASSUME Inv, NEW t \in Threads, Step(t)
    PROVE  Inv'
<1>1. CASE Session(t)
  BY <1>1, BeginMarksInv, BeginLineageInv, CheckMarksInv, CheckRouteInv,
     CheckLineageInv DEF Session
<1>2. CASE Authority(t)
  BY <1>2, ReadWatermarksInv, CheckLiveInv DEF Authority
<1>3. CASE Commit(t)
  BY <1>3, LockInvStep, InsertInv, ReevaluateInv, IndexInv DEF Commit
<1>4. CASE Notify(t)
  BY <1>4, FenceInv, AnnouncePathInv, AdvanceEpochInv, NothingNewInv,
     CollectInv, RelockInv, RecomputeInv, UnlockInv DEF Notify, Announce
<1>5. CASE Elsewhere(t)
  BY <1>5, CommitElsewhereInv, OverwriteIndexInv DEF Elsewhere
<1> QED
  BY <1>1, <1>2, <1>3, <1>4, <1>5 DEF Step

\* A stuttering step changes nothing.
LEMMA StutterInv ==
    ASSUME Inv, UNCHANGED vars
    PROVE  Inv'
<1>1. UNCHANGED <<call, pc, snap, captured, todo, found, outcome, holder, lin,
                  nodes, marks, live, indexed, genIndex>>
  BY DEF vars, threadVars, sharedVars
<1>2. TypeOK' /\ PcInv' /\ MutexInv'
  BY <1>1 DEF Inv, TypeOK, PcInv, MutexInv
<1>3. RecordInv'
  BY <1>1, RecordFrame DEF Inv, Inserted
<1>4. LockInv' /\ CurInv'
  BY <1>1 DEF Inv, LockInv, CurInv
<1>5. EffectInv'
  BY <1>1 DEF Inv, EffectInv, Visible
<1>6. FoundInv'
  BY <1>1, FoundFrame DEF Inv
<1> QED
  BY <1>2, <1>3, <1>4, <1>5, <1>6 DEF Inv

\* Inv is inductive.
LEMMA Invariance == Spec => []Inv
<1>1. Inv /\ [Next]_vars => Inv'
  BY StepInv, StutterInv DEF Next
<1> QED
  BY <1>1, InitInv, PTL DEF Spec

-----------------------------------------------------------------------------
(* The theorems *)

\* Every variable of a race has its type: no interleaving leaves a thread at a
\* step that is not one of the pipeline's.
THEOREM RaceTyped == Spec => []TypeOK
<1>1. Inv => TypeOK
  BY DEF Inv
<1> QED
  BY <1>1, Invariance, PTL

\* When the lineage lock is free no two route records share a generation
\* unless another lineage of the route has published, the current record
\* carries the last one, only it may be CURRENT, and the indexes list exactly
\* the existing records.
THEOREM RaceOneRecordPerGeneration == Spec => []OneRecordPerGeneration
<1>1. Inv => OneRecordPerGeneration
  <2> SUFFICES ASSUME Inv, Quiet PROVE OneRecordPerGeneration
    BY DEF OneRecordPerGeneration
  <2>1. \A t \in Threads : pc[t] \notin Inside
    BY RaceAssumption DEF Inv, MutexInv, Quiet
  <2>2. \A t \in Threads : Inserted(t) => pc[t] = "done"
    BY <2>1 DEF Inv, PcInv, Inserted, Late, Inside, Committing, NotifySteps,
                CommitOps, NotifyOps
  <2>3. \A r \in RecordIds : r \in indexed <=> nodes[r].kind # "Absent"
    BY <2>2 DEF Inv, RecordInv, RecordIds
  <2>4. indexed = {r \in RecordIds : nodes[r].kind # "Absent"}
    BY <2>3 DEF Inv, TypeOK
  <2> QED
    BY <2>4 DEF Inv, RecordInv, CurInv, OneRecordPerGeneration
<1> QED
  BY <1>1, Invariance, PTL

\* Once a retirement is visible no record of the lineage is CURRENT, whatever
\* it raced with.
THEOREM RaceRetirementWins == Spec => []RetirementWins
<1>1. Inv => RetirementWins
  <2> SUFFICES ASSUME Inv, Quiet, lin.life = "Retired"
               PROVE  \A r \in RecordIds : nodes[r].cur # "Current"
    BY DEF RetirementWins
  <2>1. \A t \in Threads : pc[t] \notin Committing
    BY RaceAssumption DEF Inv, MutexInv, Quiet, Inside
  <2> QED
    BY <2>1 DEF Inv, CurInv
<1> QED
  BY <1>1, Invariance, PTL

\* A fence, an announcement or an epoch advance that returned has demoted
\* every record it found, and nothing restores one of them.
THEOREM RaceFoundIsDemoted == Spec => []FoundIsDemoted
<1>1. Inv => FoundIsDemoted
  BY DEF Inv, FoundInv, FoundIsDemoted
<1> QED
  BY <1>1, Invariance, PTL

\* The calls that have advanced the store generation.
Counted == {t \in Threads : call[t].op # "fence" /\ outcome[t] = "Applied"}

\* A step advances the store generation exactly when its call takes effect.
LEMMA StoreStep ==
    ASSUME Inv, NEW t \in Threads, Step(t)
    PROVE  \/ Counted' = Counted /\ marks'.store = marks.store
           \/ /\ t \notin Counted /\ Counted' = Counted \cup {t}
              /\ marks'.store = marks.store + 1
<1>1. ASSUME UNCHANGED <<call, outcome, marks>>
      PROVE  Counted' = Counted /\ marks'.store = marks.store
  BY <1>1 DEF Counted
<1>2. ASSUME NEW ok, NEW from, NEW to, Check(t, from, ok, to), from # "done",
             from \notin Late, UNCHANGED <<call, marks>>
      PROVE  Counted' = Counted /\ marks'.store = marks.store
  <2>1. outcome[t] # "Applied"
    BY <1>2 DEF Inv, PcInv, Check, Goto
  <2>2. outcome' = outcome \/ outcome' = [outcome EXCEPT ![t] = "Rejected"]
    BY <1>2 DEF Check, Ends
  <2>3. \A u \in Threads : outcome'[u] = "Applied" <=> outcome[u] = "Applied"
    BY <2>1, <2>2 DEF Inv, TypeOK
  <2> QED
    BY <1>2, <2>3 DEF Counted
<1>3. ASSUME NEW from, NEW to, Goto(t, from, to),
             from \in {"insert", "announce", "elsewhere"}, Ends(t, "Applied"),
             UNCHANGED call, marks'.store = marks.store + 1
      PROVE  /\ t \notin Counted /\ Counted' = Counted \cup {t}
             /\ marks'.store = marks.store + 1
  <2>1. /\ pc[t] \in {"insert", "announce", "elsewhere"}
        /\ outcome[t] # "Applied"
    BY <1>3 DEF Inv, PcInv, Goto, Late, Committing
  <2>2. call[t].op # "fence"
    BY <2>1 DEF Inv, PcInv, CommitSteps, CommitOps
  <2>3. \A u \in Threads : outcome'[u] = IF u = t THEN "Applied"
                                         ELSE outcome[u]
    BY <1>3 DEF Ends, Inv, TypeOK
  <2> QED
    BY <1>3, <2>1, <2>2, <2>3 DEF Counted
<1>4. CASE Session(t)
  <2>1. CASE BeginMarks(t) \/ BeginLineage(t) \/ CheckMarks(t)
    BY <1>1, <2>1 DEF BeginMarks, BeginLineage, CheckMarks, sharedVars
  <2>2. CASE CheckRoute(t)
    BY <1>2, <2>2 DEF CheckRoute, sharedVars, Late, Committing
  <2>3. CASE CheckLineage(t)
    BY <1>2, <2>3 DEF CheckLineage, sharedVars, Late, Committing
  <2> QED
    BY <1>4, <2>1, <2>2, <2>3 DEF Session
<1>5. CASE Authority(t)
  <2>1. CASE ReadWatermarks(t)
    BY <1>2, <2>1 DEF ReadWatermarks, sharedVars, Late, Committing
  <2>2. CASE CheckLive(t)
    BY <1>2, <2>2 DEF CheckLive, sharedVars, Late, Committing
  <2> QED
    BY <1>5, <2>1, <2>2 DEF Authority
<1>6. CASE Commit(t)
  <2>1. CASE Lock(t)
    BY <1>2, <2>1 DEF Lock, sharedVars, Late, Committing
  <2>2. CASE Insert(t)
    BY <1>3, <2>2, InsertMarks DEF Insert
  <2>3. CASE Reevaluate(t) \/ Index(t)
    BY <1>1, <2>3 DEF Reevaluate, ReadMarks, Evaluate, Index, threadVars,
                      sharedVars
  <2> QED
    BY <1>6, <2>1, <2>2, <2>3 DEF Commit
<1>7. CASE Notify(t)
  <2>1. CASE Fence(t)
    <3>1. call[t].op = "fence"
      BY <2>1 DEF Inv, PcInv, Fence, Goto
    <3>2. \A u \in Threads \ {t} : outcome'[u] = outcome[u]
      BY <2>1 DEF Fence, Ends, Inv, TypeOK
    <3>3. UNCHANGED <<call, marks>>
      BY <2>1 DEF Fence
    <3> QED
      BY <3>1, <3>2, <3>3 DEF Counted
  <2>2. marks \in Marks
    BY DEF Inv, TypeOK
  <2>3. CASE AnnouncePath(t)
    <3>1. marks'.store = marks.store + 1
      BY <2>2, <2>3 DEF AnnouncePath, Marks
    <3> QED
      BY <1>3, <2>3, <3>1 DEF AnnouncePath
  <2>4. CASE AdvanceEpoch(t)
    <3>1. marks'.store = marks.store + 1
      BY <2>2, <2>4 DEF AdvanceEpoch, Marks
    <3> QED
      BY <1>3, <2>4, <3>1 DEF AdvanceEpoch
  <2>5. CASE NothingNew(t)
    BY <1>2, <2>5 DEF NothingNew, sharedVars, Late, Committing
  <2>6. CASE Collect(t) \/ Relock(t) \/ Recompute(t) \/ Unlock(t)
    BY <1>1, <2>6 DEF Collect, Relock, Recompute, ReadMarks, Evaluate,
                      Unlock, threadVars, sharedVars
  <2> QED
    BY <1>7, <2>1, <2>3, <2>4, <2>5, <2>6 DEF Notify, Announce
<1>8. CASE Elsewhere(t)
  <2>1. CASE CommitElsewhere(t)
    <3>1. marks \in Marks
      BY DEF Inv, TypeOK
    <3>2. marks'.store = marks.store + 1
      BY <2>1, <3>1 DEF CommitElsewhere, Marks
    <3> QED
      BY <1>3, <2>1, <3>2 DEF CommitElsewhere
  <2>2. CASE OverwriteIndex(t)
    BY <1>1, <2>2 DEF OverwriteIndex, threadVars
  <2> QED
    BY <1>8, <2>1, <2>2 DEF Elsewhere
<1> QED
  BY <1>4, <1>5, <1>6, <1>7, <1>8 DEF Step

\* No increment of the store generation is lost to a race.
THEOREM RaceStoreGenerationCounts == Spec => []StoreGenerationCounts
<1> DEFINE I == marks.store = 1 + Cardinality(Counted)
<1>1. Init => I
  <2> SUFFICES ASSUME Init PROVE I
    OBVIOUS
  <2>1. Counted = {}
    BY DEF Init, Counted
  <2>2. marks.store = 1
    BY DEF Init
  <2> QED
    BY <2>1, <2>2, FS_EmptySet
<1>2. ASSUME I, Inv, [Next]_vars
      PROVE  I'
  <2>1. IsFiniteSet(Counted)
    BY RaceAssumption, FS_Subset DEF Counted
  <2>2. ASSUME NEW t \in Threads, Step(t)
        PROVE  I'
    <3>1. CASE Counted' = Counted /\ marks'.store = marks.store
      BY <1>2, <3>1
    <3>2. CASE /\ t \notin Counted /\ Counted' = Counted \cup {t}
               /\ marks'.store = marks.store + 1
      <4>1. Cardinality(Counted \cup {t}) = Cardinality(Counted) + 1
        BY <2>1, <3>2, FS_AddElement
      <4>2. Cardinality(Counted) \in Nat
        BY <2>1, FS_CardinalityType
      <4> QED
        BY <1>2, <3>2, <4>1, <4>2
    <3> QED
      BY <1>2, <2>2, <3>1, <3>2, StoreStep
  <2>3. CASE UNCHANGED vars
    BY <1>2, <2>3 DEF vars, threadVars, sharedVars, Counted
  <2> QED
    BY <1>2, <2>2, <2>3 DEF Next
<1>3. I => StoreGenerationCounts
  BY DEF StoreGenerationCounts, Counted
<1> QED
  BY <1>1, <1>2, <1>3, Invariance, PTL DEF Spec

-----------------------------------------------------------------------------
(* The abstract lineage *)

\* A step of a call on this lineage leaves it shared or not as it was: only
\* the commit elsewhere takes effect as one.
LEMMA SharedKept ==
    ASSUME Inv, NEW t \in Threads, Step(t), ~CommitElsewhere(t)
    PROVE  Shared' = Shared
<1>1. UNCHANGED call
  BY DEF Step, Session, BeginMarks, BeginLineage, CheckMarks, CheckRoute,
         CheckLineage, Authority, ReadWatermarks, CheckLive, Commit, Lock,
         Insert, Reevaluate, ReadMarks, Evaluate, Index, Notify, Fence,
         Announce, AnnouncePath, AdvanceEpoch, NothingNew, Collect, Relock,
         Recompute, Unlock, Elsewhere, OverwriteIndex
<1>2. ASSUME UNCHANGED outcome
      PROVE  Shared' = Shared
  BY <1>1, <1>2 DEF Shared
<1>3. ASSUME NEW ok, NEW from, NEW to, Check(t, from, ok, to), from # "done",
             from \notin Late
      PROVE  Shared' = Shared
  <2>1. outcome[t] # "Applied"
    BY <1>3 DEF Inv, PcInv, Check, Goto
  <2>2. outcome' = outcome \/ outcome' = [outcome EXCEPT ![t] = "Rejected"]
    BY <1>3 DEF Check, Ends
  <2>3. \A u \in Threads : outcome'[u] = "Applied" <=> outcome[u] = "Applied"
    BY <2>1, <2>2 DEF Inv, TypeOK
  <2> QED
    BY <1>1, <2>3 DEF Shared
<1>4. ASSUME Ends(t, "Applied"), call[t].op # "elsewhere"
      PROVE  Shared' = Shared
  <2>1. \A u \in Threads \ {t} : outcome'[u] = outcome[u]
    BY <1>4 DEF Ends, Inv, TypeOK
  <2> QED
    BY <1>1, <1>4, <2>1 DEF Shared
<1>5. CASE Session(t)
  <2>1. CASE BeginMarks(t) \/ BeginLineage(t) \/ CheckMarks(t)
    BY <1>2, <2>1 DEF BeginMarks, BeginLineage, CheckMarks
  <2>2. CASE CheckRoute(t)
    BY <1>3, <2>2 DEF CheckRoute, Late, Committing
  <2>3. CASE CheckLineage(t)
    BY <1>3, <2>3 DEF CheckLineage, Late, Committing
  <2> QED
    BY <1>5, <2>1, <2>2, <2>3 DEF Session
<1>6. CASE Authority(t)
  <2>1. CASE ReadWatermarks(t)
    BY <1>3, <2>1 DEF ReadWatermarks, Late, Committing
  <2>2. CASE CheckLive(t)
    BY <1>3, <2>2 DEF CheckLive, Late, Committing
  <2> QED
    BY <1>6, <2>1, <2>2 DEF Authority
<1>7. CASE Commit(t)
  <2>1. CASE Lock(t)
    BY <1>3, <2>1 DEF Lock, Late, Committing
  <2>2. CASE Insert(t)
    <3>1. call[t].op \in CommitOps
      BY <2>2 DEF Inv, PcInv, CommitSteps, Insert, Goto
    <3> QED
      BY <1>4, <2>2, <3>1 DEF Insert, CommitOps
  <2>3. CASE Reevaluate(t) \/ Index(t)
    BY <1>2, <2>3 DEF Reevaluate, ReadMarks, Evaluate, Index, threadVars
  <2> QED
    BY <1>7, <2>1, <2>2, <2>3 DEF Commit
<1>8. CASE Notify(t)
  <2>1. CASE Fence(t)
    <3>1. call[t].op = "fence"
      BY <2>1 DEF Inv, PcInv, Fence, Goto
    <3> QED
      BY <1>4, <2>1, <3>1 DEF Fence
  <2>2. CASE AnnouncePath(t) \/ AdvanceEpoch(t)
    BY <1>4, <2>2 DEF AnnouncePath, AdvanceEpoch
  <2>3. CASE NothingNew(t)
    BY <1>3, <2>3 DEF NothingNew, Late, Committing
  <2>4. CASE Collect(t) \/ Relock(t) \/ Recompute(t) \/ Unlock(t)
    BY <1>2, <2>4 DEF Collect, Relock, Recompute, ReadMarks, Evaluate,
                      Unlock, threadVars
  <2> QED
    BY <1>8, <2>1, <2>2, <2>3, <2>4 DEF Notify, Announce
<1>9. CASE Elsewhere(t)
  BY <1>2, <1>9 DEF Elsewhere, OverwriteIndex, threadVars
<1> QED
  BY <1>5, <1>6, <1>7, <1>8, <1>9 DEF Step

\* The insertion of a route record publishes a later generation, or the
\* current one again if another lineage shares the route; a retirement ends
\* the lineage.
LEMMA InsertRefines ==
    ASSUME Inv, NEW t \in Threads, Insert(t)
    PROVE  Lineage!Next
<1>1. /\ pc[t] = "insert" /\ outcome[t] # "Applied" /\ holder = t
      /\ lin.life = "Active"
  BY DEF Inv, TypeOK, PcInv, MutexInv, LockInv, Inside, Late, Committing,
         Insert, Goto
<1>2. lin.gen \in 1..MaxGen /\ call[t].gen \in 1..MaxGen
  BY CallTyped DEF Inv, TypeOK, CallType
<1>3. Shared' = Shared
  <2>1. ~CommitElsewhere(t)
    BY <1>1 DEF CommitElsewhere, Goto
  <2> QED
    BY <2>1, SharedKept DEF Step, Commit
<1>4. CASE call[t].op = "retire"
  <2>1. lin'.life = "Retired" /\ lin'.gen = lin.gen
    BY <1>4, InsertLineage
  <2>2. lin'.gen - 1 = lin.gen - 1
    BY <2>1
  <2>3. Lineage!End("Retired")
    BY <1>1, <1>3, <2>1, <2>2, Zenon DEF Lineage!End, Lineage!Open
  <2> QED
    BY <2>3 DEF Lineage!Next
<1>5. CASE call[t].op # "retire"
  <2>1. nodes[t].kind = "Absent"
    BY <1>1 DEF Inv, RecordInv, Inserted
  <2>2. Shared \/ lin.gen \in genIndex
    BY <1>1, <2>1 DEF Inv, TypeOK, RecordInv
  <2>3. call[t].gen >= lin.gen /\ call[t].gen \notin genIndex
    BY <1>1, <1>5 DEF Inv, LockInv
  <2>4. lin'.life = lin.life /\ lin'.gen = call[t].gen
    BY <1>5, InsertLineage
  <2>5. lin'.gen - 1 \in Nat
    BY <1>2, <2>4, RaceAssumption
  <2>6. CASE lin.gen \in genIndex
    <3>1. lin'.gen - 1 > lin.gen - 1
      BY <1>2, <2>3, <2>4, <2>6
    <3>2. Lineage!Publish
      BY <1>1, <1>3, <2>4, <2>5, <3>1, Zenon
         DEF Lineage!Publish, Lineage!Open
    <3> QED
      BY <3>2 DEF Lineage!Next
  <2>7. CASE Shared
    <3>1. lin'.gen - 1 > lin.gen - 1 \/ lin'.gen - 1 = lin.gen - 1
      BY <1>2, <2>3, <2>4
    <3>2. Lineage!Publish
      BY <1>1, <1>3, <2>4, <2>5, <2>7, <3>1, Zenon
         DEF Lineage!Publish, Lineage!Open
    <3> QED
      BY <3>2 DEF Lineage!Next
  <2> QED
    BY <2>2, <2>6, <2>7
<1> QED
  BY <1>4, <1>5

\* A commit elsewhere shares the route; no other step touches what the
\* abstract lineage shows.
LEMMA StepRefines ==
    ASSUME Inv, NEW t \in Threads, Step(t)
    PROVE  Lineage!Next \/ UNCHANGED <<lin, Shared>>
<1>1. CASE Insert(t)
  BY <1>1, InsertRefines
<1>2. CASE CommitElsewhere(t)
  <2>1. call[t].op = "elsewhere" /\ UNCHANGED <<call, lin>>
    BY <1>2 DEF Inv, PcInv, CommitElsewhere, Goto
  <2>2. outcome'[t] = "Applied"
    BY <1>2 DEF CommitElsewhere, Ends, Inv, TypeOK
  <2>3. Shared'
    BY <2>1, <2>2 DEF Shared
  <2>4. Shared' = TRUE
    BY <2>3 DEF Shared
  <2>5. UNCHANGED <<lin.life, lin.gen - 1>>
    BY <2>1
  <2> QED
    BY <2>4, <2>5, Zenon DEF Lineage!Next, Lineage!Share
<1>3. ASSUME ~Insert(t), ~CommitElsewhere(t)
      PROVE  UNCHANGED lin
  BY <1>3 DEF Step, Session, BeginMarks, BeginLineage, CheckMarks, CheckRoute,
              CheckLineage, Authority, ReadWatermarks, CheckLive, Commit,
              Lock, Reevaluate, ReadMarks, Evaluate, Index, Notify, Fence,
              Announce, AnnouncePath, AdvanceEpoch, NothingNew, Collect,
              Relock, Recompute, Unlock, Elsewhere, OverwriteIndex,
              sharedVars
<1> QED
  BY <1>1, <1>2, <1>3, SharedKept

\* Interleaved at its locks, the lineage implements the abstract one: its
\* generation only grows, or is published again when another lineage shares
\* the route, and what a retirement ended stays ended.
THEOREM RaceRefinesRouteLineage == Spec => RefinesRouteLineage
<1>1. Init => Lineage!Init
  <2> SUFFICES ASSUME Init PROVE Lineage!Init
    OBVIOUS
  <2>1. Shared = FALSE
    BY DEF Init, Shared
  <2>2. lin.life = "Active" /\ lin.gen - 1 = 0
    BY DEF Init
  <2> QED
    BY <2>1, <2>2, Zenon DEF Lineage!Init
<1>2. Inv /\ [Next]_vars => [Lineage!Next]_<<lin.life, lin.gen - 1, Shared>>
  <2> SUFFICES ASSUME Inv, [Next]_vars
               PROVE  [Lineage!Next]_<<lin.life, lin.gen - 1, Shared>>
    OBVIOUS
  <2>1. CASE UNCHANGED vars
    <3>1. UNCHANGED <<call, outcome, lin>>
      BY <2>1 DEF vars, threadVars, sharedVars
    <3>2. UNCHANGED <<lin.life, lin.gen - 1>>
      BY <3>1
    <3>3. Shared' = Shared
      BY <3>1 DEF Shared
    <3> QED
      BY <3>2, <3>3, Zenon
  <2>2. ASSUME NEW t \in Threads, Step(t)
        PROVE  [Lineage!Next]_<<lin.life, lin.gen - 1, Shared>>
    <3>1. CASE Lineage!Next
      BY <3>1
    <3>2. CASE UNCHANGED <<lin, Shared>>
      <4>1. UNCHANGED <<lin.life, lin.gen - 1>>
        BY <3>2
      <4> QED
        BY <3>2, <4>1, Zenon
    <3> QED
      BY <2>2, <3>1, <3>2, StepRefines
  <2> QED
    BY <2>1, <2>2 DEF Next
<1> QED
  BY <1>1, <1>2, Invariance, PTL DEF Spec, RefinesRouteLineage, Lineage!Spec

=============================================================================
