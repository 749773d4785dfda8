# A verification of the Route Provenance store

Route Provenance records why a route is in its present state: per route a *lineage* of typed
records joined by derivation edges, published by worker processes under a coordinator epoch,
with currentness recomputed when upstream authorities, sessions or epochs change. This project
models the part of it that keeps state, checks it with TLC and proves its main safety
properties with TLAPS. `PROJECT.json` maps every definition to the lines it models.

## 1. The system

| Component | State | Operations | Interacts with | Module |
|---|---|---|---|---|
| Record vocabulary, currentness (`core.cpp`, `enums.hpp`, `node.hpp`) | none | lifecycle table, edge classes, `compute_currentness` | everything | `ProvenanceRecord` |
| Derivation graph (`graph.cpp`) | records, edges, per lineage | `add_node`, `add_edge`, `check_add_edge`, `update_node_state`, `mark_revalidated`, `set_corrected_by`, `compact_node`, `traverse` | called under the lineage lock | `ProvenanceGraph` |
| Commit pipeline (`store.cpp`) | `LineageState`, attempt ledger, reverse indexes | `publish_route`, `declare`, `link_derivation`, `withdraw`, `revoke`, `retire`, `revalidate`, `invalidate`, `correct` | graph, registry, watermarks, indexes | `ProvenanceStore`, `CommitRace` |
| Publisher registry and epochs (`store_api.cpp`) | sessions, epoch, bootstrap flag | `register_publisher`, `fence_publisher`, `advance_epoch` | recomputes records by boot index | `ProvenanceStore`, `FencingHistory` |
| Dependency notifications (`store_api.cpp`) | watermarks | path, policy, evidence, plan, epoch, worker fence | recomputes records by binding index | `ProvenanceStore`, `CommitRace` |
| Two-phase publication (`store_api.cpp`) | a captured snapshot | `begin_publication`, `commit_session` | pipeline, watermarks | `CommitRace` |
| Compaction (`store_query.cpp`) | the graph | `compact` | traversal, bounded history | `ProvenanceStore` |
| Lineage registry (`store.cpp`) | lineages by identity, route index | `acquire_lineage`, `find_lineage` | capture, pipeline | `StoreFile` |
| Persistence (`persistence.cpp`) | the store file and its sidecar | `export_image`, `save`, `load` | replaces the whole store | `StoreFile`; currentness after a load: `Restart` of `ProvenanceStore` |
| Queries, explanation, diff (`store_query.cpp`, `graph.cpp`) | none | `traverse`, `explain`, `snapshot`, `compute_diff`, `validate_structure`, under the shared lock | graph | `ProvenanceQueries` |
| Coordinator server (`net.cpp`) | sessions, counters, its own authority | session loop, `handle_frame`, `close_session`, `advance_epoch`, `stop` | registry, clients, main thread | `Coordinator` |
| Publisher client (`net.cpp`) | a socket, the registered identity | `connect`, `exchange`, `hello`, `close` | server | `Coordinator` |
| `rp_coordinator` | options, store, server | load, raise epoch, serve, save, quit | persistence, server | `StoreFile`, `Coordinator` |
| Wire format (`wire.cpp`), digests and validation (`core.cpp`), other tools | none of protocol interest | encode, decode, reject | server, store | a hash is its content, a frame two halves; else not modelled |

**What is hard in it.** A commit reads the watermarks and the caller's liveness *before* it
takes the lineage lock and uses them after; it enters its record in the indexes *last*; a fence
or announcement changes shared state first, copies identities from an index, and locks the
lineage afterwards. A publication of several edges is validated edge by edge and inserted edge
by edge, so it may fail halfway. Stored currentness is a cache: it is right only if every
change finds every record it affects. Compaction rewrites records in place. A reload forgets
all sessions and rebuilds all indexes. A save collects all lineage locks while other threads commit,
and its file may be cut off at any step. The server is one thread that reads, probes, assembles,
handles and closes in passes over all sessions; a session can end in seven ways, and another thread
advances the epoch and stops the loop meanwhile. Answers carry no request number. The hazards are listed with their lines in
`PROJECT.json`.

**What makes each part correct.** Graph: acyclic, closed, within its degree bounds. Lineage:
one current record of the current generation, generations that grow, terminal states that are
final, one record per attempt, append-only history within its bound. Registry and
notifications: CURRENT only with a live session (or a revalidation) behind it, and never behind
an announced generation or epoch. Persistence: one consistent cut, old or new image in the file,
what is recovered is never of the epoch served. Server: sessions are counted once and fenced when they
end, a fenced boot commits nothing, requests are answered, a stalled peer or a stop cannot hang the
loop. Queries: exact within their bounds. Pipeline under concurrency: no increment of the store generation is
lost, no call waits for ever for its lineage lock, a retirement wins its races. One index crosses lineages: the entries of `route_generation_index` are keyed by
route and generation, and every lineage of a route shares them.

## 2. The modules

`ProvenanceRecord` ← `ProvenanceGraph` ← `ProvenanceStore` (each extends the one before);
`FencingHistory`, `StoreClaims` and `ProvenanceQueries` extend the store; `CommitRace` extends
`ProvenanceRecord`; `RouteLineage` is the abstract specification that both `ProvenanceStore` and
`CommitRace` instantiate; `Coordinator` composes the server, its clients, the main thread and the
registry part of the store; `StoreFile` composes the lineage registry, committing threads, the save and
the process. The theorems are in `ProvenanceStore_proofs` ← `StoreState_proofs` ←
`StoreGraph_proofs` (each extends the one before), `StoreComplete_proofs` and `ProvenanceQueries_proofs`, which
both extend the last, `CommitRace_proofs`, `StoreFile_proofs` and `Coordinator_proofs`; the modules `MC...` give the constants values.

**ProvenanceRecord.** The enumerations, `LifecycleSuccessors` (the transition table),
`compute_currentness` with the order of its early returns. Generation 0 is the unset identity.

**ProvenanceGraph.** `nodes` is a total function from identities to records, an unused identity
holding a record of kind `"Absent"`. An edge is its content, as an edge identity is a hash of
it, authority and attempt included. The cycle search is stated as reachability
(`Reaches`: every closed set containing the start contains the goal).

**ProvenanceStore.** One lineage and the registry around it. Every public call is one action and
covers the call to its end: insertion, lineage state, promotion of evidence targets, counters,
recomputation of the affected records and of the current one, indexes, ledger.
Calls rejected before any change are not steps; the two kinds of calls that fail *after* a
change are steps: `PartialCommit` (an edge is refused after the record and earlier edges went
in) and `register_refused` (refused after the epoch was set), and `NotifyWorkerFence` for an
unknown boot. A record's identity is a hash of its content: `IdentityOf` finds the stored record
of equal content or an unused identity, so a repeated call meets what an earlier failed one left
behind. `Restart` is a save followed by a load in a new process; a crash that loses work since an
older save is that older state followed by `Restart`.
Of the rest of the store one thing touches the lineage: another lineage of the same route. `shared` says that
one exists (`CreateElsewhere`), and `PublishElsewhere` is a publication in it, which advances the store generation
and takes over the entry of its generation in the index of the route. Stage 10 ignores a hit that is not
in its own graph, so a generation whose entry was taken over can be published again here: `genIndex` is the set of
generations whose entry still names a record of this lineage. A store with such a pair is saved but not
loaded (run `claim_unloadable`), hence no `Restart` once `shared`.

**CommitRace.** Up to one call per thread (publication, two-phase publication, retirement, fence,
path announcement, epoch advance, publication in another lineage of the route), one step per critical section.
The last one runs under another lock; it is two steps, the store generation and the index entry (`CommitElsewhere`,
`OverwriteIndex`), and `Shared` says that one was applied. `index_mutex` and
`publisher_mutex` are held for a single step and need no variable; the lineage mutex is `holder`.
The currentness of each affected record is computed in a step of its own since each reads the
liveness of its publisher separately.

**RouteLineage.** What readers of a lineage may rely on: the generation only grows, a withdrawn
route returns only with a later generation while its route has one lineage, revoked and retired are
final. Once another lineage shares the route (`Share`), the current generation may be published again, never an
earlier one.

**FencingHistory** adds a history variable to the store: every boot whose session was ever ended.
**StoreClaims** states a sentence of a test.

**Coordinator.** `sess[c]` is the `SessionState` of a connection (input buffer, assembly clock,
`registered`, `closing`, identity), `link[c]` the two directions of its socket, `client[c]` the
`ProvenanceClient`. The loop's tick is `Select` (select, accept, recv), `Probe` (the one-byte peek), one
action per frame handled (`HandleHello`, `HandlePublish`, ... and the refusals), `AwaitRest` for a partial
frame, `CloseSession`; after the loop `DrainSession` and `EndLoop`. `todo` and `serving` say how far the
frame pass is: a session is served until its input is used up. The main thread's `advance_epoch` is two
steps, as the loop may run between the store call and the assignment of the authority. A client may
stall half way through a frame, time out, or disappear with or without a reset. `store` keeps the epoch,
the registry and which requests were committed; a store call is one step (its interleavings are
`CommitRace`'s subject), and `Publish` stands for every request the store may refuse by its own rules.
A frame is two tokens: a peer can stop between them and nowhere else that the loop could tell apart.
`lapsed` is a history variable: boots whose closing fence was refused.

**StoreFile.** Several lineages, threads that publish (`Begin`, `Create`, `Refuse`, `Insert`, `Bump`: the
first and second look at the registry, the lineage lock, the store generation last), epoch announcements,
and one save: `BeginSave`, `LockLineage` in identity order, `Capture`, `OpenTmp`, `WriteTmp`, `Rename`,
`FailSave`. `windows` is the build: only that one syncs the sidecar. `Crash` and `PowerLoss` may come
between any two steps; `StartLoaded`, `StartEmpty`, `Quit` and `Exit` are the life of `rp_coordinator`. Of the
records of a lineage their number is kept, of all records the newest epoch. `log`, `outage`, `acked` and
the image's `serial` are history.

**ProvenanceQueries.** The reading algorithms as functions of a graph: `Walk` (`traverse`, with its bounds
and the failure that empties the result), `topological_order` and `validate_structure`, `explain` in its
modes, `snapshot` and `compute_diff`. Each is checked against a reference (`WithinEdges`, reachability,
`Patched`) on every graph the store reaches. A loop of the code is one operator for a turn (`Expanded`,
`TakeReady`) and a table of the loop's variables after each turn, as long as the loop can run; turns after its
end change nothing. Orders by identity are arbitrary, identities being hashes: `InDepthOrder` fixes of the sort of
an explanation's steps only the order by depth.

What is abstracted: authority scopes (they only reject); the five declaration kinds (treated alike
once validated); the content of ledger entries (an exact replay and a conflicting one both change
nothing); reason, source, evidence and digests other than their part in identity; the
`expected_*` generations in `ProvenanceStore` (they only reject; `CommitRace` keeps the store one);
`authority_generation`, `last_mutation_digest` and `compacted_node_count` (written, never read by a
guard). The reverse indexes are one set of indexed records whose keys are read from the records;
compaction leaves stale keys, but a tombstone is HistoricalOnly whoever recomputes it.
`max_visited_nodes` of the cycle search is not modelled.
A new attempt whose content equals a compacted record would be a Conflict in the code.

## 3. The runs

Every bound is a constant of the cfg. `CHECK_DEADLOCK FALSE` everywhere: with the counters capped
(or, in `race`, each thread's one call made) the model may stop; that no call hangs is
`EveryCallReturns`.

| Run | Instance | Question | Size |
|---|---|---|---|
| `lifecycle` | 4 records, 4 attempts, 3 generations, 2 epochs, all administrative actions, refused registrations, another lineage of the route publishing and taking over index entries | do long sequences of actions on current and non-current targets keep record state, current record and ledger consistent (`TypeOK`, `CurrentRecord`, `CorrectedStaysInvalid`, `CurrentOriginalIsCurrentRecord`, `OneRecordPerAttempt`, `TerminalLineageIsFrozen`) and does the lineage implement `RouteLineage`? | 52k states |
| `sessions` | 2 boots of a publisher, 2 records, one of them bound ahead of the announcements, 2 upstream generations, 2 epochs, fences of both kinds, restarts, refused registrations | is a CURRENT record always vouched for and up to date (`CurrentIsVouchedFor`, `SupersededIsNotCurrent`), is a fence final within the process (`FencedUntilRestart`), does a reload demote every CURRENT record (`RestartDemotesAll`)? | 213k |
| `graph` | 3 records, two parents and two children allowed, two edges per publication in both directions, links, corrections; explanations cut at one step, callers' depth and result bounds 1 and 2 | does the graph stay sound through half-applied commits and dropped rebound edges (`GraphSound`); do the cycle search of an insertion and the sort of a load agree (`CycleChecksAgree`); are traversals, explanations and diffs what they promise on each such graph (`TraversalIsExact`, `ExplanationIsConnected`, `DiffTellsTheStep`)? | 28k |
| `retention` | history of 2, compaction at every depth up to 3 and every budget, at most 3 results of a traversal (an ancestry may be larger), restarts | is history bounded and append-only, the explanation kept at the whole retained depth, a generation explained once (`HistoryBounded`, `HistoryIsAppendOnly`, `ExplanationIsKept`, `OneOriginalPerGeneration`)? | 65k |
| `race` | 3 threads, any of 7 kinds of calls each, among them a publication in another lineage of the route, 2 boots | do the steps of concurrent calls interleave safely (`OneRecordPerGeneration`, `RetirementWins`, `FoundIsDemoted`, `StoreGenerationCounts`, refinement), and does every call return? | 720k |
| `server` | 2 connections, 2 boots of one worker, a Hello and one request of any kind (damaged and stalled ones too), a second worker under the same boot or under a fresh one of the next epoch, 2 epochs, stop | is every session counted and its boot fenced once (`SessionsCounted`, `LiveBootHasSession`), do answers reach their requests (`AnswersMatch`), do frames that an epoch advance, a fence or a reincarnation overtook commit nothing (`FencedCommitsNothing`), is a stalled peer closed, every request answered, a stop obeyed (`StalledPeerIsClosed`, `RequestIsAnswered`, `StopEndsLoop`)? | 281k |
| `file` | 2 lineages, 2 threads, 2 publications, 2 saves, 2 starts, 3 epochs, both builds, the last generation within reach | is a capture one cut (`CaptureIsConsistent`), is nothing committed lost (`CommittedIsHeld`), is the file whole and loadable (`FileIsWhole`, `SavedLoads`), does an acknowledged save survive (`SavedSurvives`), is what is recovered old (`RecoveredIsOld`)? | 2.6M |

Why the bounds suffice: a property relates at most two records and the current one, plus the
operation's own record, so four identities let each role be a different record; three generations
give a predecessor, a current and a stale one; two boots, two upstream generations and two epochs
give "old" and "new"; three threads put two racing calls around a third;
two connections let one session end while another registers the same boot, supersedes it or is being
served; two saves let the second fail over the first, two starts recover what a crash left, and a last
generation of two is exhausted by the third commit or announcement. Identities, attempts and
(in `sessions`) boots are symmetric; no temporal property with fairness is checked under symmetry.

Fairness: `race` uses weak fairness of each thread. Threads are scheduled by the operating system,
a call has finitely many steps, and the lineage lock is free infinitely often as long as its holder
runs, so a waiting thread is eventually served among finitely many calls.
`server` assumes weak fairness of the loop thread (`ServerStep`: the thread runs, and `select` has a
timeout, so a tick always comes), and that the main thread finishes an `advance_epoch` or a `join` it is
at. Nothing is assumed of clients, nor that the main thread ever issues a command.

Conditions under which these hold, which are part of what the runs say:
- `SupersededIsNotCurrent` speaks of coordinator epochs only in a process that loaded nothing: a registration
  that raises the epoch *after a reload* recomputes nothing (`store_api.cpp:138`), and records of the reloaded
  epoch revalidated meanwhile stay CURRENT.
- `lifecycle`, `sessions` and `retention` attach at most one edge per publication. With two, a half-applied
  publication can be completed without being indexed (run `claim_republish`), and the index-based
  properties (`OneOriginalPerGeneration`, refinement, `CurrentIsVouchedFor`) then have no index to rest on.
- `CurrentIsVouchedFor` and `SupersededIsNotCurrent` say that no record is CURRENT *behind* an announcement. A
  record bound *ahead* of it may be CURRENT, and `RestartDemotesAll` excepts one such case (section 5).
- `ExplanationIsKept` excepts a compaction whose ancestry, within the depth it was asked to retain, exceeds
  `max_query_results` (see section 5); the run reaches ancestries on both sides of the bound.
- `OneOriginalPerGeneration`, its counterpart in `OneRecordPerGeneration`, and the strict growth of generations
  in `RefinesRouteLineage` are about a lineage whose route has no other lineage. With another one they fail (section
  5), and the refinement keeps only what is left: a generation may be repeated but never decreases. `lifecycle`
  and `race` contain that case, `retention` does not; the other properties of these runs hold with it.
- `LiveBootHasSession` excepts boots whose closing fence was refused (run `claim_lost_fence`), and each
  connection presents boots of one publisher: a second Hello for another one replaces the session's
  identity, and the first boot is never fenced.
- `AnswersMatch` is about clients none of whose exchanges timed out (see section 5).
- `RequestIsAnswered` excepts queries, whose answer may exceed the frame bound, and a loop that has ended.
- `SavedLoads` excepts two lineages of one route (run `claim_unloadable`) and an exhausted store generation.
- The type invariants of `Coordinator` and `StoreFile` are proved (section 6) and not checked again.
- `server` has room for both its connections; that the bound on sessions is kept when there are more is
  proved (section 6).

## 4. Violations of documented statements

| Run | Statement | What happens |
|---|---|---|
| `claim_republish` | test_adversarial.cpp:125, "The same generation with different provenance is a conflict, not a second record." | a publication refused at its second edge leaves record and first edge; the same attempt without that edge is a Duplicate that becomes current but is not indexed; another record of that generation is then accepted |
| `claim_fence_restart` | authority.hpp:99, "A fenced boot may never publish again" | fences are not in the saved image |
| `claim_race_fence` | test_race.cpp:201, a racing publication ends FencedPublisher | a fence between the commit's currentness computation and its index insertion finds no record to demote |
| `claim_lost_fence` | README.md:160, "A session that ends — by clean disconnect or by process death — fences that worker boot permanently" | a session closed between the two steps of `advance_epoch` is fenced with the old epoch's authority; the store refuses, `close_session` ignores it, the boot stays live |
| `claim_unloadable` | persistence.hpp:44, "Encode and decode are symmetric and both perform full structural validation" | two lineages of one route are accepted, saved with Ok, and refused by `load` as a duplicate route identity |

## 5. Other divergences met while modelling

These follow from the same models (and were seen in traces) but have no run of their own.

- A retirement recomputes its action record, its target and the current record only; another CURRENT
  record of the lineage, such as an earlier action record, stays CURRENT (test_store.cpp:411; store.cpp:889).
- The generation index is keyed by route and generation and shared by all lineages of a route
  (store_internal.hpp:150). Stage 10 ignores a hit whose record is not in the lineage's own graph
  (store.cpp:531), and a commit overwrites the entry of another lineage (store.cpp:947). After another lineage
  of the route has published a generation, a second, different record of it is accepted here, and a withdrawn route
  returns with the same generation (test_adversarial.cpp:125).
- A corrected record can be corrected again; both replacements are CURRENT (README.md:121; store.cpp:589).
- A record bound ahead of the first announcement stays CURRENT when a smaller generation is announced:
  announcements reach bindings *below* them, `compute_currentness` tests for *different*
  (README.md:107; store_api.cpp:289). Revalidated while its binding is ahead, it is stale; when the announcements
  catch up nothing recomputes it, until a load does and reports it CURRENT (persistence.cpp:576).
- A rebound edge of a correction that does not fit is dropped silently (README.md:122; store.cpp:868).
- Compaction turns an Invalid record into a Historical tombstone (README.md:121; store_query.cpp:773).
- An invalidated declaration without a route generation makes every compaction of its lineage fail
  (store.cpp:743; store_query.cpp:784).
- The status of the ancestry traversal is ignored: an ancestry above `max_query_results` is unprotected
  (store.hpp:220; the comment at store_query.cpp:717, "never pruned"; store_query.cpp:733).
- A WorkerFence notification does not set the fenced mark, so the boot may register again
  (authority.hpp:99; store_api.cpp:404).
- A publication that passed its liveness check may be inserted after the fence returned
  (test_race.cpp:194; store.cpp:433); an expected store generation is compared with a snapshot older than
  the lock (authority.hpp:84; store.cpp:473); `commit_session` does not repeat its checks under the lock
  (store.hpp:161; store_api.cpp:842).
- A record recovered after a restart and revalidated stays StaleEpoch when the epoch was raised, because its
  publication epoch is compared before the revalidated mark (README.md:261; store.cpp:894).
- A record left by a half-applied commit is not in the node index: `explain` and the node queries do not find
  it until a reload rebuilds the index.

Server and client:
- `advance_epoch` says "Sessions registered under the previous epoch are fenced" (net.cpp:987): they are not
  fenced, their requests are refused.
- `advance_epoch` writes the coordinator authority while the loop reads it, without synchronisation. The model
  takes the assignment as one step; a torn read could only be refused by the store, as in `claim_lost_fence`.
- After a client timed out, the late answer is taken for the answer of its next request and every later one is
  off by one (net.cpp:1055).
- A query answer above `max_frame_bytes` is dropped silently; the client waits until its budget ends.
- A peer that cannot drain a response should fail its session "instead of pinning the loop" (net.cpp:103): the send
  waits up to the exchange budget in the loop, and only a failed HelloAck closes the session; other failed sends are
  noticed by the next read or probe.
- A `FenceNotice` is judged by the authority in its payload, all other requests by the session's identity.
- The publisher registry never shrinks: after `max_publishers` boots no worker can register until a restart.
- An interrupted `select` ends the loop like a failure does.

Persistence:
- Only Windows syncs before the rename, though persistence.hpp:66 says "flushed to stable storage, and then
  renamed"; `FileIsWhole` excepts a power loss there. Concurrent `save` calls of a library user share one
  sidecar; `rp_coordinator` saves from one thread, as in the model.
- A coordinator killed before its first save under a new epoch takes the same epoch again; a start without `--load`
  overwrites the old file on exit.
- A commit that fails on the last store generation leaves a record; if it is the lineage's first, the saved
  image has a lineage generation of 0 and `load` refuses it.

Queries:
- `explain` and `traverse` do not report that the depth bound cut them (README.md:133); an ImmediateCause explanation
  may contain edges between two direct causes.
- A diff names the action record of a revocation or retirement and the corrected record of a correction; it shows
  a compaction or a revalidated mark only through the lineage generation. A snapshot without history keeps edges
  to records it leaves out.

## 6. The proofs

The theorems hold for every value of the constants allowed by `NodeIdAssumption` (finitely many
identities, `None` not one of them), `LimitsAreValid` and `StoreAssumption` (bounds are naturals, bindings
and edge types come from their types). In particular any number of edges per publication: half-applied
commits and their completion are included.

`ProvenanceStore_proofs`:

| Theorem | Statement | Argument |
|---|---|---|
| `TypeCorrect` | `Spec => []TypeOK` | one lemma per operation, on lemmas about `reevaluate`, `update_node_state`, `EdgeList`, `Finish`, `PartialCommit` |
| `CurrentRecordHolds` | `Spec => []CurrentRecord` | `StepShape`, below; `TypeOK /\ CurrentRecord` is inductive |
| `HistoryAppendOnly` | `Spec => HistoryIsAppendOnly` | `StepShape` |
| `TerminalFrozen` | `Spec => TerminalLineageIsFrozen` | `StepShape`; growth needs an open lineage, and in a retired one `compute_currentness` only yields HistoricalOnly |

`StepShape` is the core of the last three: under `TypeOK` every step is *Quiet* (contents, edges
and head of the lineage unchanged), *Pruning* (some history records other than the current one become
tombstones that keep their generation) or *Growth* (the lineage is open, nothing recorded changes content,
and the head stays, moves to a route state of the new generation, or to a correction of equal kind and
generation). `Core` is what a record identity is a hash of; the lemmas `...Core` show that each helper
preserves it. The case that is easy to get wrong is a publication whose identity already exists:
`IdentityOf` makes the stored record's content equal to the new one (`AddNodeCore`).

`StoreState_proofs` refines this to the states of the records. `CommitForm` and `LinkForm` say that every
committing call, complete or stopped at an edge, inserts a record or finds it, ages a few records, and recomputes
those and the current one; the invariants are proved once for these forms.

| Theorem | Statement | Argument |
|---|---|---|
| `CorrectedRecordsStayInvalid` | `Spec => []CorrectedStaysInvalid` | `StateInv`: the state fields of a record agree with each other (`Coherent`: history is HistoricalOnly, a revalidated record was declared valid once), and a correction marker leads to a present replacement; the transition table has no way out of Invalid but compaction, which clears the marker |
| `HistoryStaysBounded` | `Spec => []HistoryBounded` | part of `StateInv`: the counter is the number of history records after each form, and a commit, which starts below the limit, adds at most one |
| `FencedForGood` | `Spec => FencedUntilRestart` | case by action |
| `ReloadDemotes` | `Spec => RestartDemotesAll` | after a load all sessions are Unknown, so a record can be CURRENT only if it is revalidated and not marked RevalidationRequired, as a load marks each record that was CURRENT; `Coherent` closes the remaining lifecycles |

`StoreGraph_proofs`:

| Theorem | Statement | Argument |
|---|---|---|
| `GraphAlwaysSound` | `Spec => []GraphSound` | `GraphInv` adds that the edges are finite. One accepted edge keeps a graph acyclic: a cycle through it would be a path back from its target, which `check_add_edge` looked for. `EdgeList` and the rebound edges of a correction insert one accepted edge after another, and every state in between is sound, so a half-applied commit is as well |
| `ExplanationSurvives` | `Spec => ExplanationIsKept` | only `Compact` makes a summary, and it leaves out what `Protected` names. When the ancestry within the retained depth does not exceed the result bound the walk succeeds and returns all of it; above the bound it fails, its status is ignored, and nothing is protected (section 5), which is what the property excepts. Under the default limits (results and nodes both 4096) that never happens |

`StoreComplete_proofs` is about what a half-applied commit breaks. It leaves a record that no index knows
(`claim_republish`), so each statement below is false of some behaviour with two edges per publication; TLC finds
a violation of every one of them there. `NothingHalfInserted == Present(nodes) \subseteq indexed` is what
is lost, and the theorems hold of the behaviours that keep it.

| Theorem | Statement | Argument |
|---|---|---|
| `AttemptsNameOneRecord`, `GenerationsHaveOneOriginal`, `OnlyHeadIsCurrent` | `Spec /\ []NothingHalfInserted => []P`, P one of `OneRecordPerAttempt`, `OneOriginalPerGeneration`, `CurrentOriginalIsCurrentRecord` | `RegistryInv`: the ledger knows every record and, while no other lineage shares the route, the generation index every generation; and among the originals only the current record is not past |
| `CurrentIsVouched`, `SupersededIsNeverCurrent` | the same of `CurrentIsVouchedFor` and `SupersededIsNotCurrent` | `VouchInv`: every fence, registration, announcement, epoch and reload finds each record it affects, as all are indexed, and recomputes it |
| `StoreRefinesRouteLineage` | `Spec /\ []NothingHalfInserted => RefinesRouteLineage` | step simulation from `RegistryInv`: while the route has one lineage a publication of a recorded generation is refused, so a withdrawn route returns with a later one; once it is shared the generation still cannot decrease |
| `RoomyGraphsComplete` | `OutgoingSpecs` implies `Spec /\ []HasRoom => []NothingHalfInserted` | `HasRoom`: every record has room for the edges of one more publication below the degree bounds; `OutgoingSpecs`: publications attach no RevokedBy or RetiredBy edge. Stage 12 checks the edge bound and the endpoints, the edges all leave a record that is new, or the only one enters it, so they close no cycle, and nothing is left for the insertion to refuse. Nothing is assumed of the limits: under the defaults (64 parents and 64 children of a record, 16384 edges of a lineage) the condition of the other theorems is met as long as no record comes within one publication of its degree bounds |

`ProvenanceQueries_proofs`, about the reading algorithms on every graph the store can reach, from
`QueryLimitsAreValid` in addition (the bounds agree with each other, as `Limits::validate` demands):

| Theorem | Statement | Argument |
|---|---|---|
| `CycleChecksAlwaysAgree` | `Spec => []CycleChecksAgree` | `SortInv`, on every turn of the sort: the order lists different records after all their parents, a degree counts the parents not yet listed, and ready are those with none left. In an acyclic graph every set of records has one without a parent in it, so the sort never stalls; conversely a complete order leaves no cycle. The search of `add_edge` is exact: a path from target to origin closes a cycle with the new edge and no other new edge does |
| `TraversalAlwaysExact` | `Spec => []TraversalIsExact` | `QueueInv`, on every turn of the walk: different records at their distances, in order of distance; those waiting are at most one less deep than any other; what is next to an expanded entry was queued. So a finished walk has all of `WithinEdges`, one that grew too large had too much to report, and the visited bound never decides |
| `ExplanationAlwaysConnected` | `Spec => []ExplanationIsConnected` | from the exact walk: every record of it but the subject was reached by an edge from a less deep one, so in depth order the step that arrives at a record stands before those that leave it, and a cut keeps a prefix |
| `DiffAlwaysTells` | `Spec => DiffTellsTheStep` | `StateTells`: every step that touches a record advances the lineage generation, adds a record (a half-applied commit), or changes a lifecycle or currentness (a notification, a reload); no edge and no record disappears. `Parts` and `Tells` say what the entries of a diff are about, so that applying them gives the later snapshot, whatever the two are |

The lemmas behind them hold of every closed finite graph and of every origin, direction, filter, depth and result
bound, not only of the callers' bounds that the properties name.

`CommitRace_proofs`, for any finite set of threads, any boots and generations and any calls, from `RaceAssumption`:

| Theorem | Statement | Argument |
|---|---|---|
| `RaceTyped` | `Spec => []TypeOK` | one lemma per step |
| `RaceOneRecordPerGeneration` | `Spec => []OneRecordPerGeneration` | `MutexInv` (the mutex is held by the one thread inside), `LockInv` (what a commit checked still holds when it inserts), `RecordInv` (a record is indexed when the mutex is released; unless another lineage of the route has published, all generations but the holder's are in the index) |
| `RaceRetirementWins` | `Spec => []RetirementWins` | `CurInv`: in a retired lineage only the current record may be CURRENT, and only while the retirement still holds the lock |
| `RaceFoundIsDemoted` | `Spec => []FoundIsDemoted` | `EffectInv`, `FoundInv`: a notification changes the watermarks before it locks, so whoever evaluates one of its records later uses watermarks that show the change |
| `RaceStoreGenerationCounts` | `Spec => []StoreGenerationCounts` | the number of calls that took effect, by cardinality: each step adds at most one |
| `RaceRefinesRouteLineage` | `Spec => RefinesRouteLineage` | only an insertion moves the lineage, and `LockInv` makes it a step of the abstract one, `CommitElsewhere` being the one that may share the route |

The invariants were checked by TLC on the instance of `race` first, `FoundInv` and `CurInv` being the ones that
took several attempts: an evaluation that began before a notification may still be running when it returns.

`StoreFile_proofs`, for any number of lineages, threads, saves and starts, from `StoreFileAssumption` and
`TornAssumption`:

| Theorem | Statement | Argument |
|---|---|---|
| `StoreFileTyped` | `Spec => []TypeOK` | one lemma per action |
| `StoreFileIsWhole` | `Spec => []FileIsWhole` | `FileInv`: a rename happens only after the sidecar was written: `pc = "rename"` implies the sidecar is not Torn, and it is synced on Windows; a file synced or not torn stays whole without an outage |
| `AcknowledgedSaveSurvives` | `Spec => []SavedSurvives` | `SaveInv`, on serials: the image being saved is at least as new as the last acknowledged one, and the file at least as new as that |
| `CommitsAreHeld` | `Spec => []CommittedIsHeld` | `HeldInv`: the same also of the captured image and of the image in the file, since both come back by a load; a lineage not in the registry has no commits, which makes creating it harmless |
| `RecoveredRecordsAreOld` | `Spec => []RecoveredIsOld` | `HeldInv`: no publication under way carries an epoch above the store's, so no image holds a record newer than its epoch |
| `CapturesAreConsistent` | `Spec => []CaptureIsConsistent` | `CutInv`: the store generation is the number of commits, a lineage has a record for each of its commits and one for the commit that holds its lock, and while the save holds a lock no commit does |
| `SavedImagesLoad` | `Spec => []SavedLoads` | `CutInv` carries the same over to the image being saved and to the file, together with the size check of the encoder |

`Coordinator_proofs`, for any finite set of connections, any script of requests and any bounds, from
`CoordinatorAssumption`:

| Theorem | Statement | Argument |
|---|---|---|
| `CoordinatorTyped` | `Spec => []TypeOK` | one lemma per action on lemmas about the halves of a frame, `Becomes` and `close_session` |
| `SessionsAreCounted` | `Spec => []SessionsCounted` | `OnceInv`: a queued connection has never had a session, so no accept re-opens one; the cardinality lemmas follow the pass of `Select`. The bound on sessions, which the run's instance does not reach, is covered here |
| `FencedBootsCommitNothing` | `Spec => FencedCommitsNothing` | from `TypeOK`: the pass only reaches open sessions, and an authorized identity is of the present epoch, a live boot, and the boot that sent the frame |
| `LiveBootsHaveSessions` | `OnePublisher` implies `Spec => []LiveBootHasSession` | `OnePublisher` says each connection presents boots of one publisher; the invariant carries that over from the script to frames, buffers and sessions, so that a second Hello fences what the first registered |
| `AnswersReachRequests` | `Spec => []AnswersMatch` | `ExchangeInv`: between a client that has not timed out and the coordinator there is at most one request, in halves on the socket and in the input buffer, or one answer, which is the answer to it |

What a recursive definition computes is usually shown by induction, which the installed provers cannot instantiate.
The lemmas about `SumFunction` (`StoreFile_proofs`), `Within` (`StoreGraph_proofs`) and the loops of
`ProvenanceQueries` argue by a least counterexample instead: `LeastNumber`, from the library's well-foundedness of
strict inclusion of finite sets, gives the smallest number at which the claim would fail, and the recursion equation
refutes it. That a recursive function has a value satisfying its equation at all is shown in the same way
(the tables `Turns`, `Queues` and `Circles`).

In all, 36 of the 40 properties of the passing runs are stated by a theorem, some under the conditions given above. Only model-checked: the violations of
section 4, and the liveness properties `EveryCallReturns`, `StalledPeerIsClosed`, `RequestIsAnswered` and
`StopEndsLoop`, since fairness is outside the prover's reach.

## 7. Status and what is left

Done: record, graph, store, abstract lineage, race, fencing history, queries, coordinator, store file; the theorems
above, among them both refinements of the abstract lineage and every safety and action property of the passing runs,
some under the conditions the tables name.
Left: a larger `server` instance with more connections than `max_sessions` (the bound is covered by the theorem
`SessionsAreCounted`, the liveness properties at the bound are not), and the node bound of the cycle search.

Not modelled, and why: the field codecs of the wire format and the byte layout of the store file (encoders without
state; a file damaged otherwise than by a cut is caught by its SHA-256 check, assumed collision free); index queries by
publisher, boot or evidence, text and JSON views, argument parsing and the one-shot requests of `rp_publisher` and
`rpctl` (they format what they read); the statistics counters (written, never read by a guard).
