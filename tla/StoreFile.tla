----------------------------- MODULE StoreFile -----------------------------
(***************************************************************************)
(* The store file of a coordinator: the capture of a running store by      *)
(* export_image, its atomic replacement on disk and its reload             *)
(* (persistence.cpp), the lineage registry that the capture walks          *)
(* (acquire_lineage in store.cpp), and the life of the rp_coordinator      *)
(* process around them.                                                    *)
(*                                                                         *)
(* Threads of the server commit while the main thread saves; the process   *)
(* may be killed between any two steps, and the machine may lose power.    *)
(* Of the records of a lineage their number is kept, and of all records    *)
(* the newest epoch.  What a commit may contain is in ProvenanceStore,     *)
(* what load does to currentness in its action Restart.                    *)
(***************************************************************************)
EXTENDS Integers, Sequences, FiniteSets, Functions

CONSTANTS
    Lineages,            \* the lineage identities, 1..n: the map's order
    RouteOf,             \* RouteOf[l]: the route in the key of lineage l
    Writers,             \* threads that publish
    None, Torn,          \* no value; the content of a file cut off
    MaxLineages,         \* Limits::max_lineages
    MaxNodes,            \* Limits::max_nodes_per_lineage
    MaxPersistenceNodes, \* Limits::max_persistence_nodes
    LastGeneration,      \* the last store generation
    FirstEpoch,          \* the epoch of a start without --load
    MaxEpoch,            \* bound: epochs
    MaxStarts,           \* bound: starts of the process
    MaxPublications,     \* bound: publications begun
    MaxSaves             \* bound: images captured

ASSUME StoreFileAssumption ==
    /\ Lineages \subseteq Nat /\ IsFiniteSet(Lineages)
    /\ None \notin Lineages /\ None # Torn
    /\ {MaxLineages, MaxNodes, MaxPersistenceNodes, LastGeneration, MaxEpoch,
        MaxStarts, MaxPublications, MaxSaves} \subseteq Nat
    /\ FirstEpoch \in 1..MaxEpoch /\ MaxStarts > 0

VARIABLES
    process,    \* "down", "up", or "quitting" once the server was stopped
    mem,        \* the store: lineages, store generation and epoch, the newest
                \* epoch of a record, and of a record that load recovered
    count,      \* of the processes and of the publications so far
    log,        \* history: the store generations spent on each lineage, and on
                \* notifications (None)
    writer,     \* the publications under way
    saver,      \* the save under way
    disk,       \* the store file and its sidecar
    windows,    \* the build: only the Windows one commits the file to disk
    outage,     \* history: power was lost
    acked       \* history: the last image whose save was reported Ok

memVars  == <<mem, log>>
fileVars == <<disk, outage, acked>>
vars == <<process, count, memVars, writer, saver, fileVars, windows>>

-----------------------------------------------------------------------------
(* State *)

Epochs == 1..MaxEpoch

\* A lineage: whether it is in the registry, its records and its generation.
Line == [known : BOOLEAN, recs : Nat, lgen : Nat]

NoLine  == [known |-> FALSE, recs |-> 0, lgen |-> 0]
NewLine == [known |-> TRUE, recs |-> 0, lgen |-> 0]

\* What a store generation is spent on: a lineage, or None for notifications.
Spent == Lineages \cup {None}

\* log and serial are for the properties only: what was committed when the
\* image was captured, and the number of the capture.
Images == [lines : [Lineages -> Line],
           gen : 0..LastGeneration, epoch : Epochs, newest : 0..MaxEpoch,
           log : [Spent -> Nat],
           serial : 1..MaxSaves]

\* The store file holds an image or a part of one; synced says whether it is
\* known to be on the disk.  The sidecar file is a part of the image being
\* saved, all of it, or all of it and synced; nobody reads one left behind.
Files == [content : Images \cup {Torn}, synced : BOOLEAN]

\* No file and a file cut off are told apart from every other.
ASSUME TornAssumption ==
    None \notin Files /\ Torn \notin Images \cup {"written", "synced"}

Sidecars == {None, Torn, "written", "synced"}

File(content, synced) == [content |-> content, synced |-> synced]

Stores == [lines : [Lineages -> Line], gen : 0..LastGeneration,
           epoch : Epochs, newest : 0..MaxEpoch, recovered : 0..MaxEpoch]

Counts == [starts : 1..MaxStarts, publications : 0..MaxPublications]

Publications == [pc : {"idle", "create", "wait", "inserted"}, lin : Spent,
                 epoch : Epochs]

Saves == [pc : {"idle", "lock", "open", "write", "rename"},
          held : SUBSET Lineages, image : Images \cup {None},
          serial : 0..MaxSaves]

Disks == [file : Files \cup {None}, tmp : Sidecars]

Idle == [pc |-> "idle", lin |-> None, epoch |-> FirstEpoch]
NotSaving == [pc |-> "idle", held |-> {}, image |-> None, serial |-> 0]

EmptyStore == [lines |-> [l \in Lineages |-> NoLine], gen |-> 0,
               epoch |-> FirstEpoch, newest |-> 0, recovered |-> 0]

NoLog == [l \in Spent |-> 0]

Known(lines) == {l \in Lineages : lines[l].known}

Registry == Known(mem.lines)

RecordCount(lines) == SumFunction([l \in Lineages |-> lines[l].recs])

Init ==
    /\ process = "up"
    /\ mem = EmptyStore
    /\ count = [starts |-> 1, publications |-> 0]
    /\ log = NoLog
    /\ writer = [w \in Writers |-> Idle]
    /\ saver = NotSaving
    /\ disk = [file |-> None, tmp |-> None]
    /\ windows \in BOOLEAN
    /\ outage = FALSE
    /\ acked = 0

-----------------------------------------------------------------------------
(* Publications: the registry, the lineage lock and the generations *)

\* Stage 4 reads the epoch the record will carry; acquire_lineage looks at the
\* registry under its shared lock.
Begin(w, l) ==
    /\ process = "up" /\ writer[w].pc = "idle"
    /\ count.publications < MaxPublications
    /\ count' = [count EXCEPT !.publications = @ + 1]
    /\ writer' = [writer EXCEPT ![w] =
                     [pc |-> IF l \in Registry THEN "wait" ELSE "create",
                      lin |-> l, epoch |-> mem.epoch]]
    /\ UNCHANGED <<process, memVars, saver, fileVars, windows>>

\* Mutant: the registry is not looked at again under the exclusive lock.
Create_NoRecheck(w) ==
    LET l == writer[w].lin
    IN /\ writer[w].pc = "create"
       /\ saver.pc # "lock"
       /\ mem' = [mem EXCEPT !.lines[l] = NewLine]
       /\ writer' = [writer EXCEPT ![w].pc = "wait"]
       /\ UNCHANGED <<process, count, log, saver, fileVars, windows>>

\* acquire_lineage, under the exclusive registry lock: another thread may have
\* created the lineage meanwhile.  The new lineage stays, whatever becomes of
\* the publication.
Create(w) ==
    LET l == writer[w].lin
        full == Cardinality(Registry) >= MaxLineages
    IN /\ writer[w].pc = "create"
       /\ saver.pc # "lock"
       /\ mem' = IF l \in Registry \/ full THEN mem
                 ELSE [mem EXCEPT !.lines[l] = NewLine]
       /\ writer' = [writer EXCEPT
                        ![w] = IF l \notin Registry /\ full THEN Idle
                               ELSE [@ EXCEPT !.pc = "wait"]]
       /\ UNCHANGED <<process, count, log, saver, fileVars, windows>>

\* No writer holds the lineage lock.
NoWriter(l) ==
    \A w \in Writers : ~(writer[w].pc = "inserted" /\ writer[w].lin = l)

\* The lineage lock is free for a writer.
Free(l) == l \notin saver.held /\ NoWriter(l)

\* Stages 7 to 13 refuse the publication.
Refuse(w) ==
    /\ writer[w].pc = "wait" /\ Free(writer[w].lin)
    /\ writer' = [writer EXCEPT ![w] = Idle]
    /\ UNCHANGED <<process, count, memVars, saver, fileVars, windows>>

\* The lineage lock is taken and the record inserted.
Insert(w) ==
    /\ writer[w].pc = "wait" /\ Free(writer[w].lin)
    /\ mem.lines[writer[w].lin].recs < MaxNodes
    /\ mem' = [mem EXCEPT
                  !.lines[writer[w].lin].recs = @ + 1,
                  !.newest = IF writer[w].epoch > @ THEN writer[w].epoch
                             ELSE @]
    /\ writer' = [writer EXCEPT ![w].pc = "inserted"]
    /\ UNCHANGED <<process, count, log, saver, fileVars, windows>>

\* The bookkeeping, still under the lineage lock.  Once the store generation
\* is exhausted the call fails, and its record stays.
Bump(w) ==
    LET l == writer[w].lin
        ok == mem.gen < LastGeneration
    IN /\ writer[w].pc = "inserted"
       /\ mem' = IF ok THEN [mem EXCEPT !.gen = @ + 1, !.lines[l].lgen = @ + 1]
                 ELSE mem
       /\ log' = IF ok THEN [log EXCEPT ![l] = @ + 1] ELSE log
       /\ writer' = [writer EXCEPT ![w] = Idle]
       /\ UNCHANGED <<process, count, saver, fileVars, windows>>

\* notify_dependency moves the epoch, under the index lock alone.  When the
\* store generation is exhausted it fails, and the epoch has moved.
Notify(e) ==
    LET ok == mem.gen < LastGeneration
    IN /\ process = "up" /\ e > mem.epoch
       /\ mem' = [mem EXCEPT !.epoch = e, !.gen = IF ok THEN @ + 1 ELSE @]
       /\ log' = IF ok THEN [log EXCEPT ![None] = @ + 1] ELSE log
       /\ UNCHANGED <<process, count, writer, saver, fileVars, windows>>

WriterStep(w) ==
    Create(w) \/ Refuse(w) \/ Insert(w) \/ Bump(w)

-----------------------------------------------------------------------------
(* save *)

\* export_image takes the registry lock.  The save on exit starts when the
\* server thread has been joined.
BeginSave ==
    /\ saver.pc = "idle" /\ saver.serial < MaxSaves
    /\ \/ process = "up"
       \/ process = "quitting" /\ \A w \in Writers : writer[w] = Idle
    /\ saver' = [saver EXCEPT !.pc = "lock", !.image = None]
    /\ UNCHANGED <<process, count, memVars, writer, fileVars, windows>>

\* The lineages are locked in the order of their identities.
LockLineage ==
    /\ saver.pc = "lock"
    /\ \E l \in Registry \ saver.held :
          /\ \A k \in Registry : k < l => k \in saver.held
          /\ NoWriter(l)
          /\ saver' = [saver EXCEPT !.held = @ \cup {l}]
    /\ UNCHANGED <<process, count, memVars, writer, fileVars, windows>>

\* Mutant: each lineage is copied under its own lock only, and the watermarks
\* before any of them is taken.
Capture_Unlocked ==
    /\ saver.pc = "lock"
    /\ saver' = [pc |-> "open", held |-> {}, serial |-> saver.serial + 1,
                 image |-> [lines |-> mem.lines, gen |-> mem.gen,
                            epoch |-> mem.epoch, newest |-> mem.newest,
                            log |-> log,
                            serial |-> saver.serial + 1]]
    /\ UNCHANGED <<process, count, memVars, writer, fileVars, windows>>

\* With every lock held the watermarks are read and the lineages copied; no
\* commit can come between.  Then the locks are released.
Capture ==
    /\ saver.pc = "lock"
    /\ saver.held = Registry
    /\ saver' = [pc |-> "open", held |-> {}, serial |-> saver.serial + 1,
                 image |-> [lines |-> mem.lines, gen |-> mem.gen,
                            epoch |-> mem.epoch, newest |-> mem.newest,
                            log |-> log,
                            serial |-> saver.serial + 1]]
    /\ UNCHANGED <<process, count, memVars, writer, fileVars, windows>>

\* What the process held in memory is gone.
Ended ==
    /\ process' = "down"
    /\ mem' = EmptyStore
    /\ log' = NoLog

\* The save returns; after the one on exit the process ends.
Returned ==
    /\ saver' = [NotSaving EXCEPT !.serial = saver.serial]
    /\ \/ process = "quitting" /\ Ended
       \/ process = "up" /\ UNCHANGED <<process, memVars>>

\* encode_store_image refuses a store with too many records.
Encodes == RecordCount(saver.image.lines) <= MaxPersistenceNodes

\* Mutant: the store file itself is opened for writing.
OpenTmp_InPlace ==
    /\ saver.pc = "open" /\ Encodes
    /\ disk' = [file |-> File(Torn, FALSE), tmp |-> Torn]
    /\ saver' = [saver EXCEPT !.pc = "write"]
    /\ UNCHANGED <<process, count, memVars, writer, outage, acked, windows>>

\* The sidecar file is created, or emptied if an earlier save left one.
OpenTmp ==
    /\ saver.pc = "open" /\ Encodes
    /\ disk' = [disk EXCEPT !.tmp = Torn]
    /\ saver' = [saver EXCEPT !.pc = "write"]
    /\ UNCHANGED <<process, count, memVars, writer, outage, acked, windows>>

\* fwrite, fflush and fclose hand the bytes to the system; only the Windows
\* build has _commit bring them to the disk.
WriteTmp ==
    /\ saver.pc = "write"
    /\ disk' = [disk EXCEPT !.tmp = IF windows THEN "synced" ELSE "written"]
    /\ saver' = [saver EXCEPT !.pc = "rename"]
    /\ UNCHANGED <<process, count, memVars, writer, outage, acked, windows>>

Rename ==
    /\ saver.pc = "rename"
    /\ disk' = [file |-> File(IF disk.tmp = Torn THEN Torn ELSE saver.image,
                              disk.tmp = "synced"),
                tmp |-> None]
    /\ acked' = saver.image.serial
    /\ Returned
    /\ UNCHANGED <<count, writer, outage, windows>>

\* Mutant: the destination was removed to make way for the rename.
FailSave_RemovesFile ==
    /\ saver.pc \in {"open", "write", "rename"}
    /\ disk' = IF saver.pc = "rename" THEN [file |-> None, tmp |-> None]
               ELSE disk
    /\ Returned
    /\ UNCHANGED <<count, writer, outage, acked, windows>>

\* A step fails, or the image is refused: the sidecar file is removed, if
\* that succeeds, and the store file is left alone.
FailSave ==
    /\ saver.pc \in {"open", "write", "rename"}
    /\ \/ disk' = disk
       \/ saver.pc # "open" /\ disk' = [disk EXCEPT !.tmp = None]
    /\ Returned
    /\ UNCHANGED <<count, writer, outage, acked, windows>>

SaveStep ==
    LockLineage \/ Capture \/ OpenTmp \/ WriteTmp \/ Rename
        \/ FailSave

-----------------------------------------------------------------------------
(* load and the life of the process *)

\* Two lineages of an image may not have the same route.
SharesRoute(im) ==
    \E k, l \in Known(im.lines) : k # l /\ RouteOf[k] = RouteOf[l]

\* Mutant: a lineage must have a generation even before its first record.
Loads_NoEmptyLineage(im) ==
    /\ RecordCount(im.lines) <= MaxPersistenceNodes
    /\ \A l \in Known(im.lines) : im.lines[l].lgen > 0
    /\ ~SharesRoute(im)

\* decode_store_image and load accept the image.
Loads(im) ==
    /\ RecordCount(im.lines) <= MaxPersistenceNodes
    /\ \A l \in Known(im.lines) :
          im.lines[l].recs > 0 => im.lines[l].lgen > 0
    /\ ~SharesRoute(im)

Whole(f) == f # None /\ f.content # Torn

\* Mutant: the coordinator goes on with the epoch it finds in the file.
NextEpoch_Same(im) == im.epoch

\* The coordinator registers with the epoch after the one in the file.
NextEpoch(im) == im.epoch + 1

\* rp_coordinator --load; a refused load ends the process.
StartLoaded ==
    LET im == disk.file.content
    IN /\ process = "down" /\ count.starts < MaxStarts
       /\ Whole(disk.file) /\ Loads(im)
       /\ NextEpoch(im) <= MaxEpoch
       /\ mem' = [lines |-> im.lines, gen |-> im.gen, epoch |-> NextEpoch(im),
                  newest |-> im.newest, recovered |-> im.newest]
       /\ count' = [count EXCEPT !.starts = @ + 1]
       /\ log' = im.log
       /\ process' = "up"
       /\ UNCHANGED <<writer, saver, fileVars, windows>>

\* A start without --load ignores the file.
StartEmpty ==
    /\ process = "down" /\ count.starts < MaxStarts
    /\ mem' = EmptyStore
    /\ count' = [count EXCEPT !.starts = @ + 1]
    /\ log' = NoLog
    /\ process' = "up"
    /\ UNCHANGED <<writer, saver, fileVars, windows>>

Quit ==
    /\ process = "up" /\ saver.pc = "idle"
    /\ process' = "quitting"
    /\ UNCHANGED <<count, memVars, writer, saver, fileVars, windows>>

\* --no-save-on-exit
Exit ==
    /\ process = "quitting" /\ saver.pc = "idle"
    /\ \A w \in Writers : writer[w] = Idle
    /\ Ended
    /\ UNCHANGED <<count, writer, saver, fileVars, windows>>

Killed ==
    /\ process # "down"
    /\ Ended
    /\ writer' = [w \in Writers |-> Idle]
    /\ saver' = [NotSaving EXCEPT !.serial = saver.serial]

Crash ==
    /\ Killed
    /\ UNCHANGED <<count, fileVars, windows>>

\* The machine loses power, and with it what of the file was not synced.
\* (A lost rename would leave the earlier file.)
PowerLoss ==
    /\ Killed
    /\ outage' = TRUE
    /\ \/ disk' = disk
       \/ /\ disk.file # None /\ ~disk.file.synced
          /\ disk' = [disk EXCEPT !.file.content = Torn]
    /\ UNCHANGED <<count, acked, windows>>

ProcessStep ==
    StartLoaded \/ StartEmpty \/ Quit \/ Exit \/ Crash \/ PowerLoss

Next ==
    \/ \E w \in Writers : WriterStep(w) \/ \E l \in Lineages : Begin(w, l)
    \/ \E e \in Epochs : Notify(e)
    \/ BeginSave \/ SaveStep
    \/ ProcessStep

Spec == Init /\ [][Next]_vars

-----------------------------------------------------------------------------
(* Properties *)

\* The store, its threads and its files are well formed.
TypeOK ==
    /\ process \in {"down", "up", "quitting"}
    /\ mem \in Stores
    /\ count \in Counts
    /\ log \in [Spent -> Nat]
    /\ writer \in [Writers -> Publications]
    /\ saver \in Saves
    /\ disk \in Disks
    /\ windows \in BOOLEAN /\ outage \in BOOLEAN
    /\ acked \in 0..MaxSaves

\* What lines holds is what was committed: every lineage counts its commits,
\* and has no other records than those of exhausted generations.
Agrees(lines, h) ==
    \A l \in Lineages :
        /\ lines[l].lgen = h[l]
        /\ lines[l].recs = h[l] \/ SumFunction(h) = LastGeneration

\* Nothing committed is lost in a running store, although two threads may
\* create a lineage at once and the first look at the registry is stale when
\* the second is taken.
CommittedIsHeld == \A l \in Lineages : mem.lines[l].lgen = log[l]

\* export_image "captures a globally consistent image": the lineages of the
\* image hold exactly the commits counted by its store generation, none half
\* done, whatever other threads commit while the locks are collected.
CaptureIsConsistent ==
    saver.image # None =>
        /\ Agrees(saver.image.lines, saver.image.log)
        /\ saver.image.gen = SumFunction(saver.image.log)

\* The store file is never a part of an image, wherever a save is cut off.
\* The exception is a loss of power on a build that does not sync.
FileIsWhole ==
    disk.file # None /\ disk.file.content = Torn => outage /\ ~windows

\* A save that was reported Ok is not lost by later saves that fail or are
\* cut off: the file holds that image or a later one.
SavedSurvives ==
    acked > 0 /\ ~outage =>
        Whole(disk.file) /\ disk.file.content.serial >= acked

\* What was saved can be loaded, unless two lineages share a route or a
\* commit ran out of store generations.
SavedLoads ==
    Whole(disk.file) =>
        \/ Loads(disk.file.content)
        \/ SharesRoute(disk.file.content)
        \/ disk.file.content.gen = LastGeneration

\* Records that a restart recovers are of an older epoch than the one it
\* serves under, the epoch announced while the image was captured included.
RecoveredIsOld ==
    /\ mem.newest <= mem.epoch
    /\ mem.recovered < mem.epoch

\* persistence.hpp: "Encode and decode are symmetric", so a file that save
\* reported written is accepted by load.
SavedImageLoads == Whole(disk.file) => Loads(disk.file.content)

=============================================================================
