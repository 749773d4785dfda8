--------------------------- MODULE StoreFile_proofs ---------------------------
(***************************************************************************)
(* Proofs about StoreFile, for every number of threads, lineages, starts   *)
(* and saves: the types, and with them the inductive invariants behind     *)
(* FileIsWhole, SavedSurvives, CommittedIsHeld, RecoveredIsOld,            *)
(* CaptureIsConsistent and SavedLoads.                                     *)
(***************************************************************************)
EXTENDS StoreFile, FiniteSetTheorems, WellFoundedInduction, TLAPS

Steps == {"open", "write", "rename"}

\* The save that is under way has the next number, and an image from the
\* capture on.
SaverShape ==
    /\ saver.pc = "lock" => saver.serial < MaxSaves
    /\ saver.pc \in Steps => saver.image \in Images

Typed == TypeOK /\ SaverShape

-----------------------------------------------------------------------------
(* Types *)

\* The bounds are natural numbers.
LEMMA Bounds ==
    /\ LastGeneration \in Nat /\ MaxEpoch \in Nat /\ MaxSaves \in Nat
    /\ MaxStarts \in Nat /\ MaxPublications \in Nat
    /\ MaxStarts > 0 /\ FirstEpoch \in 1..MaxEpoch
  BY StoreFileAssumption

\* The empty store and the states a process starts in are well formed.
LEMMA EmptyType ==
    /\ EmptyStore \in Stores
    /\ NoLog \in [Spent -> Nat]
    /\ Idle \in Publications
  BY Bounds DEF EmptyStore, NoLog, Idle, NoLine, Line, Epochs,
                             Stores, Publications, Spent

\* A new lineage is well formed.
LEMMA NewLineType == NewLine \in Line
  BY DEF NewLine, Line

\* A store with one line replaced.
LEMMA LineUpdate ==
    ASSUME NEW m \in Stores, NEW l, NEW r \in Line
    PROVE  [m EXCEPT !.lines = [m.lines EXCEPT ![l] = r]] \in Stores
<1>1. [m.lines EXCEPT ![l] = r] \in [Lineages -> Line]
  BY DEF Stores
<1> QED
  BY <1>1 DEF Stores

\* Init establishes the types.
LEMMA InitTyped == Init => Typed
<1> SUFFICES ASSUME Init PROVE Typed
  OBVIOUS
<1>1. count \in Counts /\ process \in {"down", "up", "quitting"}
  BY Bounds DEF Init, Counts
<1>2. saver \in Saves /\ disk \in Disks
  BY Bounds DEF Init, Saves, Disks, NotSaving, Sidecars
<1>3. writer \in [Writers -> Publications]
  BY EmptyType DEF Init
<1>4. acked \in 0..MaxSaves
  BY Bounds DEF Init
<1>5. TypeOK
  BY <1>1, <1>2, <1>3, <1>4, EmptyType DEF Init, TypeOK
<1> QED
  BY <1>5 DEF Init, Typed, SaverShape, Steps, NotSaving

\* The steps of a publication keep the types.
LEMMA WriterTyped ==
    ASSUME Typed, NEW w \in Writers, WriterStep(w)
    PROVE  Typed'
<1> USE DEF Typed
<1> DEFINE l == writer[w].lin
<1>0. /\ mem \in Stores /\ log \in [Spent -> Nat]
      /\ writer \in [Writers -> Publications]
  BY DEF TypeOK
<1>1. CASE Create(w)
  <2>1. mem' \in Stores
    BY <1>0, <1>1, LineUpdate, NewLineType DEF Create
  <2>2. writer' \in [Writers -> Publications]
    BY <1>0, <1>1, EmptyType DEF Create, Publications
  <2> QED
    BY <1>1, <2>1, <2>2 DEF TypeOK, Create, fileVars, SaverShape
<1>2. CASE Refuse(w)
  <2>1. writer' \in [Writers -> Publications]
    BY <1>0, <1>2, EmptyType DEF Refuse
  <2> QED
    BY <1>2, <2>1 DEF TypeOK, Refuse, memVars, fileVars, SaverShape
<1>3. CASE Insert(w)
  <2> DEFINE r == [mem.lines[l] EXCEPT !.recs = @ + 1]
             m == [mem EXCEPT !.lines = [mem.lines EXCEPT ![l] = r]]
             e == IF writer[w].epoch > mem.newest THEN writer[w].epoch
                  ELSE mem.newest
  <2>1. mem' = [m EXCEPT !.newest = e]
    BY <1>0, <1>3 DEF Insert, Stores
  <2>2. m \in Stores
    <3>1. CASE l \in Lineages
      <4>1. r \in Line
        BY <1>0, <3>1 DEF Stores, Line
      <4> QED
        BY <4>1, <1>0, LineUpdate
    <3>2. CASE l \notin Lineages
      BY <3>2, <1>0 DEF Stores
    <3> QED
      BY <3>1, <3>2
  <2>3. e \in 0..MaxEpoch
    BY <1>0 DEF Publications, Stores, Epochs
  <2>4. mem' \in Stores
    BY <2>1, <2>2, <2>3 DEF Stores
  <2>5. writer' \in [Writers -> Publications]
    BY <1>0, <1>3 DEF Insert, Publications
  <2> QED
    BY <1>3, <2>4, <2>5 DEF TypeOK, Insert, fileVars, SaverShape
<1>4. CASE Bump(w)
  <2> DEFINE r == [mem.lines[l] EXCEPT !.lgen = @ + 1]
             m == [mem EXCEPT !.lines = [mem.lines EXCEPT ![l] = r]]
  <2>1. mem' = IF mem.gen < LastGeneration
               THEN [m EXCEPT !.gen = mem.gen + 1] ELSE mem
    BY <1>0, <1>4 DEF Bump, Stores
  <2>2. m \in Stores
    <3>1. CASE l \in Lineages
      <4>1. r \in Line
        BY <1>0, <3>1 DEF Stores, Line
      <4> QED
        BY <4>1, <1>0, LineUpdate
    <3>2. CASE l \notin Lineages
      BY <3>2, <1>0 DEF Stores
    <3> QED
      BY <3>1, <3>2
  <2>3. mem' \in Stores
    <3>1. mem.gen < LastGeneration => mem.gen + 1 \in 0..LastGeneration
      BY <1>0, Bounds DEF Stores
    <3> HIDE DEF m
    <3> QED
      BY <1>0, <2>1, <2>2, <3>1 DEF Stores
  <2>4. log' \in [Spent -> Nat]
    <3>1. log' = log \/ log' = [log EXCEPT ![l] = log[l] + 1]
      BY <1>4 DEF Bump
    <3> QED
      BY <1>0, <3>1
  <2>5. writer' \in [Writers -> Publications]
    BY <1>0, <1>4, EmptyType DEF Bump
  <2> QED
    BY <1>4, <2>3, <2>4, <2>5 DEF TypeOK, Bump, fileVars, SaverShape
<1> QED
  BY <1>1, <1>2, <1>3, <1>4 DEF WriterStep

\* Publications begun and notifications keep the types.
LEMMA RequestTyped ==
    ASSUME Typed,
           \/ \E w \in Writers, l \in Lineages : Begin(w, l)
           \/ \E e \in Epochs : Notify(e)
    PROVE  Typed'
<1> USE DEF Typed
<1>0. /\ mem \in Stores /\ log \in [Spent -> Nat] /\ count \in Counts
      /\ writer \in [Writers -> Publications]
  BY DEF TypeOK
<1>1. ASSUME NEW w \in Writers, NEW l \in Lineages, Begin(w, l)
      PROVE  Typed'
  <2>1. count' \in Counts
    BY <1>0, <1>1, Bounds DEF Begin, Counts
  <2>2. writer' \in [Writers -> Publications]
    <3>1. mem.epoch \in Epochs /\ l \in Spent
      BY <1>0 DEF Stores, Spent
    <3> QED
      BY <1>0, <1>1, <3>1 DEF Begin, Publications
  <2> QED
    BY <1>1, <2>1, <2>2 DEF TypeOK, Begin, memVars, fileVars, SaverShape
<1>2. ASSUME NEW e \in Epochs, Notify(e)
      PROVE  Typed'
  <2>1. mem' \in Stores
    <3>1. mem.gen < LastGeneration => mem.gen + 1 \in 0..LastGeneration
      BY <1>0, Bounds DEF Stores
    <3>2. \E g \in 0..LastGeneration :
             mem' = [mem EXCEPT !.epoch = e, !.gen = g]
      BY <1>0, <1>2, <3>1 DEF Notify, Stores
    <3> QED
      BY <1>0, <3>2 DEF Stores
  <2>2. log' \in [Spent -> Nat]
    <3>1. log' = log \/ log' = [log EXCEPT ![None] = log[None] + 1]
      BY <1>2 DEF Notify
    <3> QED
      BY <1>0, <3>1
  <2> QED
    BY <1>2, <2>1, <2>2 DEF TypeOK, Notify, fileVars, SaverShape
<1> QED
  BY <1>1, <1>2

\* What a process leaves when it ends is well formed.
LEMMA EndedTyped ==
    ASSUME TypeOK, Ended
    PROVE  /\ process' \in {"down", "up", "quitting"}
           /\ mem' \in Stores /\ log' \in [Spent -> Nat]
  BY EmptyType DEF Ended

\* A save that returns leaves well-formed states.
LEMMA ReturnedTyped ==
    ASSUME Typed, Returned
    PROVE  /\ process' \in {"down", "up", "quitting"}
           /\ mem' \in Stores /\ log' \in [Spent -> Nat]
           /\ saver' \in Saves /\ SaverShape'
<1> USE DEF Typed
<1>1. saver' = [pc |-> "idle", held |-> {}, image |-> None,
                serial |-> saver.serial]
  BY DEF Returned, NotSaving
<1>2. saver' \in Saves /\ SaverShape'
  BY <1>1 DEF TypeOK, Saves, SaverShape, Steps
<1>3. CASE process = "quitting" /\ Ended
  BY <1>2, <1>3, EndedTyped
<1>4. CASE process = "up" /\ UNCHANGED <<process, memVars>>
  BY <1>2, <1>4 DEF TypeOK, memVars
<1> QED
  BY <1>3, <1>4 DEF Returned

\* The image that a capture takes is well formed.
LEMMA CaptureTyped ==
    ASSUME Typed, Capture
    PROVE  /\ saver'.image \in Images
           /\ saver'.image = [lines |-> mem.lines, gen |-> mem.gen,
                              epoch |-> mem.epoch, newest |-> mem.newest,
                              log |-> log, serial |-> saver.serial + 1]
           /\ saver' \in Saves /\ SaverShape'
           /\ saver'.pc = "open" /\ saver'.serial = saver.serial + 1
<1> USE DEF Typed
<1> DEFINE im == [lines |-> mem.lines, gen |-> mem.gen, epoch |-> mem.epoch,
                  newest |-> mem.newest, log |-> log,
                  serial |-> saver.serial + 1]
<1>1. saver' = [pc |-> "open", held |-> {}, serial |-> saver.serial + 1,
                image |-> im]
  BY DEF Capture
<1>2. saver.serial + 1 \in 1..MaxSaves
  BY Bounds DEF TypeOK, Saves, SaverShape, Capture
<1>3. im \in Images
  BY <1>2 DEF TypeOK, Stores, Images
<1>4. saver' \in Saves /\ SaverShape'
  <2> HIDE DEF im
  <2>1. saver.serial + 1 \in 0..MaxSaves
    BY <1>2
  <2> QED
    BY <1>1, <1>3, <2>1 DEF Saves, SaverShape, Steps
<1> QED
  BY <1>1, <1>3, <1>4

\* The steps of a save keep the types.
LEMMA SaveTyped ==
    ASSUME Typed, BeginSave \/ SaveStep
    PROVE  Typed'
<1> USE DEF Typed
<1>0. saver \in Saves /\ disk \in Disks
  BY DEF TypeOK
<1>1. CASE BeginSave
  <2>1. saver' \in Saves /\ SaverShape'
    BY <1>0, <1>1 DEF BeginSave, Saves, SaverShape, Steps
  <2> QED
    BY <1>1, <2>1 DEF BeginSave, TypeOK, memVars, fileVars
<1>2. CASE LockLineage
  <2>1. PICK l \in Lineages :
           saver' = [saver EXCEPT !.held = saver.held \cup {l}]
    BY <1>2 DEF LockLineage, Registry, Known
  <2>2. saver' \in Saves /\ SaverShape'
    BY <1>0, <2>1 DEF Saves, SaverShape, Steps
  <2> QED
    BY <1>2, <2>2 DEF LockLineage, TypeOK, memVars, fileVars
<1>3. CASE Capture
  BY <1>3, CaptureTyped DEF Capture, TypeOK, memVars, fileVars
<1>4. CASE OpenTmp
  <2>1. saver' \in Saves /\ SaverShape' /\ disk' \in Disks
    BY <1>0, <1>4 DEF OpenTmp, Saves, SaverShape, Steps, Disks, Sidecars
  <2> QED
    BY <1>4, <2>1 DEF OpenTmp, TypeOK, memVars
<1>5. CASE WriteTmp
  <2>1. saver' \in Saves /\ SaverShape' /\ disk' \in Disks
    BY <1>0, <1>5 DEF WriteTmp, Saves, SaverShape, Steps, Disks, Sidecars
  <2> QED
    BY <1>5, <2>1 DEF WriteTmp, TypeOK, memVars
<1>6. CASE Rename
  <2>1. saver.image \in Images
    BY <1>6 DEF Rename, SaverShape, Steps
  <2>2. disk' \in Disks
    BY <1>6, <2>1 DEF Rename, Disks, Files, File, Sidecars
  <2>3. acked' \in 0..MaxSaves
    BY <1>6, <2>1, Bounds DEF Rename, Images
  <2> QED
    BY <1>6, <2>2, <2>3, ReturnedTyped DEF Rename, TypeOK
<1>7. CASE FailSave
  <2>1. disk' \in Disks
    BY <1>0, <1>7 DEF FailSave, Disks, Sidecars
  <2> QED
    BY <1>7, <2>1, ReturnedTyped DEF FailSave, TypeOK
<1> QED
  BY <1>1, <1>2, <1>3, <1>4, <1>5, <1>6, <1>7 DEF SaveStep

\* The image of a whole store file is well formed.
LEMMA FileImage ==
    ASSUME TypeOK, Whole(disk.file)
    PROVE  disk.file.content \in Images
  BY DEF TypeOK, Disks, Files, Whole

\* The death of a process keeps the types.
LEMMA KilledTyped ==
    ASSUME Typed, Killed
    PROVE  /\ process' \in {"down", "up", "quitting"}
           /\ mem' \in Stores /\ log' \in [Spent -> Nat]
           /\ writer' \in [Writers -> Publications]
           /\ saver' \in Saves /\ SaverShape'
<1> USE DEF Typed
<1>1. saver' = [pc |-> "idle", held |-> {}, image |-> None,
                serial |-> saver.serial]
  BY DEF Killed, NotSaving
<1>2. saver' \in Saves /\ SaverShape'
  BY <1>1 DEF TypeOK, Saves, SaverShape, Steps
<1>3. writer' \in [Writers -> Publications]
  BY EmptyType DEF Killed
<1> QED
  BY <1>2, <1>3, EndedTyped DEF Killed

\* Starts and ends of the process keep the types.
LEMMA ProcessTyped ==
    ASSUME Typed, ProcessStep
    PROVE  Typed'
<1> USE DEF Typed
<1>0. count.starts < MaxStarts =>
         [count EXCEPT !.starts = count.starts + 1] \in Counts
  BY Bounds DEF TypeOK, Counts
<1>1. CASE StartLoaded
  <2> DEFINE im == disk.file.content
  <2>1. im \in Images
    BY <1>1, FileImage DEF StartLoaded
  <2>2. NextEpoch(im) \in Epochs
    BY <1>1, <2>1 DEF StartLoaded, NextEpoch, Images, Epochs
  <2>3. mem' \in Stores /\ log' \in [Spent -> Nat]
    BY <1>1, <2>1, <2>2 DEF StartLoaded, Stores, Images
  <2> QED
    BY <1>0, <1>1, <2>3 DEF StartLoaded, TypeOK, fileVars, SaverShape
<1>2. CASE StartEmpty
  BY <1>0, <1>2, EmptyType DEF StartEmpty, TypeOK, fileVars, SaverShape
<1>3. CASE Quit
  BY <1>3 DEF Quit, TypeOK, memVars, fileVars, SaverShape
<1>4. CASE Exit
  BY <1>4, EndedTyped DEF Exit, TypeOK, fileVars, SaverShape
<1>5. CASE Crash
  BY <1>5, KilledTyped DEF Crash, TypeOK, fileVars
<1>6. CASE PowerLoss
  <2>1. disk' \in Disks
    BY <1>6 DEF PowerLoss, TypeOK, Disks, Files
  <2> QED
    BY <1>6, <2>1, KilledTyped DEF PowerLoss, TypeOK
<1> QED
  BY <1>1, <1>2, <1>3, <1>4, <1>5, <1>6 DEF ProcessStep

\* Every step keeps the types.
LEMMA NextTyped == Typed /\ [Next]_vars => Typed'
<1> SUFFICES ASSUME Typed, [Next]_vars PROVE Typed'
  OBVIOUS
<1>1. CASE UNCHANGED vars
  BY <1>1 DEF vars, memVars, fileVars, Typed, TypeOK, SaverShape
<1>2. CASE Next
  BY <1>2, WriterTyped, RequestTyped, SaveTyped, ProcessTyped DEF Next
<1> QED
  BY <1>1, <1>2

\* The store, its threads and its files are well formed in every reachable
\* state (TypeOK of StoreFile): however saves are cut off, what the store file
\* holds is an image, a part of one, or nothing.
THEOREM StoreFileTyped == Spec => []TypeOK
<1>1. Spec => []Typed
  BY InitTyped, NextTyped, PTL DEF Spec
<1> QED
  BY <1>1, PTL DEF Typed

-----------------------------------------------------------------------------
(* The store file is replaced whole *)

\* The sidecar that is about to be renamed is complete, and synced where the
\* build syncs; so is the store file.
FileInv ==
    /\ saver.pc = "rename" =>
          disk.tmp = IF windows THEN "synced" ELSE "written"
    /\ disk.file # None => disk.file.synced = windows
    /\ FileIsWhole

\* The steps that touch neither the save nor the files.
LEMMA FileInvKept ==
    ASSUME FileInv, UNCHANGED <<disk, windows, outage>>,
           saver'.pc = "rename" => saver.pc = "rename"
    PROVE  FileInv'
  BY DEF FileInv, FileIsWhole

\* A save that ends or a process that dies is not about to rename.
LEMMA NoRename ==
    ASSUME Returned \/ Killed
    PROVE  saver'.pc = "idle"
  BY DEF Returned, Killed, NotSaving

\* Every step keeps the store file whole.
LEMMA FileInvStep ==
    ASSUME Typed, FileInv, Next
    PROVE  FileInv'
<1> USE DEF Typed
<1>0. saver \in Saves /\ disk \in Disks /\ windows \in BOOLEAN
  BY DEF TypeOK
<1>1. ASSUME NEW w \in Writers, WriterStep(w) PROVE FileInv'
  BY <1>1, FileInvKept
     DEF WriterStep, Create, Refuse, Insert, Bump, fileVars
<1>2. ASSUME NEW w \in Writers, NEW l \in Lineages, Begin(w, l)
      PROVE  FileInv'
  BY <1>2, FileInvKept DEF Begin, fileVars
<1>3. ASSUME NEW e \in Epochs, Notify(e) PROVE FileInv'
  BY <1>3, FileInvKept DEF Notify, fileVars
<1>4. CASE BeginSave
  <2>1. saver'.pc = "lock"
    BY <1>0, <1>4 DEF BeginSave, Saves
  <2> QED
    BY <1>4, <2>1, FileInvKept DEF BeginSave, fileVars
<1>5. CASE LockLineage
  <2>1. saver'.pc = saver.pc
    BY <1>0, <1>5 DEF LockLineage, Saves
  <2> QED
    BY <1>5, <2>1, FileInvKept DEF LockLineage, fileVars
<1>6. CASE Capture
  BY <1>6, CaptureTyped, FileInvKept DEF Capture, fileVars
<1>7. CASE OpenTmp
  <2>1. saver'.pc = "write" /\ disk'.file = disk.file
    BY <1>0, <1>7 DEF OpenTmp, Saves, Disks
  <2> QED
    BY <1>7, <2>1 DEF OpenTmp, FileInv, FileIsWhole
<1>8. CASE WriteTmp
  <2>1. /\ disk'.file = disk.file
        /\ disk'.tmp = IF windows THEN "synced" ELSE "written"
    BY <1>0, <1>8 DEF WriteTmp, Disks
  <2> QED
    BY <1>8, <2>1 DEF WriteTmp, FileInv, FileIsWhole
<1>9. CASE Rename
  <2>1. disk.tmp = IF windows THEN "synced" ELSE "written"
    BY <1>9 DEF Rename, FileInv
  <2>2. disk.tmp = "synced" <=> windows
    BY <1>0, <2>1
  <2>3. saver.image \in Images
    BY <1>9 DEF Rename, SaverShape, Steps
  <2>4. disk'.file.content # Torn /\ disk'.file.synced = windows
    BY <1>0, <1>9, <2>1, <2>2, <2>3, TornAssumption
       DEF Rename, File
  <2> QED
    BY <1>9, <2>4, NoRename DEF Rename, FileInv, FileIsWhole
<1>10. CASE FailSave
  <2>1. disk'.file = disk.file
    BY <1>0, <1>10 DEF FailSave, Disks
  <2> QED
    BY <1>10, <2>1, NoRename DEF FailSave, FileInv, FileIsWhole
<1>11. CASE StartLoaded \/ StartEmpty \/ Quit \/ Exit
  BY <1>11, FileInvKept DEF StartLoaded, StartEmpty, Quit, Exit, fileVars
<1>12. CASE Crash
  BY <1>12, NoRename, FileInvKept DEF Crash, fileVars
<1>13. CASE PowerLoss
  <2>1. CASE disk' = disk
    BY <1>13, <2>1, NoRename DEF PowerLoss, FileInv, FileIsWhole
  <2>2. CASE /\ disk.file # None /\ ~disk.file.synced
             /\ disk' = [disk EXCEPT !.file.content = Torn]
    <3>1. disk'.file.synced = disk.file.synced
      BY <1>0, <2>2 DEF Disks, Files
    <3>2. ~windows
      BY <2>2 DEF FileInv
    <3> QED
      BY <1>13, <2>2, <3>1, <3>2, NoRename DEF PowerLoss, FileInv, FileIsWhole
  <2> QED
    BY <1>13, <2>1, <2>2 DEF PowerLoss
<1> QED
  BY <1>1, <1>2, <1>3, <1>4, <1>5, <1>6, <1>7, <1>8, <1>9, <1>10, <1>11,
     <1>12, <1>13 DEF Next, SaveStep, ProcessStep

\* The store file is never a part of an image, wherever a save is cut off, for
\* any number of saves, failures, crashes and restarts (FileIsWhole); a loss of
\* power can cut it only on a build that does not sync.
THEOREM StoreFileIsWhole == Spec => []FileIsWhole
<1>1. Init => FileInv
  BY DEF Init, FileInv, FileIsWhole, NotSaving
<1>2. Typed /\ FileInv /\ [Next]_vars => FileInv'
  <2>1. FileInv /\ UNCHANGED vars => FileInv'
    BY DEF FileInv, FileIsWhole, vars, fileVars
  <2> QED
    BY <2>1, FileInvStep
<1>3. FileInv => FileIsWhole
  BY DEF FileInv
<1> QED
  BY <1>1, <1>2, <1>3, InitTyped, NextTyped, PTL DEF Spec

-----------------------------------------------------------------------------
(* An acknowledged save survives *)

\* Images are numbered in the order they are captured, and no later save was
\* acknowledged than the one that captured the last image.
SaveInv ==
    /\ saver.pc \in Steps => saver.image.serial = saver.serial
    /\ acked <= saver.serial
    /\ SavedSurvives

\* The steps that leave the save and the files alone.
LEMMA SaveInvKept ==
    ASSUME SaveInv, UNCHANGED <<disk, outage, acked>>,
           saver'.serial = saver.serial,
           \/ saver'.pc \notin Steps
           \/ saver'.pc \in Steps /\ saver.pc \in Steps
                                  /\ saver'.image = saver.image
    PROVE  SaveInv'
  BY DEF SaveInv, SavedSurvives, Whole

\* A save that ends or a process that dies keeps the number of the last image.
LEMMA SerialKept ==
    ASSUME Typed, Returned \/ Killed
    PROVE  saver'.serial = saver.serial /\ saver'.pc = "idle"
  BY DEF Returned, Killed, NotSaving

\* Every step keeps the last acknowledged image.
LEMMA SaveInvStep ==
    ASSUME Typed, FileInv, FileInv', SaveInv, Next
    PROVE  SaveInv'
<1> USE DEF Typed
<1>0. saver \in Saves /\ disk \in Disks /\ acked \in 0..MaxSaves
  BY DEF TypeOK
<1>1. ASSUME NEW w \in Writers, WriterStep(w) PROVE SaveInv'
  BY <1>1, SaveInvKept
     DEF WriterStep, Create, Refuse, Insert, Bump, fileVars
<1>2. ASSUME NEW w \in Writers, NEW l \in Lineages, Begin(w, l)
      PROVE  SaveInv'
  BY <1>2, SaveInvKept DEF Begin, fileVars
<1>3. ASSUME NEW e \in Epochs, Notify(e) PROVE SaveInv'
  BY <1>3, SaveInvKept DEF Notify, fileVars
<1>4. CASE BeginSave
  <2>1. saver'.pc = "lock" /\ saver'.serial = saver.serial
    BY <1>0, <1>4 DEF BeginSave, Saves
  <2>2. saver'.pc \notin Steps
    BY <2>1 DEF Steps
  <2> QED
    BY <1>4, <2>1, <2>2, SaveInvKept DEF BeginSave, fileVars
<1>5. CASE LockLineage
  <2>1. saver'.pc = "lock" /\ saver'.serial = saver.serial
    BY <1>0, <1>5 DEF LockLineage, Saves
  <2>2. saver'.pc \notin Steps
    BY <2>1 DEF Steps
  <2> QED
    BY <1>5, <2>1, <2>2, SaveInvKept DEF LockLineage, fileVars
<1>6. CASE Capture
  <2>1. saver'.image.serial = saver'.serial
    BY <1>6, CaptureTyped
  <2>2. acked' <= saver'.serial
    BY <1>0, <1>6, CaptureTyped DEF Capture, fileVars, SaveInv, Saves
  <2> QED
    BY <1>6, <2>1, <2>2 DEF Capture, fileVars, SaveInv, SavedSurvives, Whole
<1>7. CASE OpenTmp
  <2>1. /\ saver'.image = saver.image /\ saver'.serial = saver.serial
        /\ disk'.file = disk.file
    BY <1>0, <1>7 DEF OpenTmp, Saves, Disks
  <2>2. saver.pc \in Steps
    BY <1>7 DEF OpenTmp, Steps
  <2> QED
    BY <1>7, <2>1, <2>2 DEF OpenTmp, SaveInv, SavedSurvives, Whole
<1>8. CASE WriteTmp
  <2>1. /\ saver'.image = saver.image /\ saver'.serial = saver.serial
        /\ disk'.file = disk.file
    BY <1>0, <1>8 DEF WriteTmp, Saves, Disks
  <2>2. saver.pc \in Steps
    BY <1>8 DEF WriteTmp, Steps
  <2> QED
    BY <1>8, <2>1, <2>2 DEF WriteTmp, SaveInv, SavedSurvives, Whole
<1>9. CASE Rename
  <2>1. saver.image \in Images /\ saver.image.serial = saver.serial
    BY <1>9 DEF Rename, SaverShape, SaveInv, Steps
  <2>2. disk.tmp # Torn
    BY <1>9, TornAssumption DEF Rename, FileInv
  <2>3. disk'.file = [content |-> saver.image, synced |-> disk.tmp = "synced"]
    BY <1>9, <2>2 DEF Rename, File
  <2>4. disk'.file \in Files
    BY <2>1, <2>3 DEF Files
  <2>5. Whole(disk'.file) /\ disk'.file.content.serial = acked'
    BY <1>9, <2>1, <2>3, <2>4, TornAssumption DEF Rename, Whole
  <2>6. saver'.serial = saver.serial /\ saver'.pc = "idle"
    BY <1>9, SerialKept DEF Rename
  <2>7. acked' = saver.serial /\ saver.serial \in Nat
    BY <1>0, <1>9, <2>1 DEF Rename, Saves
  <2>8. SavedSurvives'
    BY <2>5, <2>7 DEF SavedSurvives
  <2> QED
    BY <2>6, <2>7, <2>8 DEF SaveInv, Steps
<1>10. CASE FailSave
  <2>1. disk'.file = disk.file
    BY <1>0, <1>10 DEF FailSave, Disks
  <2>2. saver'.serial = saver.serial /\ saver'.pc = "idle"
    BY <1>10, SerialKept DEF FailSave
  <2> QED
    BY <1>10, <2>1, <2>2 DEF FailSave, SaveInv, SavedSurvives, Whole, Steps
<1>11. CASE StartLoaded \/ StartEmpty \/ Quit \/ Exit
  BY <1>11, SaveInvKept DEF StartLoaded, StartEmpty, Quit, Exit, fileVars
<1>12. CASE Crash
  <2>1. saver'.serial = saver.serial /\ saver'.pc \notin Steps
    BY <1>12, SerialKept DEF Crash, Steps
  <2> QED
    BY <1>12, <2>1, SaveInvKept DEF Crash, fileVars
<1>13. CASE PowerLoss
  <2>1. saver'.serial = saver.serial /\ saver'.pc \notin Steps
    BY <1>13, SerialKept DEF PowerLoss, Steps
  <2> QED
    BY <1>13, <2>1 DEF PowerLoss, SaveInv, SavedSurvives
<1> QED
  BY <1>1, <1>2, <1>3, <1>4, <1>5, <1>6, <1>7, <1>8, <1>9, <1>10, <1>11,
     <1>12, <1>13 DEF Next, SaveStep, ProcessStep

\* A save that was reported Ok is never lost by later saves that fail or are
\* cut off, nor by the death of the process (SavedSurvives).
THEOREM AcknowledgedSaveSurvives == Spec => []SavedSurvives
<1>1. Init => FileInv /\ SaveInv
  BY DEF Init, FileInv, FileIsWhole, SaveInv, SavedSurvives, NotSaving, Steps
<1>2. Typed /\ FileInv /\ [Next]_vars => FileInv'
  <2>1. FileInv /\ UNCHANGED vars => FileInv'
    BY DEF FileInv, FileIsWhole, vars, fileVars
  <2> QED
    BY <2>1, FileInvStep
<1>3. Typed /\ FileInv /\ FileInv' /\ SaveInv /\ [Next]_vars => SaveInv'
  <2>1. SaveInv /\ UNCHANGED vars => SaveInv'
    BY DEF SaveInv, SavedSurvives, Whole, vars, fileVars
  <2> QED
    BY <2>1, SaveInvStep
<1>4. SaveInv => SavedSurvives
  BY DEF SaveInv
<1> QED
  BY <1>1, <1>2, <1>3, <1>4, InitTyped, NextTyped, PTL DEF Spec

-----------------------------------------------------------------------------
(* Commits are held and recovered records are old *)

\* Every lineage counts its commits, and one that is not in the registry has
\* none.
Sound(lines, h) ==
    \A l \in Lineages : /\ lines[l].lgen = h[l]
                        /\ ~lines[l].known => h[l] = 0

MemInv == Sound(mem.lines, log) /\ RecoveredIsOld

\* What an image must have to be reloaded.
Good(im) == Sound(im.lines, im.log) /\ im.newest <= im.epoch

ImageInv ==
    /\ saver.pc \in Steps => Good(saver.image)
    /\ Whole(disk.file) => Good(disk.file.content)

NoneWrites == \A w \in Writers : writer[w].pc = "idle"

\* A publication that is past the registry has its lineage there and carries
\* an epoch that is not ahead; none is under way while a process ends.
WriterInv ==
    /\ \A w \in Writers : writer[w].pc # "idle" =>
          writer[w].lin \in Lineages /\ writer[w].epoch <= mem.epoch
    /\ \A w \in Writers : writer[w].pc \in {"wait", "inserted"} =>
          writer[w].lin \in Registry
    /\ process = "down" => NoneWrites /\ saver.pc = "idle"
    /\ process = "quitting" /\ saver.pc # "idle" => NoneWrites

HeldInv == MemInv /\ ImageInv /\ WriterInv

\* A store of which nothing is left.
LEMMA EmptyHeld ==
    ASSUME Ended, NoneWrites', saver'.pc = "idle"
    PROVE  MemInv' /\ WriterInv'
<1>1. Sound(mem.lines, log)'
  BY DEF Ended, Sound, EmptyStore, NoLog, NoLine, Spent
<1>2. RecoveredIsOld'
  BY Bounds DEF Ended, RecoveredIsOld, EmptyStore
<1> QED
  BY <1>1, <1>2 DEF MemInv, WriterInv, NoneWrites, Ended

\* Creating the lineage, or finding that another thread did.
LEMMA CreateHeld ==
    ASSUME Typed, HeldInv, NEW w \in Writers, Create(w)
    PROVE  HeldInv'
<1> USE DEF Typed
<1> DEFINE l == writer[w].lin
<1>0. mem \in Stores /\ log \in [Spent -> Nat] /\ l \in Lineages
      /\ writer \in [Writers -> Publications]
  BY DEF TypeOK, HeldInv, WriterInv, Create
<1>1. ImageInv'
  BY DEF HeldInv, ImageInv, Create, fileVars
<1>2. /\ mem'.epoch = mem.epoch /\ mem'.newest = mem.newest
      /\ mem'.recovered = mem.recovered
  BY <1>0 DEF Create, Stores
<1>3. \A k \in Lineages : \/ mem'.lines[k] = mem.lines[k]
                          \/ /\ k = l /\ ~mem.lines[k].known
                             /\ mem'.lines[k] = NewLine
  BY <1>0 DEF Create, Stores, Registry, Known
<1>4. MemInv'
  <2>1. Sound(mem.lines, log)'
    BY <1>3 DEF HeldInv, MemInv, Sound, Create, NewLine
  <2> QED
    BY <1>2, <2>1 DEF HeldInv, MemInv, RecoveredIsOld
<1>5. \A k \in Registry : k \in Registry'
  BY <1>3 DEF Registry, Known, NewLine
<1>6. \A v \in Writers \ {w} : writer'[v] = writer[v]
  BY <1>0 DEF Create
<1>7. \/ writer'[w] = Idle
      \/ writer'[w] = [writer[w] EXCEPT !.pc = "wait"] /\ l \in Registry'
  <2>1. CASE l \notin Registry /\ Cardinality(Registry) >= MaxLineages
    BY <1>0, <2>1 DEF Create
  <2>2. CASE ~(l \notin Registry /\ Cardinality(Registry) >= MaxLineages)
    <3>1. writer'[w] = [writer[w] EXCEPT !.pc = "wait"]
      BY <1>0, <2>2 DEF Create
    <3>2. CASE l \in Registry
      BY <1>5, <3>1, <3>2
    <3>3. CASE l \notin Registry
      <4>1. mem'.lines[l] = NewLine
        BY <1>0, <2>2, <3>3 DEF Create, Stores
      <4> QED
        BY <1>0, <3>1, <4>1 DEF Registry, Known, NewLine
    <3> QED
      BY <3>2, <3>3
  <2> QED
    BY <2>1, <2>2
<1>8. process # "down" /\ ~(process = "quitting" /\ saver.pc # "idle")
  BY DEF HeldInv, WriterInv, NoneWrites, Create
<1>9. WriterInv'
  <2>1. \A v \in Writers : writer'[v].pc # "idle" =>
           writer'[v].lin \in Lineages /\ writer'[v].epoch <= mem'.epoch
    BY <1>0, <1>2, <1>6, <1>7
       DEF HeldInv, WriterInv, Idle, Publications, Create
  <2>2. \A v \in Writers : writer'[v].pc \in {"wait", "inserted"} =>
           writer'[v].lin \in Registry'
    BY <1>0, <1>5, <1>6, <1>7 DEF HeldInv, WriterInv, Idle, Publications
  <2> QED
    BY <1>8, <2>1, <2>2 DEF WriterInv, Create
<1> QED
  BY <1>1, <1>4, <1>9 DEF HeldInv

\* A writer that becomes idle or goes on, in a store whose registry, epoch and
\* recovered records stay.
LEMMA WriterGoesOn ==
    ASSUME Typed, HeldInv, NEW w \in Writers, writer[w].pc = "wait"
                                               \/ writer[w].pc = "inserted",
           \/ writer' = [writer EXCEPT ![w] = Idle]
           \/ writer' = [writer EXCEPT ![w].pc = "inserted"],
           mem'.epoch = mem.epoch, Registry' = Registry,
           UNCHANGED <<process, saver>>
    PROVE  WriterInv'
<1> USE DEF Typed
<1>0. writer \in [Writers -> Publications]
  BY DEF TypeOK
<1>1. \A v \in Writers \ {w} : writer'[v] = writer[v]
  BY <1>0
<1>2. writer'[w] = Idle \/ writer'[w] = [writer[w] EXCEPT !.pc = "inserted"]
  BY <1>0
<1>3. process # "down" /\ ~(process = "quitting" /\ saver.pc # "idle")
  BY DEF HeldInv, WriterInv, NoneWrites
<1>4. \A v \in Writers : writer'[v].pc # "idle" =>
         writer'[v].lin \in Lineages /\ writer'[v].epoch <= mem'.epoch
  BY <1>0, <1>1, <1>2 DEF HeldInv, WriterInv, Idle, Publications
<1>5. \A v \in Writers : writer'[v].pc \in {"wait", "inserted"} =>
         writer'[v].lin \in Registry'
  BY <1>0, <1>1, <1>2 DEF HeldInv, WriterInv, Idle, Publications
<1> QED
  BY <1>3, <1>4, <1>5 DEF WriterInv

\* The steps of a publication that holds the lineage lock.
LEMMA CommitHeld ==
    ASSUME Typed, HeldInv, NEW w \in Writers, Refuse(w) \/ Insert(w) \/ Bump(w)
    PROVE  HeldInv'
<1> USE DEF Typed
<1> DEFINE l == writer[w].lin
<1>0. /\ mem \in Stores /\ log \in [Spent -> Nat] /\ l \in Lineages
      /\ l \in Registry /\ l \in Spent
      /\ writer \in [Writers -> Publications]
  BY DEF TypeOK, HeldInv, WriterInv, Refuse, Insert, Bump, Spent
<1>1. ImageInv'
  BY DEF HeldInv, ImageInv, Refuse, Insert, Bump, fileVars
<1>2. CASE Refuse(w)
  <2>1. WriterInv'
    BY <1>2, WriterGoesOn DEF Refuse, memVars, Registry
  <2> QED
    BY <1>1, <1>2, <2>1
       DEF Refuse, memVars, HeldInv, MemInv, RecoveredIsOld, Sound
<1>3. CASE Insert(w)
  <2>1. /\ mem'.epoch = mem.epoch /\ mem'.recovered = mem.recovered
        /\ mem'.newest = mem.newest \/ mem'.newest = writer[w].epoch
    BY <1>0, <1>3 DEF Insert, Stores
  <2>2. \A k \in Lineages : /\ mem'.lines[k].known = mem.lines[k].known
                            /\ mem'.lines[k].lgen = mem.lines[k].lgen
    BY <1>0, <1>3 DEF Insert, Stores, Line
  <2>3. WriterInv'
    BY <1>3, <2>1, <2>2, WriterGoesOn DEF Insert, Registry, Known
  <2>4. writer[w].epoch <= mem.epoch
    BY <1>3 DEF Insert, HeldInv, WriterInv
  <2>5. MemInv'
    BY <1>3, <2>1, <2>2, <2>4
       DEF Insert, HeldInv, MemInv, RecoveredIsOld, Sound
  <2> QED
    BY <1>1, <2>3, <2>5 DEF HeldInv
<1>4. CASE Bump(w)
  <2>1. /\ mem'.epoch = mem.epoch /\ mem'.recovered = mem.recovered
        /\ mem'.newest = mem.newest
    BY <1>0, <1>4 DEF Bump, Stores
  <2>2. \A k \in Lineages : mem'.lines[k].known = mem.lines[k].known
    BY <1>0, <1>4 DEF Bump, Stores, Line
  <2>3. \A k \in Lineages : mem'.lines[k].lgen = log'[k]
    <3>1. \A k \in Lineages : mem.lines[k].lgen = log[k]
      BY DEF HeldInv, MemInv, Sound
    <3>2. CASE mem.gen < LastGeneration
      <4>1. \A k \in Lineages :
               mem'.lines[k].lgen = IF k = l THEN mem.lines[k].lgen + 1
                                    ELSE mem.lines[k].lgen
        BY <1>0, <1>4, <3>2 DEF Bump, Stores, Line
      <4>2. \A k \in Lineages :
               log'[k] = IF k = l THEN log[k] + 1 ELSE log[k]
        BY <1>0, <1>4, <3>2 DEF Bump, Spent
      <4> QED
        BY <3>1, <4>1, <4>2
    <3>3. CASE ~(mem.gen < LastGeneration)
      BY <1>4, <3>1, <3>3 DEF Bump
    <3> QED
      BY <3>2, <3>3
  <2>4. \A k \in Lineages : ~mem.lines[k].known => log'[k] = log[k]
    BY <1>0, <1>4 DEF Bump, Registry, Known, Spent
  <2>5. WriterInv'
    BY <1>4, <2>1, <2>2, WriterGoesOn DEF Bump, Registry, Known
  <2>6. MemInv'
    BY <2>1, <2>2, <2>3, <2>4
       DEF HeldInv, MemInv, RecoveredIsOld, Sound
  <2> QED
    BY <1>1, <2>5, <2>6 DEF HeldInv
<1> QED
  BY <1>2, <1>3, <1>4

\* A publication begins with the epoch of the store.
LEMMA BeginHeld ==
    ASSUME Typed, HeldInv, NEW w \in Writers, NEW l \in Lineages, Begin(w, l)
    PROVE  HeldInv'
<1> USE DEF Typed
<1>0. mem \in Stores /\ writer \in [Writers -> Publications]
  BY DEF TypeOK
<1>1. ImageInv' /\ MemInv'
  BY DEF HeldInv, ImageInv, MemInv, RecoveredIsOld, Begin, memVars, fileVars
<1>2. Registry' = Registry /\ mem' = mem
  BY DEF Begin, memVars, Registry
<1>3. \A v \in Writers \ {w} : writer'[v] = writer[v]
  BY <1>0 DEF Begin
<1>4. writer'[w] = [pc |-> IF l \in Registry THEN "wait" ELSE "create",
                    lin |-> l, epoch |-> mem.epoch]
  BY <1>0 DEF Begin
<1>5. mem.epoch <= mem.epoch
  BY <1>0 DEF Stores, Epochs
<1>6. \A v \in Writers : writer'[v].pc # "idle" =>
         writer'[v].lin \in Lineages /\ writer'[v].epoch <= mem'.epoch
  BY <1>2, <1>3, <1>4, <1>5 DEF HeldInv, WriterInv
<1>7. \A v \in Writers : writer'[v].pc \in {"wait", "inserted"} =>
         writer'[v].lin \in Registry'
  BY <1>2, <1>3, <1>4 DEF HeldInv, WriterInv
<1>8. WriterInv'
  BY <1>6, <1>7 DEF WriterInv, Begin
<1> QED
  BY <1>1, <1>8 DEF HeldInv

\* A notification only moves the epoch forward.
LEMMA NotifyHeld ==
    ASSUME Typed, HeldInv, NEW e \in Epochs, Notify(e)
    PROVE  HeldInv'
<1> USE DEF Typed
<1>0. /\ mem \in Stores /\ log \in [Spent -> Nat]
      /\ writer \in [Writers -> Publications]
  BY DEF TypeOK
<1>1. ImageInv'
  BY DEF HeldInv, ImageInv, Notify, fileVars
<1>2. /\ mem'.epoch = e /\ mem'.newest = mem.newest
      /\ mem'.recovered = mem.recovered /\ mem'.lines = mem.lines
  BY <1>0 DEF Notify, Stores
<1>3. \A l \in Lineages : log'[l] = log[l]
  BY <1>0, StoreFileAssumption DEF Notify, Spent
<1>4. /\ e > mem.epoch /\ e \in Nat /\ mem.epoch \in Nat
      /\ mem.newest \in Nat /\ mem.recovered \in Nat
  BY <1>0 DEF Notify, Stores, Epochs
<1>5. MemInv'
  <2>1. Sound(mem.lines, log)'
    BY <1>2, <1>3 DEF HeldInv, MemInv, Sound
  <2> QED
    BY <1>2, <1>4, <2>1 DEF HeldInv, MemInv, RecoveredIsOld
<1>6. \A w \in Writers : writer[w].epoch <= mem.epoch =>
                            writer'[w].epoch <= mem'.epoch
  BY <1>0, <1>2, <1>4 DEF Notify, Publications, Epochs
<1>7. WriterInv'
  BY <1>2, <1>6 DEF HeldInv, WriterInv, NoneWrites, Notify, Registry
<1> QED
  BY <1>1, <1>5, <1>7 DEF HeldInv

\* A step of the save that leaves the store and the store file alone.
LEMMA SaveGoesOn ==
    ASSUME Typed, HeldInv, UNCHANGED <<process, memVars, writer>>,
           disk'.file = disk.file,
           saver.pc # "idle" \/ process = "up" \/ NoneWrites,
           process # "down",
           saver'.pc \in Steps => Good(saver'.image)
    PROVE  HeldInv'
<1>1. MemInv' /\ ImageInv'
  BY DEF HeldInv, MemInv, RecoveredIsOld, ImageInv, Good, Whole, memVars
<1>2. WriterInv'
  BY DEF HeldInv, WriterInv, NoneWrites, Registry, memVars
<1> QED
  BY <1>1, <1>2 DEF HeldInv

\* The end of a save, which on exit is the end of the process.
LEMMA ReturnedHeld ==
    ASSUME Typed, HeldInv, Returned, saver.pc \in Steps, UNCHANGED writer,
           Whole(disk'.file) => Good(disk'.file.content)
    PROVE  HeldInv'
<1>1. saver'.pc = "idle"
  BY NoRename
<1>2. ImageInv'
  BY <1>1 DEF ImageInv, Steps, Whole, Good
<1>3. CASE process = "quitting" /\ Ended
  <2>1. NoneWrites'
    BY <1>3 DEF HeldInv, WriterInv, NoneWrites, Steps
  <2> QED
    BY <1>1, <1>2, <1>3, <2>1, EmptyHeld DEF HeldInv
<1>4. CASE process = "up" /\ UNCHANGED <<process, memVars>>
  <2>1. MemInv'
    BY <1>4 DEF HeldInv, MemInv, RecoveredIsOld, memVars
  <2>2. WriterInv'
    BY <1>4 DEF HeldInv, WriterInv, Registry, memVars
  <2> QED
    BY <1>2, <2>1, <2>2 DEF HeldInv
<1> QED
  BY <1>3, <1>4 DEF Returned

\* The steps of a save.
LEMMA SaveHeld ==
    ASSUME Typed, HeldInv, FileInv, BeginSave \/ SaveStep
    PROVE  HeldInv'
<1> USE DEF Typed
<1>0. saver \in Saves /\ disk \in Disks
  BY DEF TypeOK
<1>a. process = "down" => saver.pc = "idle"
  BY DEF HeldInv, WriterInv
<1>1. CASE BeginSave
  <2>1. saver'.pc \notin Steps
    BY <1>0, <1>1 DEF BeginSave, Saves, Steps
  <2>2. process = "up" \/ (process = "quitting" /\ NoneWrites)
    BY <1>1 DEF BeginSave, NoneWrites, Idle
  <2> QED
    BY <1>1, <2>1, <2>2, SaveGoesOn DEF BeginSave, fileVars
<1>2. CASE LockLineage
  <2>1. saver'.pc \notin Steps
    BY <1>0, <1>2 DEF LockLineage, Saves, Steps
  <2> QED
    BY <1>a, <1>2, <2>1, SaveGoesOn DEF LockLineage, fileVars
<1>3. CASE Capture
  <2>1. Good(saver'.image)
    <3>1. /\ saver'.image.lines = mem.lines /\ saver'.image.log = log
          /\ saver'.image.epoch = mem.epoch /\ saver'.image.newest = mem.newest
      BY <1>3, CaptureTyped
    <3> QED
      BY <3>1 DEF HeldInv, MemInv, RecoveredIsOld, Good
  <2> QED
    BY <1>a, <1>3, <2>1, SaveGoesOn DEF Capture, fileVars
<1>4. CASE OpenTmp \/ WriteTmp
  <2>1. saver'.image = saver.image /\ disk'.file = disk.file
    BY <1>0, <1>4 DEF OpenTmp, WriteTmp, Saves, Disks
  <2>2. Good(saver.image)
    BY <1>4 DEF OpenTmp, WriteTmp, HeldInv, ImageInv, Steps
  <2> QED
    BY <1>a, <1>4, <2>1, <2>2, SaveGoesOn DEF OpenTmp, WriteTmp
<1>5. CASE Rename
  <2>1. saver.pc \in Steps /\ Good(saver.image)
    BY <1>5 DEF Rename, HeldInv, ImageInv, Steps
  <2>2. disk.tmp # Torn
    BY <1>5, TornAssumption DEF Rename, FileInv
  <2>3. disk'.file.content = saver.image
    BY <1>5, <2>2 DEF Rename, File
  <2> QED
    BY <1>5, <2>1, <2>3, ReturnedHeld DEF Rename
<1>6. CASE FailSave
  <2>1. saver.pc \in Steps
    BY <1>6 DEF FailSave, Steps
  <2>2. disk'.file = disk.file
    BY <1>0, <1>6 DEF FailSave, Disks
  <2>3. Whole(disk'.file) => Good(disk'.file.content)
    BY <2>2 DEF HeldInv, ImageInv
  <2> QED
    BY <1>6, <2>1, <2>3, ReturnedHeld DEF FailSave
<1> QED
  BY <1>1, <1>2, <1>3, <1>4, <1>5, <1>6 DEF SaveStep

\* The starts and ends of the process.
LEMMA ProcessHeld ==
    ASSUME Typed, HeldInv, ProcessStep
    PROVE  HeldInv'
<1> USE DEF Typed
<1>0. disk \in Disks
  BY DEF TypeOK
<1>1. CASE StartLoaded
  <2> DEFINE im == disk.file.content
  <2>1. im \in Images /\ Good(im)
    BY <1>1, FileImage DEF StartLoaded, HeldInv, ImageInv
  <2>2. /\ mem'.lines = im.lines /\ log' = im.log /\ mem'.newest = im.newest
        /\ mem'.recovered = im.newest /\ mem'.epoch = im.epoch + 1
    BY <1>1 DEF StartLoaded, NextEpoch
  <2>3. im.newest \in Nat /\ im.epoch \in Nat /\ im.newest <= im.epoch
    BY <2>1 DEF Images, Epochs, Good
  <2> HIDE DEF im
  <2>4. MemInv'
    BY <2>1, <2>2, <2>3 DEF MemInv, RecoveredIsOld, Good
  <2>5. ImageInv'
    BY <1>1 DEF StartLoaded, HeldInv, ImageInv, fileVars
  <2>6. WriterInv'
    BY <1>1 DEF StartLoaded, HeldInv, WriterInv, NoneWrites
  <2> QED
    BY <2>4, <2>5, <2>6 DEF HeldInv
<1>2. CASE StartEmpty
  <2>1. Sound(mem.lines, log)'
    BY <1>2 DEF StartEmpty, Sound, EmptyStore, NoLog, NoLine, Spent
  <2>2. RecoveredIsOld'
    BY <1>2, Bounds DEF StartEmpty, RecoveredIsOld, EmptyStore
  <2>3. ImageInv'
    BY <1>2 DEF StartEmpty, HeldInv, ImageInv, fileVars
  <2>4. WriterInv'
    BY <1>2 DEF StartEmpty, HeldInv, WriterInv, NoneWrites
  <2> QED
    BY <2>1, <2>2, <2>3, <2>4 DEF HeldInv, MemInv
<1>3. CASE Quit
  <2>1. MemInv' /\ ImageInv'
    BY <1>3 DEF Quit, HeldInv, MemInv, RecoveredIsOld, ImageInv, memVars,
                fileVars
  <2>2. WriterInv'
    BY <1>3 DEF Quit, HeldInv, WriterInv, Registry, memVars
  <2> QED
    BY <2>1, <2>2 DEF HeldInv
<1>4. CASE Exit
  <2>1. NoneWrites' /\ saver'.pc = "idle"
    BY <1>4 DEF Exit, NoneWrites, Idle
  <2>2. ImageInv'
    BY <1>4 DEF Exit, HeldInv, ImageInv, fileVars
  <2> QED
    BY <1>4, <2>1, <2>2, EmptyHeld DEF Exit, HeldInv
<1>5. CASE Crash \/ PowerLoss
  <2>1. NoneWrites' /\ saver'.pc = "idle"
    BY <1>5, NoRename DEF Crash, PowerLoss, Killed, NoneWrites, Idle
  <2>2. disk' = disk \/ disk'.file.content = Torn
    BY <1>0, <1>5 DEF Crash, PowerLoss, fileVars, Disks, Files
  <2>3. ImageInv'
    BY <2>1, <2>2 DEF HeldInv, ImageInv, Whole, Good, Steps
  <2> QED
    BY <1>5, <2>1, <2>3, EmptyHeld DEF Crash, PowerLoss, Killed, HeldInv
<1> QED
  BY <1>1, <1>2, <1>3, <1>4, <1>5 DEF ProcessStep

\* HeldInv is inductive.
LEMMA HeldStep == Typed /\ FileInv /\ HeldInv /\ [Next]_vars => HeldInv'
<1> SUFFICES ASSUME Typed, FileInv, HeldInv, [Next]_vars PROVE HeldInv'
  OBVIOUS
<1>1. CASE UNCHANGED vars
  BY <1>1 DEF vars, memVars, fileVars, HeldInv, MemInv, RecoveredIsOld,
              ImageInv, WriterInv, NoneWrites, Registry
<1>2. CASE Next
  BY <1>2, CreateHeld, CommitHeld, BeginHeld, NotifyHeld, SaveHeld,
     ProcessHeld DEF Next, WriterStep
<1> QED
  BY <1>1, <1>2

\* The store starts with nothing committed.
LEMMA HeldInit == Init => HeldInv
<1> SUFFICES ASSUME Init PROVE HeldInv
  OBVIOUS
<1>1. MemInv
  <2>1. Sound(mem.lines, log)
    BY DEF Init, Sound, EmptyStore, NoLog, NoLine, Spent
  <2> QED
    BY <2>1, Bounds DEF Init, MemInv, RecoveredIsOld, EmptyStore
<1>2. ImageInv /\ WriterInv
  BY DEF Init, ImageInv, Whole, WriterInv, NoneWrites, NotSaving, Idle, Steps
<1> QED
  BY <1>1, <1>2 DEF HeldInv

\* HeldInv holds in every reachable state.
LEMMA Held == Spec => []HeldInv
<1>1. Init => FileInv
  BY DEF Init, FileInv, FileIsWhole, NotSaving
<1>2. Typed /\ FileInv /\ [Next]_vars => FileInv'
  <2>1. FileInv /\ UNCHANGED vars => FileInv'
    BY DEF FileInv, FileIsWhole, vars, fileVars
  <2> QED
    BY <2>1, FileInvStep
<1> QED
  BY <1>1, <1>2, HeldInit, HeldStep, InitTyped, NextTyped, PTL DEF Spec

\* No commit is lost in a running store, whichever of several threads creates
\* the lineage and however often the store is saved and reloaded
\* (CommittedIsHeld).
THEOREM CommitsAreHeld == Spec => []CommittedIsHeld
<1>1. HeldInv => CommittedIsHeld
  BY DEF HeldInv, MemInv, Sound, CommittedIsHeld
<1> QED
  BY <1>1, Held, PTL

\* The records a restart recovers are older than the epoch it serves under,
\* although the epoch moves while publications are under way and images are
\* captured (RecoveredIsOld).
THEOREM RecoveredRecordsAreOld == Spec => []RecoveredIsOld
<1>1. HeldInv => RecoveredIsOld
  BY DEF HeldInv, MemInv
<1> QED
  BY <1>1, Held, PTL

-----------------------------------------------------------------------------
(* Sums *)

\* A set of natural numbers that is not empty has a least element.
LEMMA LeastNumber ==
    ASSUME NEW T \in SUBSET Nat, T # {}
    PROVE  \E x \in T : \A y \in T : x <= y
<1> DEFINE U == {0..x : x \in T}
           R == StrictSubsetOrdering(Nat)
<1>1. U \subseteq FiniteSubsetsOf(Nat) /\ U # {}
  <2> SUFFICES ASSUME NEW x \in T
               PROVE  0..x \in FiniteSubsetsOf(Nat)
    OBVIOUS
  <2>1. IsFiniteSet(0..x)
    BY FS_Interval
  <2> QED
    BY <2>1 DEF FiniteSubsetsOf
<1>2. \E u \in U : \A v \in U : ~(<<v, u>> \in R)
  BY <1>1, FS_StrictSubsetOrderingWellFounded, WFMin
<1>3. PICK x \in T : \A y \in T : ~(<<0..y, 0..x>> \in R)
  BY <1>2
<1>4. ASSUME NEW y \in T, y < x
      PROVE  <<0..y, 0..x>> \in R
  <2>1. 0..y \subseteq 0..x /\ x \in 0..x /\ x \notin 0..y
    BY <1>4
  <2> QED
    BY <2>1 DEF StrictSubsetOrdering
<1>5. \A y \in T : ~(y < x)
  BY <1>3, <1>4
<1> HIDE DEF R, U
<1> QED
  BY <1>5

\* An edge that a graph accepts is accepted by every smaller graph: there are
\* fewer paths to close.

\* What SumFunction computes, as a table over the subsets of the domain: the
\* fold takes the elements of a set in the order of CHOOSE.
Chosen(s) == CHOOSE x \in s : TRUE

IsTable(it, f, D) ==
    it = [s \in D |-> IF s = {} THEN 0
                      ELSE f[Chosen(s)] + it[s \ {Chosen(s)}]]

Table(f, D) == CHOOSE it : IsTable(it, f, D)

\* SumFunction is the entry of the whole domain.
LEMMA SumIsTable ==
    ASSUME NEW f
    PROVE  SumFunction(f) = Table(f, SUBSET (DOMAIN f))[DOMAIN f]
  BY Zenon DEF SumFunction, SumFunctionOnSet, FoldFunctionOnSet,
               MapThenFoldSet, Table, IsTable, Chosen

\* The subsets of S with at most n elements.
UpTo(S, n) == {s \in SUBSET S : Cardinality(s) <= n}

\* Taking an element off a set that is not empty.
LEMMA PickOff ==
    ASSUME NEW S, IsFiniteSet(S), NEW s \in SUBSET S, s # {}
    PROVE  /\ Chosen(s) \in s /\ s \ {Chosen(s)} \in SUBSET S
           /\ Cardinality(s) \in Nat \ {0}
           /\ Cardinality(s \ {Chosen(s)}) = Cardinality(s) - 1
<1>1. Chosen(s) \in s
  BY DEF Chosen
<1>2. IsFiniteSet(s)
  BY FS_Subset
<1>3. Cardinality(s) \in Nat /\ Cardinality(s) # 0
  BY <1>2, FS_CardinalityType, FS_EmptySet
<1>4. Cardinality(s \ {Chosen(s)}) = Cardinality(s) - 1
  BY <1>1, <1>2, FS_RemoveElement
<1> QED
  BY <1>1, <1>3, <1>4

\* There is such a table for the subsets of any size.
LEMMA TablesExist ==
    ASSUME NEW S, IsFiniteSet(S), NEW f, NEW n \in Nat
    PROVE  \E it : IsTable(it, f, UpTo(S, n))
<1> DEFINE Has(m) == \E it : IsTable(it, f, UpTo(S, m))
           T == {m \in Nat : ~Has(m)}
<1>1. Has(0)
  <2> DEFINE it == [s \in UpTo(S, 0) |-> 0]
  <2>1. ASSUME NEW s \in UpTo(S, 0), s # {} PROVE FALSE
    <3>1. s \in SUBSET S /\ Cardinality(s) <= 0
      BY DEF UpTo
    <3>2. Cardinality(s) \in Nat \ {0}
      BY <2>1, <3>1, PickOff
    <3> QED
      BY <3>1, <3>2
  <2>2. IsTable(it, f, UpTo(S, 0))
    BY <2>1 DEF IsTable
  <2> QED
    BY <2>2
<1>2. ASSUME NEW m \in Nat, Has(m) PROVE Has(m + 1)
  <2>1. PICK it : IsTable(it, f, UpTo(S, m))
    BY <1>2
  <2> DEFINE new == [s \in UpTo(S, m + 1) |->
                        IF s = {} THEN 0
                        ELSE f[Chosen(s)] + it[s \ {Chosen(s)}]]
  <2>2. \A s \in UpTo(S, m + 1) : s # {} =>
           s \ {Chosen(s)} \in UpTo(S, m)
    BY PickOff DEF UpTo
  <2>3. \A s \in UpTo(S, m) : s \in UpTo(S, m + 1)
    <3>1. \A s \in SUBSET S : Cardinality(s) \in Nat
      BY FS_Subset, FS_CardinalityType
    <3> QED
      BY <3>1 DEF UpTo
  <2>4. \A s \in UpTo(S, m) :
           it[s] = IF s = {} THEN 0 ELSE f[Chosen(s)] + it[s \ {Chosen(s)}]
    BY <2>1 DEF IsTable
  <2>5. \A s \in UpTo(S, m) : new[s] = it[s]
    BY <2>3, <2>4
  <2>6. new = [s \in UpTo(S, m + 1) |->
                  IF s = {} THEN 0
                  ELSE f[Chosen(s)] + new[s \ {Chosen(s)}]]
    <3> DEFINE again == [s \in UpTo(S, m + 1) |->
                            IF s = {} THEN 0
                            ELSE f[Chosen(s)] + new[s \ {Chosen(s)}]]
    <3>1. \A s \in UpTo(S, m + 1) : again[s] = new[s]
      <4> SUFFICES ASSUME NEW s \in UpTo(S, m + 1) PROVE again[s] = new[s]
        OBVIOUS
      <4>1. s # {} => new[s \ {Chosen(s)}] = it[s \ {Chosen(s)}]
        BY <2>2, <2>5
      <4> QED
        BY <4>1
    <3> QED
      BY <3>1
  <2>7. IsTable(new, f, UpTo(S, m + 1))
    BY <2>6 DEF IsTable
  <2> HIDE DEF new
  <2> QED
    BY <2>7
<1> HIDE DEF Has
<1>3. T = {}
  <2> SUFFICES ASSUME T # {} PROVE FALSE
    OBVIOUS
  <2>1. PICK k \in T : \A j \in T : k <= j
    BY LeastNumber
  <2>2. k \in Nat \ {0} /\ ~Has(k)
    BY <1>1, <2>1
  <2>3. k - 1 \in Nat /\ k - 1 \notin T
    BY <2>1, <2>2
  <2>4. Has((k - 1) + 1)
    BY <1>2, <2>3
  <2> QED
    BY <2>2, <2>4
<1>4. Has(n)
  BY <1>3
<1> QED
  BY <1>4 DEF Has

\* The table that SumFunction uses.
LEMMA TableEntries ==
    ASSUME NEW S, IsFiniteSet(S), NEW f
    PROVE  \A s \in SUBSET S :
              Table(f, SUBSET S)[s] =
                 IF s = {} THEN 0
                 ELSE f[Chosen(s)] + Table(f, SUBSET S)[s \ {Chosen(s)}]
<1>1. Cardinality(S) \in Nat /\ UpTo(S, Cardinality(S)) = SUBSET S
  BY FS_Subset, FS_CardinalityType DEF UpTo
<1>2. \E it : IsTable(it, f, SUBSET S)
  <2>1. \E it : IsTable(it, f, UpTo(S, Cardinality(S)))
    BY <1>1, TablesExist
  <2> QED
    BY <1>1, <2>1
<1>3. IsTable(Table(f, SUBSET S), f, SUBSET S)
  BY <1>2, Zenon DEF Table
<1> DEFINE it == Table(f, SUBSET S)
<1>4. it = [s \in SUBSET S |-> IF s = {} THEN 0
                               ELSE f[Chosen(s)] + it[s \ {Chosen(s)}]]
  BY <1>3 DEF IsTable
<1> HIDE DEF it
<1>5. \A s \in SUBSET S : it[s] = IF s = {} THEN 0
                                  ELSE f[Chosen(s)] + it[s \ {Chosen(s)}]
  BY <1>4
<1> QED
  BY <1>5 DEF it

\* Counting one more at i adds one to the sum, and sums are natural numbers.
LEMMA SumOneMore ==
    ASSUME NEW S, IsFiniteSet(S), NEW f \in [S -> Nat], NEW i \in S,
           NEW g \in [S -> Nat],
           \A x \in S : g[x] = IF x = i THEN f[x] + 1 ELSE f[x]
    PROVE  /\ SumFunction(f) \in Nat
           /\ SumFunction(g) = SumFunction(f) + 1
<1> DEFINE F == Table(f, SUBSET S)
           G == Table(g, SUBSET S)
           Right(s) == /\ F[s] \in Nat
                       /\ G[s] = F[s] + (IF i \in s THEN 1 ELSE 0)
           T == {Cardinality(s) : s \in {t \in SUBSET S : ~Right(t)}}
<1>1. /\ \A s \in SUBSET S :
            F[s] = IF s = {} THEN 0 ELSE f[Chosen(s)] + F[s \ {Chosen(s)}]
      /\ \A s \in SUBSET S :
            G[s] = IF s = {} THEN 0 ELSE g[Chosen(s)] + G[s \ {Chosen(s)}]
  BY TableEntries
<1> HIDE DEF F, G
<1>2. \A s \in SUBSET S : Cardinality(s) \in Nat
  BY FS_Subset, FS_CardinalityType
<1>3. T \in SUBSET Nat
  BY <1>2
<1>4. Right({})
  <2>1. F[{}] = 0 /\ G[{}] = 0 /\ i \notin {}
    BY <1>1
  <2> QED
    BY <2>1
<1>5. ASSUME NEW s \in SUBSET S, s # {}, Right(s \ {Chosen(s)})
      PROVE  Right(s)
  <2> DEFINE x == Chosen(s)
             r == s \ {Chosen(s)}
  <2>1. x \in s /\ x \in S /\ r \in SUBSET S /\ x \notin r
    BY <1>5, PickOff
  <2>2. F[s] = f[x] + F[r] /\ G[s] = g[x] + G[r]
    BY <1>1, <1>5
  <2>3. F[r] \in Nat /\ G[r] = F[r] + (IF i \in r THEN 1 ELSE 0)
    BY <1>5
  <2>4. i \in s <=> (i = x \/ i \in r)
    BY <2>1
  <2>5. f[x] \in Nat /\ g[x] = IF x = i THEN f[x] + 1 ELSE f[x]
    BY <2>1
  <2> HIDE DEF x, r
  <2>6. F[s] \in Nat
    BY <2>2, <2>3, <2>5
  <2>7. CASE i = x
    BY <2>1, <2>2, <2>3, <2>4, <2>5, <2>6, <2>7
  <2>8. CASE i # x
    BY <2>1, <2>2, <2>3, <2>4, <2>5, <2>6, <2>8
  <2> QED
    BY <2>7, <2>8
<1> HIDE DEF Right
<1>6. T = {}
  <2> SUFFICES ASSUME T # {} PROVE FALSE
    OBVIOUS
  <2>1. PICK k \in T : \A j \in T : k <= j
    BY <1>3, LeastNumber
  <2>2. PICK s \in SUBSET S : ~Right(s) /\ k = Cardinality(s)
    BY <2>1
  <2>3. s # {}
    BY <1>4, <2>2
  <2>4. /\ s \ {Chosen(s)} \in SUBSET S
        /\ Cardinality(s \ {Chosen(s)}) = k - 1 /\ k \in Nat
    BY <2>2, <2>3, PickOff
  <2>5. k - 1 \notin T
    <3> HIDE DEF T
    <3> QED
      BY <2>1, <2>4
  <2>6. Right(s \ {Chosen(s)})
    BY <2>4, <2>5
  <2> QED
    BY <1>5, <2>2, <2>3, <2>6
<1>7. Right(S)
  BY <1>6
<1>8. SumFunction(f) = F[S] /\ SumFunction(g) = G[S]
  <2>1. DOMAIN f = S /\ DOMAIN g = S
    OBVIOUS
  <2> QED
    BY <2>1, SumIsTable, Zenon DEF F, G
<1> QED
  BY <1>7, <1>8 DEF Right

\* The sum of nothing.
LEMMA SumZero ==
    ASSUME NEW S, IsFiniteSet(S), NEW f \in [S -> Nat],
           \A x \in S : f[x] = 0
    PROVE  SumFunction(f) = 0
<1> DEFINE F == Table(f, SUBSET S)
           T == {Cardinality(s) : s \in {t \in SUBSET S : F[t] # 0}}
<1>1. \A s \in SUBSET S :
         F[s] = IF s = {} THEN 0 ELSE f[Chosen(s)] + F[s \ {Chosen(s)}]
  BY TableEntries
<1> HIDE DEF F
<1>2. T \in SUBSET Nat
  BY FS_Subset, FS_CardinalityType
<1>3. T = {}
  <2> SUFFICES ASSUME T # {} PROVE FALSE
    OBVIOUS
  <2>1. PICK k \in T : \A j \in T : k <= j
    BY <1>2, LeastNumber
  <2>2. PICK s \in SUBSET S : F[s] # 0 /\ k = Cardinality(s)
    BY <2>1
  <2>3. s # {}
    BY <1>1, <2>2
  <2>4. /\ s \ {Chosen(s)} \in SUBSET S /\ Chosen(s) \in S
        /\ Cardinality(s \ {Chosen(s)}) = k - 1 /\ k \in Nat
    BY <2>2, <2>3, PickOff
  <2>5. k - 1 \notin T
    <3> HIDE DEF T
    <3> QED
      BY <2>1, <2>4
  <2>6. F[s \ {Chosen(s)}] = 0 /\ f[Chosen(s)] = 0
    BY <2>4, <2>5
  <2>7. F[s] = f[Chosen(s)] + F[s \ {Chosen(s)}]
    BY <1>1, <2>3
  <2> QED
    BY <2>2, <2>6, <2>7
<1>4. F[S] = 0
  BY <1>3
<1>5. SumFunction(f) = F[S]
  <2>1. DOMAIN f = S
    OBVIOUS
  <2> QED
    BY <2>1, SumIsTable, Zenon DEF F
<1> QED
  BY <1>4, <1>5

-----------------------------------------------------------------------------
(* The image is one cut *)

\* The image holds exactly the commits that its generation counts.
Consistent(im) ==
    Agrees(im.lines, im.log) /\ im.gen = SumFunction(im.log)

\* encode_store_image and decode_store_image accept its size.
Fits(im) == RecordCount(im.lines) <= MaxPersistenceNodes

\* The record that a commit under way has inserted and not yet counted.
Half(l) == IF NoWriter(l) THEN 0 ELSE 1

\* The store generation counts the commits; until it is exhausted a lineage
\* has a record for each commit and one for the commit that holds its lock.
CountedInv ==
    /\ mem.gen = SumFunction(log)
    /\ \/ mem.gen = LastGeneration
       \/ \A l \in Lineages : mem.lines[l].recs = log[l] + Half(l)

\* A lineage lock is held by one writer, or by the save.
LockInv ==
    /\ \A v, w \in Writers :
          writer[v].pc = "inserted" /\ writer[w].pc = "inserted"
              /\ writer[v].lin = writer[w].lin => v = w
    /\ \A l \in saver.held : NoWriter(l)

SavedInv ==
    /\ saver.pc \in Steps => Consistent(saver.image)
    /\ saver.pc \notin Steps => saver.image = None
    /\ saver.pc \in {"write", "rename"} => Fits(saver.image)
    /\ Whole(disk.file) =>
          Consistent(disk.file.content) /\ Fits(disk.file.content)

CutInv == CountedInv /\ LockInv /\ SavedInv

\* What log counts, and what it starts with.
LEMMA LogSums ==
    /\ SumFunction(NoLog) = 0
    /\ \A h \in [Spent -> Nat], i \in Spent :
          SumFunction([h EXCEPT ![i] = h[i] + 1]) = SumFunction(h) + 1
<1>1. IsFiniteSet(Spent)
  BY StoreFileAssumption, FS_AddElement DEF Spent
<1>2. SumFunction(NoLog) = 0
  <2>1. NoLog \in [Spent -> Nat] /\ \A x \in Spent : NoLog[x] = 0
    BY DEF NoLog
  <2> HIDE DEF NoLog
  <2> QED
    BY <1>1, <2>1, SumZero
<1>3. ASSUME NEW h \in [Spent -> Nat], NEW i \in Spent
      PROVE  SumFunction([h EXCEPT ![i] = h[i] + 1]) = SumFunction(h) + 1
  <2> DEFINE g == [h EXCEPT ![i] = h[i] + 1]
  <2>1. /\ g \in [Spent -> Nat]
        /\ \A x \in Spent : g[x] = IF x = i THEN h[x] + 1 ELSE h[x]
    OBVIOUS
  <2> HIDE DEF g
  <2>2. SumFunction(g) = SumFunction(h) + 1
    BY <1>1, <2>1, SumOneMore
  <2> QED
    BY <2>2 DEF g
<1> QED
  BY <1>2, <1>3

\* Steps that insert nothing keep the locks.
LEMMA LocksKept ==
    ASSUME LockInv, saver'.held \subseteq saver.held,
           \A v \in Writers : writer'[v].pc = "inserted" =>
               writer[v].pc = "inserted" /\ writer'[v].lin = writer[v].lin
    PROVE  LockInv' /\ \A l : NoWriter(l) => NoWriter(l)'
<1>1. \A l : NoWriter(l) => NoWriter(l)'
  BY DEF NoWriter
<1> QED
  BY <1>1 DEF LockInv

\* Steps that neither count nor insert.
LEMMA CountedKept ==
    ASSUME CountedInv, mem'.gen = mem.gen, log' = log,
           \A l \in Lineages : mem'.lines[l].recs = mem.lines[l].recs,
           \A l \in Lineages : NoWriter(l)' <=> NoWriter(l)
    PROVE  CountedInv'
<1>1. \A l \in Lineages : Half(l)' = Half(l)
  BY DEF Half
<1> QED
  BY <1>1 DEF CountedInv

\* Steps that leave the save and the store file alone.
LEMMA SavedKept ==
    ASSUME SavedInv, saver' = saver, disk'.file = disk.file
    PROVE  SavedInv'
  BY DEF SavedInv, Consistent, Fits, Whole

\* A publication that begins, creates its lineage or is refused.
LEMMA BeforeInsertCut ==
    ASSUME Typed, HeldInv, CutInv, NEW w \in Writers,
           \/ \E l \in Lineages : Begin(w, l)
           \/ Create(w) \/ Refuse(w)
    PROVE  CutInv'
<1> USE DEF Typed
<1>0. /\ mem \in Stores /\ log \in [Spent -> Nat]
      /\ writer \in [Writers -> Publications]
  BY DEF TypeOK
<1>1. /\ log' = log /\ saver' = saver /\ disk' = disk
      /\ writer[w].pc # "inserted"
  BY DEF Begin, Create, Refuse, memVars, fileVars
<1>2. \A v \in Writers \ {w} : writer'[v] = writer[v]
  BY <1>0 DEF Begin, Create, Refuse
<1>3. writer'[w].pc # "inserted"
  <2>1. CASE \E l \in Lineages : Begin(w, l)
    BY <1>0, <2>1 DEF Begin
  <2>2. CASE Create(w)
    BY <1>0, <2>2 DEF Create, Idle, Publications
  <2>3. CASE Refuse(w)
    BY <1>0, <2>3 DEF Refuse, Idle
  <2> QED
    BY <2>1, <2>2, <2>3
<1>4. \A l \in Lineages : NoWriter(l)' <=> NoWriter(l)
  BY <1>1, <1>2, <1>3 DEF NoWriter
<1>5. LockInv'
  BY <1>1, <1>2, <1>3, LocksKept DEF CutInv
<1>6. SavedInv'
  BY <1>1, SavedKept DEF CutInv
<1>7. CountedInv'
  <2>1. CASE mem' = mem
    BY <1>1, <1>4, <2>1, CountedKept DEF CutInv
  <2>2. CASE mem' # mem
    <3> DEFINE l == writer[w].lin
    <3>1. /\ l \in Lineages /\ l \notin Registry
          /\ mem' = [mem EXCEPT !.lines[l] = NewLine]
      BY <2>2 DEF Begin, Create, Refuse, memVars, HeldInv, WriterInv
    <3>2. mem'.gen = mem.gen
      BY <1>0, <3>1 DEF Stores
    <3>3. \A k \in Lineages : mem'.lines[k] = IF k = l THEN NewLine
                                              ELSE mem.lines[k]
      BY <1>0, <3>1 DEF Stores
    <3>4. log[l] = 0
      BY <3>1 DEF HeldInv, MemInv, Sound, Registry, Known
    <3>5. NoWriter(l)
      BY <3>1 DEF NoWriter, HeldInv, WriterInv
    <3> HIDE DEF l
    <3>6. \A k \in Lineages : Half(k)' = Half(k)
      BY <1>4 DEF Half
    <3>7. Half(l) = 0 /\ NewLine.recs = 0
      BY <3>5 DEF Half, NewLine
    <3>8. ASSUME mem.gen # LastGeneration, NEW k \in Lineages
          PROVE  mem'.lines[k].recs = log'[k] + Half(k)'
      <4>1. mem.lines[k].recs = log[k] + Half(k)
        BY <3>8 DEF CutInv, CountedInv
      <4>2. CASE k = l
        BY <1>1, <3>3, <3>4, <3>6, <3>7, <4>2
      <4>3. CASE k # l
        BY <1>1, <3>3, <3>6, <4>1, <4>3
      <4> QED
        BY <4>2, <4>3
    <3> QED
      BY <1>1, <3>2, <3>8 DEF CutInv, CountedInv
  <2> QED
    BY <2>1, <2>2
<1> QED
  BY <1>5, <1>6, <1>7 DEF CutInv

\* The record is inserted under the lineage lock.
LEMMA InsertCut ==
    ASSUME Typed, HeldInv, CutInv, NEW w \in Writers, Insert(w)
    PROVE  CutInv'
<1> USE DEF Typed
<1>a. PICK l : l = writer[w].lin
  OBVIOUS
<1>0. /\ mem \in Stores /\ log \in [Spent -> Nat] /\ l \in Lineages
      /\ writer \in [Writers -> Publications]
  BY <1>a DEF TypeOK, HeldInv, WriterInv, Insert
<1>1. /\ log' = log /\ saver' = saver /\ disk' = disk
      /\ writer[w].pc = "wait" /\ l \notin saver.held /\ NoWriter(l)
  BY <1>a DEF Insert, Free, fileVars
<1>2. /\ \A v \in Writers \ {w} : writer'[v] = writer[v]
      /\ writer'[w].pc = "inserted" /\ writer'[w].lin = l
  BY <1>0, <1>a DEF Insert, Publications
<1>3. /\ mem'.gen = mem.gen
      /\ \A k \in Lineages : mem'.lines[k].recs =
            IF k = l THEN mem.lines[k].recs + 1 ELSE mem.lines[k].recs
  BY <1>0, <1>a DEF Insert, Stores, Line
<1>4. ~NoWriter(l)' /\ \A k : k # l => (NoWriter(k)' <=> NoWriter(k))
  BY <1>1, <1>2 DEF NoWriter
<1>5. LockInv'
  <2>1. \A v \in Writers : writer[v].pc = "inserted" => writer[v].lin # l
    BY <1>1 DEF NoWriter
  <2>2. \A k \in saver'.held : NoWriter(k)'
    BY <1>1, <1>4 DEF CutInv, LockInv
  <2> QED
    BY <1>2, <2>1, <2>2 DEF CutInv, LockInv
<1>6. SavedInv'
  BY <1>1, SavedKept DEF CutInv
<1>7. CountedInv'
  <2>1. ASSUME mem.gen # LastGeneration, NEW k \in Lineages
        PROVE  mem'.lines[k].recs = log'[k] + Half(k)'
    <3>1. /\ mem.lines[k].recs = log[k] + Half(k)
          /\ log[k] \in Nat
      BY <1>0, <2>1 DEF CutInv, CountedInv, Spent
    <3>2. CASE k = l
      <4>1. Half(k) = 0 /\ Half(k)' = 1
        BY <1>1, <1>4, <3>2 DEF Half
      <4> QED
        BY <1>1, <1>3, <3>1, <3>2, <4>1
    <3>3. CASE k # l
      <4>1. Half(k)' = Half(k)
        BY <1>4, <3>3 DEF Half
      <4> QED
        BY <1>1, <1>3, <3>1, <3>3, <4>1
    <3> QED
      BY <3>2, <3>3
  <2> QED
    BY <1>1, <1>3, <2>1 DEF CutInv, CountedInv
<1> QED
  BY <1>5, <1>6, <1>7 DEF CutInv

\* The commit is counted and its lock released; a commit that finds the
\* generations exhausted leaves them so.
LEMMA BumpCut ==
    ASSUME Typed, HeldInv, CutInv, NEW w \in Writers, Bump(w)
    PROVE  CutInv'
<1> USE DEF Typed
<1>a. PICK l : l = writer[w].lin
  OBVIOUS
<1>0. /\ mem \in Stores /\ log \in [Spent -> Nat] /\ l \in Lineages
      /\ l \in Spent /\ writer \in [Writers -> Publications]
      /\ mem.gen \in 0..LastGeneration
  BY <1>a DEF TypeOK, HeldInv, WriterInv, Bump, Spent, Stores
<1>1. saver' = saver /\ disk' = disk /\ writer[w].pc = "inserted"
  BY DEF Bump, fileVars
<1>2. /\ \A v \in Writers \ {w} : writer'[v] = writer[v]
      /\ writer'[w] = Idle
  BY <1>0 DEF Bump
<1>3. \A v \in Writers : writer'[v].pc = "inserted" =>
         writer[v].pc = "inserted" /\ writer'[v].lin = writer[v].lin
  BY <1>2 DEF Idle
<1>4. LockInv'
  BY <1>1, <1>3, LocksKept DEF CutInv
<1>5. SavedInv'
  BY <1>1, SavedKept DEF CutInv
<1>6. CountedInv'
  <2>1. CASE mem.gen < LastGeneration
    <3>1. /\ mem'.gen = mem.gen + 1
          /\ \A k \in Lineages : mem'.lines[k].recs = mem.lines[k].recs
      BY <1>0, <1>a, <2>1 DEF Bump, Stores, Line
    <3>2. log' = [log EXCEPT ![l] = log[l] + 1]
      BY <1>a, <2>1 DEF Bump
    <3>3. SumFunction(log') = SumFunction(log) + 1
      BY <1>0, <3>2, LogSums
    <3>4. \A k \in Lineages : log'[k] = IF k = l THEN log[k] + 1 ELSE log[k]
      BY <1>0, <3>2 DEF Spent
    <3>5. ~NoWriter(l) /\ NoWriter(l)'
      <4>1. ~NoWriter(l)
        BY <1>1, <1>a DEF NoWriter
      <4>2. \A v \in Writers \ {w} :
               ~(writer[v].pc = "inserted" /\ writer[v].lin = l)
        BY <1>1, <1>a DEF CutInv, LockInv
      <4>3. \A v \in Writers :
               ~(writer'[v].pc = "inserted" /\ writer'[v].lin = l)
        BY <1>2, <4>2 DEF Idle
      <4> QED
        BY <4>1, <4>3 DEF NoWriter
    <3>6. \A k : k # l => (NoWriter(k)' <=> NoWriter(k))
      BY <1>1, <1>2, <1>a DEF NoWriter, Idle
    <3>7. ASSUME NEW k \in Lineages
          PROVE  mem'.lines[k].recs = log'[k] + Half(k)'
      <4>1. /\ mem.lines[k].recs = log[k] + Half(k)
            /\ log[k] \in Nat
        BY <1>0, <2>1 DEF CutInv, CountedInv, Spent
      <4>2. CASE k = l
        <5>1. Half(k) = 1 /\ Half(k)' = 0
          BY <3>5, <4>2 DEF Half
        <5> QED
          BY <3>1, <3>4, <4>1, <4>2, <5>1
      <4>3. CASE k # l
        <5>1. Half(k)' = Half(k)
          BY <3>6, <4>3 DEF Half
        <5> QED
          BY <3>1, <3>4, <4>1, <4>3, <5>1
      <4> QED
        BY <4>2, <4>3
    <3> QED
      BY <3>1, <3>3, <3>7 DEF CutInv, CountedInv
  <2>2. CASE ~(mem.gen < LastGeneration)
    <3>1. mem' = mem /\ log' = log /\ mem.gen = LastGeneration
      BY <1>0, <2>2, Bounds DEF Bump
    <3> QED
      BY <3>1 DEF CutInv, CountedInv
  <2> QED
    BY <2>1, <2>2
<1> QED
  BY <1>4, <1>5, <1>6 DEF CutInv

\* A notification is counted too.
LEMMA NotifyCut ==
    ASSUME Typed, CutInv, NEW e \in Epochs, Notify(e)
    PROVE  CutInv'
<1> USE DEF Typed
<1>0. /\ mem \in Stores /\ log \in [Spent -> Nat] /\ None \in Spent
      /\ mem.gen \in 0..LastGeneration /\ None \notin Lineages
  BY StoreFileAssumption DEF TypeOK, Spent, Stores
<1>1. saver' = saver /\ disk' = disk /\ writer' = writer
  BY DEF Notify, fileVars
<1>2. \A l : NoWriter(l)' <=> NoWriter(l)
  BY <1>1 DEF NoWriter
<1>3. LockInv'
  BY <1>1, LocksKept DEF CutInv
<1>4. SavedInv'
  BY <1>1, SavedKept DEF CutInv
<1>5. mem'.lines = mem.lines
  BY <1>0 DEF Notify, Stores
<1>6. CountedInv'
  <2>1. CASE mem.gen < LastGeneration
    <3>1. /\ mem'.gen = mem.gen + 1
          /\ log' = [log EXCEPT ![None] = log[None] + 1]
      BY <1>0, <2>1 DEF Notify, Stores
    <3>2. SumFunction(log') = SumFunction(log) + 1
      BY <1>0, <3>1, LogSums
    <3>3. \A l \in Lineages : log'[l] = log[l]
      BY <1>0, <3>1 DEF Spent
    <3>4. \A l \in Lineages : Half(l)' = Half(l)
      BY <1>2 DEF Half
    <3>5. \A l \in Lineages : mem'.lines[l].recs = log'[l] + Half(l)'
      BY <1>5, <2>1, <1>0, <3>3, <3>4 DEF CutInv, CountedInv
    <3> QED
      BY <3>1, <3>2, <3>5 DEF CutInv, CountedInv
  <2>2. CASE ~(mem.gen < LastGeneration)
    <3>1. mem'.gen = mem.gen /\ log' = log
      BY <1>0, <2>2 DEF Notify, Stores
    <3> QED
      BY <1>2, <1>5, <3>1, CountedKept DEF CutInv
  <2> QED
    BY <2>1, <2>2
<1> QED
  BY <1>3, <1>4, <1>6 DEF CutInv

\* A store without commits, or a process that ends.
LEMMA EmptyCut ==
    ASSUME mem' = EmptyStore, log' = NoLog, NoneWrites'
    PROVE  CountedInv' /\ \A l : NoWriter(l)'
<1>1. \A l : NoWriter(l)'
  BY DEF NoneWrites, NoWriter
<1>2. /\ mem'.gen = 0
      /\ \A l \in Lineages : mem'.lines[l].recs = 0 /\ log'[l] = 0
  BY DEF EmptyStore, NoLine, NoLog, Spent
<1>3. SumFunction(log)' = 0
  BY LogSums
<1>4. \A l \in Lineages : Half(l)' = 0
  BY <1>1 DEF Half
<1> QED
  BY <1>1, <1>2, <1>3, <1>4 DEF CountedInv

\* No writer has inserted anything while none is under way.
LEMMA NoneHoldsLocks ==
    ASSUME NoneWrites'
    PROVE  LockInv'
  BY DEF NoneWrites, NoWriter, LockInv

\* A save that ends leaves no lock and no image.
LEMMA ReturnedCut ==
    ASSUME Typed, HeldInv, CutInv, Returned, saver.pc \in Steps,
           UNCHANGED writer,
           Whole(disk'.file) =>
              Consistent(disk'.file.content) /\ Fits(disk'.file.content)
    PROVE  CutInv'
<1>1. saver'.pc = "idle" /\ saver'.held = {} /\ saver'.image = None
  BY DEF Returned, NotSaving
<1>2. SavedInv'
  BY <1>1 DEF SavedInv, Steps, Whole, Consistent, Fits
<1>3. LockInv'
  BY <1>1, LocksKept DEF CutInv
<1>4. CASE process = "quitting" /\ Ended
  <2>1. NoneWrites'
    BY <1>4 DEF HeldInv, WriterInv, NoneWrites, Steps
  <2> QED
    BY <1>2, <1>3, <1>4, <2>1, EmptyCut DEF Ended, CutInv
<1>5. CASE process = "up" /\ UNCHANGED <<process, memVars>>
  <2>1. \A l : NoWriter(l)' <=> NoWriter(l)
    BY DEF NoWriter
  <2>2. CountedInv'
    BY <1>5, <2>1, CountedKept DEF CutInv, memVars
  <2> QED
    BY <1>2, <1>3, <2>2 DEF CutInv
<1> QED
  BY <1>4, <1>5 DEF Returned

\* The image is captured with every lock held, so that no commit is half done.
LEMMA CaptureCut ==
    ASSUME Typed, HeldInv, CutInv, Capture
    PROVE  Consistent(saver'.image)
<1> USE DEF Typed
<1>0. /\ mem \in Stores /\ log \in [Spent -> Nat]
  BY DEF TypeOK
<1>1. /\ saver'.image.lines = mem.lines /\ saver'.image.log = log
      /\ saver'.image.gen = mem.gen
  BY DEF Capture
<1>2. \A l \in Lineages : NoWriter(l)
  <2>1. \A l \in Registry : NoWriter(l)
    BY DEF Capture, CutInv, LockInv
  <2>2. \A l \in Lineages \ Registry : NoWriter(l)
    BY DEF HeldInv, WriterInv, NoWriter
  <2> QED
    BY <2>1, <2>2
<1>3. mem.gen = SumFunction(log)
  BY DEF CutInv, CountedInv
<1>4. ASSUME NEW l \in Lineages
      PROVE  /\ mem.lines[l].lgen = log[l]
             /\ mem.lines[l].recs = log[l] \/ SumFunction(log) = LastGeneration
  <2>1. mem.lines[l].lgen = log[l] /\ log[l] \in Nat
    BY <1>0, <1>4 DEF HeldInv, MemInv, Sound, Spent
  <2>2. Half(l) = 0
    BY <1>2, <1>4 DEF Half
  <2> QED
    BY <1>3, <1>4, <2>1, <2>2 DEF CutInv, CountedInv
<1>5. Agrees(mem.lines, log)
  BY <1>4 DEF Agrees
<1> QED
  BY <1>1, <1>3, <1>5 DEF Consistent

\* The steps of a save.
LEMMA SaveCut ==
    ASSUME Typed, HeldInv, FileInv, CutInv, BeginSave \/ SaveStep
    PROVE  CutInv'
<1> USE DEF Typed
<1>0. saver \in Saves /\ disk \in Disks
  BY DEF TypeOK
<1>1. ASSUME UNCHANGED <<memVars, writer>>
      PROVE  CountedInv' /\ \A l : NoWriter(l)' <=> NoWriter(l)
  <2>1. \A l : NoWriter(l)' <=> NoWriter(l)
    BY <1>1 DEF NoWriter
  <2> QED
    BY <1>1, <2>1, CountedKept DEF CutInv, memVars
<1>2. CASE BeginSave
  <2>1. /\ saver'.pc = "lock" /\ saver'.held = saver.held
        /\ saver'.image = None
    BY <1>0, <1>2 DEF BeginSave, Saves
  <2>2. LockInv'
    BY <1>2, <2>1, LocksKept DEF BeginSave, CutInv
  <2>3. SavedInv'
    BY <1>2, <2>1 DEF BeginSave, fileVars, CutInv, SavedInv, Steps, Whole,
                      Consistent, Fits
  <2> QED
    BY <1>1, <1>2, <2>2, <2>3 DEF BeginSave, CutInv
<1>3. CASE LockLineage
  <2>1. PICK l \in Registry \ saver.held :
           NoWriter(l) /\ saver' = [saver EXCEPT !.held = @ \cup {l}]
    BY <1>3 DEF LockLineage
  <2>2. /\ saver'.pc = "lock" /\ saver'.held = saver.held \cup {l}
        /\ saver'.image = saver.image /\ saver.pc = "lock"
    BY <1>0, <1>3, <2>1 DEF LockLineage, Saves
  <2>3. LockInv'
    BY <1>1, <1>3, <2>1, <2>2 DEF LockLineage, CutInv, LockInv
  <2>4. SavedInv'
    BY <1>3, <2>2 DEF LockLineage, fileVars, CutInv, SavedInv, Steps, Whole,
                      Consistent, Fits
  <2> QED
    BY <1>1, <1>3, <2>3, <2>4 DEF LockLineage, CutInv
<1>4. CASE Capture
  <2>1. saver'.pc = "open" /\ saver'.held = {}
    BY <1>4 DEF Capture
  <2>2. LockInv'
    BY <1>4, <2>1, LocksKept DEF Capture, CutInv
  <2>3. Consistent(saver'.image)
    BY <1>4, CaptureCut
  <2>4. SavedInv'
    BY <1>4, <2>1, <2>3 DEF Capture, fileVars, CutInv, SavedInv, Steps, Whole,
                            Consistent, Fits
  <2> QED
    BY <1>1, <1>4, <2>2, <2>4 DEF Capture, CutInv
<1>5. CASE OpenTmp \/ WriteTmp
  <2>1. /\ saver'.image = saver.image /\ disk'.file = disk.file
        /\ saver'.held = saver.held
        /\ saver'.pc \in {"write", "rename"} /\ saver.pc \in Steps
        /\ UNCHANGED <<memVars, writer>>
    BY <1>0, <1>5 DEF OpenTmp, WriteTmp, Saves, Disks, Steps
  <2>2. LockInv'
    BY <2>1, LocksKept DEF CutInv
  <2>3. Fits(saver.image)
    BY <1>5 DEF OpenTmp, WriteTmp, Encodes, Fits, CutInv, SavedInv
  <2>4. SavedInv'
    BY <2>1, <2>3 DEF CutInv, SavedInv, Steps, Whole, Consistent, Fits
  <2> QED
    BY <1>1, <2>1, <2>2, <2>4 DEF CutInv
<1>6. CASE Rename
  <2>1. /\ saver.pc \in Steps /\ Consistent(saver.image)
        /\ Fits(saver.image)
    BY <1>6 DEF Rename, CutInv, SavedInv, Steps
  <2>2. disk.tmp # Torn
    BY <1>6, TornAssumption DEF Rename, FileInv
  <2>3. disk'.file.content = saver.image
    BY <1>6, <2>2 DEF Rename, File
  <2> QED
    BY <1>6, <2>1, <2>3, ReturnedCut DEF Rename
<1>7. CASE FailSave
  <2>1. saver.pc \in Steps
    BY <1>7 DEF FailSave, Steps
  <2>2. disk'.file = disk.file
    BY <1>0, <1>7 DEF FailSave, Disks
  <2>3. Whole(disk'.file) =>
           Consistent(disk'.file.content) /\ Fits(disk'.file.content)
    BY <2>2 DEF CutInv, SavedInv
  <2> QED
    BY <1>7, <2>1, <2>3, ReturnedCut DEF FailSave
<1> QED
  BY <1>2, <1>3, <1>4, <1>5, <1>6, <1>7 DEF SaveStep

\* The starts and ends of the process.
LEMMA ProcessCut ==
    ASSUME Typed, HeldInv, CutInv, ProcessStep
    PROVE  CutInv'
<1> USE DEF Typed
<1>0. disk \in Disks
  BY DEF TypeOK
<1>1. CASE StartLoaded
  <2> DEFINE im == disk.file.content
  <2>1. im \in Images /\ Consistent(im)
    BY <1>1, FileImage DEF StartLoaded, CutInv, SavedInv
  <2>2. /\ mem'.lines = im.lines /\ log' = im.log /\ mem'.gen = im.gen
        /\ saver' = saver /\ disk' = disk /\ writer' = writer
    BY <1>1 DEF StartLoaded, fileVars
  <2>3. \A l : NoWriter(l)'
    BY <1>1, <2>2 DEF StartLoaded, HeldInv, WriterInv, NoneWrites, NoWriter
  <2>4. LockInv'
    BY <2>2, LocksKept DEF CutInv
  <2>5. SavedInv'
    BY <2>2, SavedKept DEF CutInv
  <2> HIDE DEF im
  <2>6. \A l \in Lineages : Half(l)' = 0
    BY <2>3 DEF Half
  <2>7. \A l \in Lineages : im.log[l] \in Nat
    BY <2>1 DEF Images, Spent
  <2>8. CountedInv'
    BY <2>1, <2>2, <2>6, <2>7 DEF Consistent, Agrees, CountedInv
  <2> QED
    BY <2>4, <2>5, <2>8 DEF CutInv
<1>2. CASE StartEmpty
  <2>1. NoneWrites'
    BY <1>2 DEF StartEmpty, HeldInv, WriterInv, NoneWrites
  <2>2. SavedInv'
    BY <1>2, SavedKept DEF StartEmpty, fileVars, CutInv
  <2> QED
    BY <1>2, <2>1, <2>2, EmptyCut, NoneHoldsLocks DEF StartEmpty, CutInv
<1>3. CASE Quit
  <2>1. /\ saver' = saver /\ disk' = disk /\ writer' = writer
        /\ mem' = mem /\ log' = log
    BY <1>3 DEF Quit, fileVars, memVars
  <2>2. \A l : NoWriter(l)' <=> NoWriter(l)
    BY <2>1 DEF NoWriter
  <2>3. LockInv'
    BY <2>1, LocksKept DEF CutInv
  <2> QED
    BY <2>1, <2>2, <2>3, SavedKept, CountedKept DEF CutInv
<1>4. CASE Exit
  <2>1. NoneWrites'
    BY <1>4 DEF Exit, NoneWrites, Idle
  <2>2. SavedInv'
    BY <1>4, SavedKept DEF Exit, fileVars, CutInv
  <2> QED
    BY <1>4, <2>1, <2>2, EmptyCut, NoneHoldsLocks DEF Exit, Ended, CutInv
<1>5. CASE Crash \/ PowerLoss
  <2>1. /\ NoneWrites' /\ saver'.pc = "idle" /\ saver'.image = None
        /\ mem' = EmptyStore /\ log' = NoLog
    BY <1>5 DEF Crash, PowerLoss, Killed, Ended, NoneWrites, Idle, NotSaving
  <2>2. disk' = disk \/ disk'.file.content = Torn
    BY <1>0, <1>5 DEF Crash, PowerLoss, fileVars, Disks, Files
  <2>3. SavedInv'
    BY <2>1, <2>2 DEF CutInv, SavedInv, Whole, Steps, Consistent, Fits
  <2> QED
    BY <2>1, <2>3, EmptyCut, NoneHoldsLocks DEF CutInv
<1> QED
  BY <1>1, <1>2, <1>3, <1>4, <1>5 DEF ProcessStep

\* CutInv is inductive.
LEMMA CutStep ==
    Typed /\ FileInv /\ HeldInv /\ CutInv /\ [Next]_vars => CutInv'
<1> SUFFICES ASSUME Typed, FileInv, HeldInv, CutInv, [Next]_vars PROVE CutInv'
  OBVIOUS
<1>1. CASE UNCHANGED vars
  <2>1. /\ saver' = saver /\ disk' = disk /\ writer' = writer
        /\ mem' = mem /\ log' = log
    BY <1>1 DEF vars, memVars, fileVars
  <2>2. \A l : NoWriter(l)' <=> NoWriter(l)
    BY <2>1 DEF NoWriter
  <2>3. LockInv'
    BY <2>1, LocksKept DEF CutInv
  <2> QED
    BY <2>1, <2>2, <2>3, SavedKept, CountedKept DEF CutInv
<1>2. CASE Next
  BY <1>2, BeforeInsertCut, InsertCut, BumpCut, NotifyCut, SaveCut, ProcessCut
     DEF Next, WriterStep
<1> QED
  BY <1>1, <1>2

\* CutInv holds at first.
LEMMA CutInit == Init => CutInv
<1> SUFFICES ASSUME Init PROVE CutInv
  OBVIOUS
<1>1. \A l : NoWriter(l)
  BY DEF Init, NoWriter, Idle
<1>2. CountedInv
  <2>1. /\ mem.gen = 0
        /\ \A l \in Lineages : mem.lines[l].recs = 0 /\ log[l] = 0
    BY DEF Init, EmptyStore, NoLine, NoLog, Spent
  <2>2. SumFunction(log) = 0
    BY LogSums DEF Init
  <2>3. \A l \in Lineages : Half(l) = 0
    BY <1>1 DEF Half
  <2> QED
    BY <2>1, <2>2, <2>3 DEF CountedInv
<1>3. LockInv
  BY <1>1 DEF Init, LockInv, Idle
<1>4. SavedInv
  BY DEF Init, SavedInv, NotSaving, Whole, Steps
<1> QED
  BY <1>2, <1>3, <1>4 DEF CutInv

\* CutInv holds in every reachable state.
LEMMA Cut == Spec => []CutInv
<1>1. Init => FileInv
  BY DEF Init, FileInv, FileIsWhole, NotSaving
<1>2. Typed /\ FileInv /\ [Next]_vars => FileInv'
  <2>1. FileInv /\ UNCHANGED vars => FileInv'
    BY DEF FileInv, FileIsWhole, vars, fileVars
  <2> QED
    BY <2>1, FileInvStep
<1> QED
  BY <1>1, <1>2, HeldInit, HeldStep, CutInit, CutStep, InitTyped, NextTyped,
     PTL DEF Spec

\* A captured image is one cut of the store: its lineages hold exactly the
\* commits that its store generation counts, for any number of threads that
\* commit while the locks are collected (CaptureIsConsistent).
THEOREM CapturesAreConsistent == Spec => []CaptureIsConsistent
<1>1. CutInv => CaptureIsConsistent
  BY DEF CutInv, SavedInv, Consistent, CaptureIsConsistent
<1> QED
  BY <1>1, Cut, PTL

\* Whatever was saved is accepted by load, unless two lineages share a route
\* or a commit ran out of store generations (SavedLoads).
THEOREM SavedImagesLoad == Spec => []SavedLoads
<1>1. Typed /\ CutInv => SavedLoads
  <2> SUFFICES ASSUME TypeOK, CutInv, Whole(disk.file),
                      ~SharesRoute(disk.file.content),
                      disk.file.content.gen # LastGeneration
               PROVE  Loads(disk.file.content)
    BY DEF SavedLoads, Typed
  <2> DEFINE im == disk.file.content
  <2>1. im \in Images /\ Consistent(im) /\ Fits(im)
    BY FileImage DEF CutInv, SavedInv
  <2>2. \A l \in Known(im.lines) : im.lines[l].recs = im.lines[l].lgen
    BY <2>1 DEF Known, Consistent, Agrees
  <2> QED
    BY <2>1, <2>2 DEF Loads, Fits
<1> QED
  BY <1>1, Cut, InitTyped, NextTyped, PTL DEF Spec

=============================================================================
