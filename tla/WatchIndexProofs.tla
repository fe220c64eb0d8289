--------------------------- MODULE WatchIndexProofs ---------------------------
(***************************************************************************)
(* Theorems about WatchIndex, for every set of notes and every bound.      *)
(***************************************************************************)
EXTENDS WatchIndex, TLAPS

\* The records that start a scan, a save or a rebuild are typed.
LEMMA Blanks ==
  /\ NoFile \in FileId
  /\ Unread \in [Path -> State] /\ NoScan \in Scan /\ NoSaving \in Saving /\ NoBuild \in Build
  <1>1. NoFile \in FileId
    BY DEF FileId
  <1>2. [stamp |-> 0, id |-> NoFile] \in State
    BY <1>1 DEF State
  <1>3. Unread \in [Path -> State]
    BY <1>2 DEF Unread
  <1>4. NoScan \in Scan
    BY DEF NoScan, Scan
  <1>5. NoSaving \in Saving
    BY <1>2 DEF NoSaving, Saving
  <1>6. NoBuild \in Build
    BY <1>3 DEF NoBuild, Build
  <1> QED
    BY <1>1, <1>3, <1>4, <1>5, <1>6

\* A listing is a snapshot.
LEMMA ListedTyped == ASSUME TypeOK PROVE Listed(vault) \in [Path -> State]
  BY Blanks DEF TypeOK, Listed

\* The jobs that are queued are jobs.
LEMMA RescanTyped ==
  ASSUME NEW o \in {"scan", "error"}, NEW S \in SUBSET Path
  PROVE  Rescan(o, S) \in Job
  BY DEF Rescan, Job

\* The difference of two snapshots is a set of changes.
LEMMA DifferencesTyped ==
  ASSUME NEW before, NEW after \in [Path -> State]
  PROVE  Differences(before, after) \subseteq Change
  BY DEF Differences, Change, Notes
-----------------------------------------------------------------------------
\* The initial state is typed.
LEMMA InitTyped == Init => TypeOK
  <1> SUFFICES ASSUME Init PROVE TypeOK
    OBVIOUS
  <1> USE Blanks
  <1>1. vault \in [Path -> State]
    <2>1. PICK S \in SUBSET Path :
            vault = [p \in Path |-> [stamp |-> 0, id |-> IF p \in S THEN <<p, 0>> ELSE NoFile]]
      BY DEF Init
    <2>2. \A p \in Path : <<p, 0>> \in FileId
      BY DEF FileId
    <2> QED
      BY <2>1, <2>2 DEF State
  <1>2. watch \in Watch
    BY DEF Init, Watch
  <1>3. scan \in Scan
    BY DEF Init, NoScan, Scan
  <1>4. jobs \in Seq(Job)
    BY DEF Init
  <1> QED
    BY <1>1, <1>2, <1>3, <1>4 DEF Init, TypeOK

\* A change of the folder keeps the types.
LEMMA AlterTyped ==
  ASSUME TypeOK, NEW S \in SUBSET Path, NEW f \in [S -> State], Alter(S, f)
  PROVE  vault' \in [Path -> State] /\ clock' \in Nat /\ notice' \in BOOLEAN
  <1>1. vault' \in [Path -> State]
    BY DEF TypeOK, Alter
  <1>2. notice' \in BOOLEAN
    BY DEF TypeOK, Alter, Noticed, Watch
  <1> QED
    BY <1>1, <1>2 DEF TypeOK, Alter

\* So does the account of what has happened.
LEMMA SpendTyped ==
  ASSUME TypeOK, NEW e \in Events, Spend(e)
  PROVE  spent' \in [Events -> Nat]
  BY DEF TypeOK, Spend

\* The state a path gets is a state.
LEMMA NowTyped ==
  ASSUME TypeOK
  PROVE  /\ \A i \in FileId : Now(i) \in State
         /\ \A p \in Path : NewFile(p) \in State
         /\ Now(NoFile) \in State
  <1>1. \A i \in FileId : Now(i) \in State
    BY DEF TypeOK, Now, State
  <1>2. \A p \in Path : <<p, clock + 1>> \in FileId
    BY DEF TypeOK, FileId
  <1> QED
    BY <1>1, <1>2, Blanks DEF NewFile

\* What other programs do, and the beginning of a save, keep the types.
LEMMA WorldTyped ==
  ASSUME TypeOK, World, UNCHANGED budget, lost' \subseteq {"change", "removal"}
  PROVE  TypeOK'
  <1> USE NowTyped DEF Elsewhere, index, watcher, pass
  <1>e. Events = {"create", "write", "delete", "rename", "link", "save", "fault", "overflow"}
    BY DEF Events
  <1>i. \A p \in Path : vault[p] \in State /\ vault[p].id \in FileId
    BY DEF TypeOK, State
  <1>a. ASSUME NEW e \in Events, Elsewhere(e), NEW S \in SUBSET Path, NEW f \in [S -> State],
               Alter(S, f)
        PROVE  TypeOK'
    BY <1>a, AlterTyped, SpendTyped DEF TypeOK
  <1>1. ASSUME NEW p \in Path, ExtCreate(p) PROVE TypeOK'
    BY <1>1, <1>a, <1>e DEF ExtCreate
  <1>2. ASSUME NEW p \in Path, ExtWrite(p) PROVE TypeOK'
    <2>1. CASE Alter({p}, [q \in {p} |-> NewFile(p)])
      BY <1>2, <1>a, <1>e, <2>1 DEF ExtWrite
    <2>2. CASE LET S == {q \in Path : vault[q].id = vault[p].id}
               IN  Alter(S, [q \in S |-> Now(vault[p].id)])
      BY <1>2, <1>a, <1>e, <1>i, <2>2 DEF ExtWrite
    <2> QED
      BY <1>2, <2>1, <2>2 DEF ExtWrite
  <1>3. ASSUME NEW p \in Path, ExtDelete(p) PROVE TypeOK'
    BY <1>3, <1>a, <1>e DEF ExtDelete
  <1>4. ASSUME NEW p \in Path, NEW q \in Path, ExtRename(p, q) PROVE TypeOK'
    <2>1. [r \in {p, q} |-> Now(IF r = q THEN vault[p].id ELSE NoFile)] \in [{p, q} -> State]
      BY <1>i
    <2> QED
      BY <1>4, <1>a, <1>e, <2>1 DEF ExtRename
  <1>5. ASSUME NEW p \in Path, NEW q \in Path, ExtLink(p, q) PROVE TypeOK'
    BY <1>5, <1>a, <1>e, <1>i DEF ExtLink
  <1>6. ASSUME NEW p \in Path, SaveBegins(p) PROVE TypeOK'
    <2>1. spent' \in [Events -> Nat]
      BY <1>6, <1>e, SpendTyped DEF SaveBegins
    <2>2. CASE /\ saving' = [NoSaving EXCEPT !.path = {p}, !.aside = TRUE]
               /\ Alter({p}, [q \in {p} |-> Now(NoFile)])
      <3>1. saving' \in Saving
        BY <2>2, Blanks DEF Saving
      <3>2. vault' \in [Path -> State] /\ clock' \in Nat /\ notice' \in BOOLEAN
        BY <2>2, AlterTyped
      <3> QED
        BY <1>6, <2>1, <3>1, <3>2 DEF SaveBegins, TypeOK
    <2>3. CASE /\ saving' = [NoSaving EXCEPT !.path = {p}, !.found = vault[p]]
               /\ UNCHANGED <<vault, clock, notice>>
      <3>1. saving' \in Saving
        BY <2>3, <1>i, Blanks DEF Saving
      <3> QED
        BY <1>6, <2>1, <2>3, <3>1 DEF SaveBegins, TypeOK
    <2> QED
      BY <1>6, <2>2, <2>3 DEF SaveBegins
  <1> QED
    BY <1>1, <1>2, <1>3, <1>4, <1>5, <1>6 DEF World

\* The rest of a save keeps the types.
LEMMA KernelTyped ==
  ASSUME TypeOK, Kernel, UNCHANGED budget, lost' \subseteq {"change", "removal"}
  PROVE  TypeOK'
  <1> USE NowTyped DEF index, watcher, pass
  <1>1. ASSUME NEW p \in Path, SaveInstalls(p) PROVE TypeOK'
    <2>1. saving' \in Saving
      BY <1>1, Blanks DEF SaveInstalls, Saving, Change
    <2>2. vault' \in [Path -> State] /\ clock' \in Nat /\ notice' \in BOOLEAN
      BY <1>1, AlterTyped DEF SaveInstalls
    <2> QED
      BY <1>1, <2>1, <2>2 DEF SaveInstalls, TypeOK
  <1>2. ASSUME NEW p \in Path, NEW q \in Path, SaveConflicts(p, q) PROVE TypeOK'
    <2>1. saving.found \in State /\ vault[p] \in State
      BY DEF TypeOK, Saving
    <2>2. saving' \in Saving
      BY <1>2, <2>1, Blanks DEF SaveConflicts, Saving, Change
    <2>3. vault' \in [Path -> State] /\ clock' \in Nat /\ notice' \in BOOLEAN
      BY <1>2, AlterTyped DEF SaveConflicts
    <2> QED
      BY <1>2, <2>2, <2>3 DEF SaveConflicts, TypeOK
  <1>3. ASSUME NEW p \in Path, SaveRestores(p) PROVE TypeOK'
    <2>1. saving' \in Saving
      BY <1>3 DEF SaveRestores, Saving, TypeOK
    <2>2. vault' \in [Path -> State] /\ clock' \in Nat /\ notice' \in BOOLEAN
      BY <1>3, AlterTyped DEF SaveRestores
    <2> QED
      BY <1>3, <2>1, <2>2 DEF SaveRestores, TypeOK
  <1> QED
    BY <1>1, <1>2, <1>3 DEF Kernel
-----------------------------------------------------------------------------
\* Notifications, timers and scans keep the types.
LEMMA WatcherTyped ==
  ASSUME TypeOK, Watcher, UNCHANGED budget, lost' \subseteq {"change", "removal"}
  PROVE  TypeOK'
  <1> USE Blanks DEF folder, index, pass
  <1>s. \A w \in Watch : Scheduled(w) \in Watch /\ Ready(w) \in Watch /\ Started(w) \in Watch
    BY DEF Scheduled, Ready, Started, Watch
  <1>w. watch \in Watch /\ jobs \in Seq(Job) /\ scan \in Scan
    BY DEF TypeOK
  <1>q. \A j \in Job : Append(jobs, j) \in Seq(Job)
    BY <1>w
  <1>r. Rescan("scan", Path) \in Job /\ Rescan("error", Path) \in Job
    BY RescanTyped
  <1>1. CASE BackendReady
    BY <1>1, <1>s, <1>w DEF BackendReady, TypeOK
  <1>2. CASE RecordEvent
    <2>1. [watch EXCEPT !.startup = TRUE] \in Watch
      BY <1>w DEF Watch
    <2> QED
      BY <1>2, <2>1, <1>s, <1>w DEF RecordEvent, TypeOK
  <1>3. CASE BackendError
    <2>1. spent' \in [Events -> Nat]
      BY <1>3, SpendTyped DEF BackendError, Events
    <2>2. [watch EXCEPT !.startup = TRUE] \in Watch
      BY <1>w DEF Watch
    <2> QED
      BY <1>3, <2>1, <2>2, <1>q, <1>r, <1>w DEF BackendError, TypeOK
  <1>4. CASE DebounceOver
    <2>1. watch.waiting + 1 \in Nat
      BY <1>w DEF Watch
    <2>2. [watch EXCEPT !.timer = FALSE, !.waiting = watch.waiting + 1] \in Watch
      BY <1>w, <2>1 DEF Watch
    <2> QED
      BY <1>4, <2>2 DEF DebounceOver, TypeOK
  <1>5. CASE StartFlush
    <2>1. watch' \in Watch
      BY <1>5, <1>w DEF StartFlush, Watch
    <2>2. scan' \in Scan
      BY <1>5 DEF StartFlush, NoScan, Scan
    <2> QED
      BY <1>5, <2>1, <2>2 DEF StartFlush, TypeOK
  <1>6. CASE ListNotes
    <2>1. scan' \in Scan
      BY <1>6, <1>w DEF ListNotes, Scan, Notes
    <2>2. seen' \in [Path -> State]
      BY <1>6, ListedTyped DEF ListNotes
    <2> QED
      BY <1>6, <2>1, <2>2 DEF ListNotes, TypeOK
  <1>7. ASSUME NEW p \in Path, ReadNote(p) PROVE TypeOK'
    <2>1. scan' \in Scan
      BY <1>7, <1>w DEF ReadNote, Scan
    <2>2. seen' \in [Path -> State]
      BY <1>7 DEF ReadNote, TypeOK
    <2> QED
      BY <1>7, <2>1, <2>2 DEF ReadNote, TypeOK
  <1>8. CASE ScanFails
    <2>1. spent' \in [Events -> Nat]
      BY <1>8, SpendTyped DEF ScanFails, Throws, Events, TypeOK
    <2>2. scan' \in Scan
      BY <1>8, <1>w DEF ScanFails, Scan
    <2>3. jobs' \in Seq(Job)
      BY <1>8, <1>w, <1>q, <1>r DEF ScanFails
    <2> QED
      BY <1>8, <2>1, <2>2, <2>3 DEF ScanFails, TypeOK
  <1>9. CASE CensusRead
    <2>1. scan' \in Scan
      BY <1>9, <1>w DEF CensusRead, Scan
    <2>2. jobs' \in Seq(Job)
      BY <1>9, <1>q DEF CensusRead, Job
    <2> QED
      BY <1>9, <2>1, <2>2 DEF CensusRead, TypeOK
  <1>10. CASE Compare
    <2>1. snap' \in [Path -> State]
      BY <1>10 DEF Compare, TypeOK
    <2> DEFINE found == Differences(snap, seen)
               batch == [owner |-> "scan", step |-> "apply", changes |-> found, scope |-> {}]
               sent == /\ scan' = [scan EXCEPT !.step = "sent"] /\ seen' = Unread
                       /\ UNCHANGED census
    <2>2. batch \in Job
      BY DifferencesTyped DEF Job, TypeOK
    <2>3. \A i : Rescan("scan", RescanScope(i, snap, seen)) \in Job
      BY RescanTyped DEF RescanScope
    <2>4. [scan EXCEPT !.step = "sent"] \in Scan
      BY <1>w DEF Scan
    <2>5. CASE ScanOver /\ UNCHANGED jobs
      BY <1>10, <2>1, <2>5 DEF Compare, ScanOver, TypeOK
    <2>6. CASE jobs' = Append(jobs, batch) /\ sent
      BY <1>10, <1>q, <2>1, <2>2, <2>4, <2>6 DEF Compare, TypeOK
    <2>7. CASE \E i : jobs' = Append(jobs, Rescan("scan", RescanScope(i, snap, seen))) /\ sent
      BY <1>10, <1>q, <2>1, <2>3, <2>4, <2>7 DEF Compare, TypeOK
    <2> QED
      BY <1>10, <2>5, <2>6, <2>7 DEF Compare
  <1>11. CASE FinishBufferedStart
    <2>1. scan' \in Scan
      BY <1>11 DEF FinishBufferedStart, NoScan, Scan
    <2> QED
      BY <1>11, <2>1, <1>s, <1>w DEF FinishBufferedStart, TypeOK
  <1> QED
    BY <1>1, <1>2, <1>3, <1>4, <1>5, <1>6, <1>7, <1>8, <1>9, <1>10, <1>11 DEF Watcher

\* The ends of a job keep the types.
LEMMA EndsTyped ==
  ASSUME TypeOK, jobs # <<>>, Succeeds \/ Fails
  PROVE  jobs' \in Seq(Job) /\ scan' \in Scan /\ seen' \in [Path -> State]
         /\ census' \in {"scanning", "reconciling", "current", "degraded"}
  <1> USE Blanks DEF pass
  <1>w. jobs \in Seq(Job) /\ scan \in Scan /\ seen \in [Path -> State]
        /\ census \in {"scanning", "reconciling", "current", "degraded"}
    BY DEF TypeOK
  <1>1. Tail(jobs) \in Seq(Job)
    BY <1>w
  <1>2. Append(Tail(jobs), Rescan("scan", Path)) \in Seq(Job)
    BY <1>1, RescanTyped
  <1>3. [scan EXCEPT !.step = "retry"] \in Scan
    BY <1>w DEF Scan
  <1>4. CASE Succeeds
    BY <1>4, <1>w, <1>1 DEF Succeeds, ScanOver
  <1>5. CASE Fails
    BY <1>5, <1>w, <1>1, <1>2, <1>3 DEF Fails, ScanOver
  <1> QED
    BY <1>4, <1>5

\* The jobs of the index keep the types.
LEMMA JobsTyped ==
  ASSUME TypeOK, IndexJobs, UNCHANGED budget, lost' \subseteq {"change", "removal"}
  PROVE  TypeOK'
  <1> USE Blanks DEF folder, watcher, pass
  <1>w. jobs \in Seq(Job) /\ vault \in [Path -> State] /\ idx \in [Path -> State]
    BY DEF TypeOK
  <1>h. ASSUME jobs # <<>> PROVE Running \in Job
    BY <1>h, <1>w DEF Running
  <1>b. ASSUME NEW j \in Job, Becomes(j) PROVE jobs' \in Seq(Job)
    <2>1. Len(jobs) \in Nat /\ jobs \in [1 .. Len(jobs) -> Job]
      BY <1>w
    <2>2. jobs' \in [1 .. Len(jobs) -> Job]
      BY <1>b, <2>1 DEF Becomes
    <2> QED
      BY <2>1, <2>2
  <1>t. ASSUME NEW T, Throws(T) PROVE spent' \in [Events -> Nat]
    BY <1>t, SpendTyped DEF Throws, Events, TypeOK
  <1>1. CASE ReconcileSave
    <2>1. [owner |-> "save", step |-> "apply", changes |-> saving.changes, scope |-> {}] \in Job
      BY DEF Job, TypeOK, Saving
    <2>2. jobs' \in Seq(Job)
      BY <1>1, <1>w, <2>1 DEF ReconcileSave
    <2> QED
      BY <1>1, <2>2 DEF ReconcileSave, TypeOK
  <1>2. CASE InstallCensus
    <2>1. watch' \in Watch
      BY <1>2 DEF InstallCensus, TypeOK, Watch
    <2>2. jobs' \in Seq(Job)
      BY <1>2, <1>w DEF InstallCensus, Holds
    <2> QED
      BY <1>2, <2>1, <2>2 DEF InstallCensus, TypeOK
  <1>3. ASSUME Holds("apply"), NEW c \in Running.changes, ApplyChange(c) PROVE TypeOK'
    <2>1. Running \in Job
      BY <1>3, <1>h DEF Holds
    <2>2. c.path \in Path /\ c.to \in State
      BY <1>3, <2>1 DEF Job, Change
    <2>3. idx' \in [Path -> State]
      BY <1>3, <1>w, <2>2 DEF ApplyChange, Applied
    <2>4. [Running EXCEPT !.changes = @ \ {c}] \in Job
      BY <2>1 DEF Job
    <2>5. jobs' \in Seq(Job)
      BY <1>3, <1>b, <2>4 DEF ApplyChange
    <2> QED
      BY <1>3, <2>3, <2>5 DEF ApplyChange, TypeOK
  <1>4. CASE RefreshFails
    <2>1. spent' \in [Events -> Nat]
      BY <1>4, <1>t DEF RefreshFails
    <2>2. CASE Becomes(Rescan("scan", Path)) /\ UNCHANGED <<pass, census>>
      <3>1. jobs' \in Seq(Job)
        BY <2>2, <1>b, RescanTyped
      <3> QED
        BY <1>4, <2>1, <2>2, <3>1 DEF RefreshFails, TypeOK
    <2>3. CASE Fails
      BY <1>4, <2>1, <2>3, EndsTyped DEF RefreshFails, Holds, TypeOK
    <2> QED
      BY <1>4, <2>2, <2>3 DEF RefreshFails
  <1>5. CASE BatchApplied
    BY <1>5, EndsTyped DEF BatchApplied, Holds, TypeOK
  <1>6. CASE ListForRebuild
    <2>1. [Running EXCEPT !.step = "read"] \in Job
      BY <1>6, <1>h DEF ListForRebuild, Holds, Job
    <2>2. jobs' \in Seq(Job)
      BY <1>6, <1>b, <2>1 DEF ListForRebuild
    <2>3. build' \in Build
      BY <1>6, ListedTyped DEF ListForRebuild, Build, Notes
    <2> QED
      BY <1>6, <2>2, <2>3 DEF ListForRebuild, TypeOK
  <1>7. ASSUME NEW p \in Path, ReadForRebuild(p) PROVE TypeOK'
    <2>1. build' \in Build
      BY <1>7 DEF ReadForRebuild, Build, TypeOK
    <2> QED
      BY <1>7, <2>1 DEF ReadForRebuild, TypeOK
  <1>8. CASE RebuildFails
    <2>1. spent' \in [Events -> Nat]
      BY <1>8, <1>t DEF RebuildFails
    <2> QED
      BY <1>8, <2>1, EndsTyped DEF RebuildFails, Holds, TypeOK
  <1>9. CASE Replace
    <2>1. idx' \in [Path -> State]
      BY <1>9 DEF Replace, Rebuilt, TypeOK, Build
    <2> QED
      BY <1>9, <2>1, EndsTyped DEF Replace, Holds, TypeOK
  <1> QED
    BY <1>1, <1>2, <1>3, <1>4, <1>5, <1>6, <1>7, <1>8, <1>9 DEF IndexJobs

\* The variables keep their types: the whole type invariant is inductive.
THEOREM TypeCorrect == Spec => []TypeOK
  <1>1. TypeOK /\ [Next]_vars => TypeOK'
    <2> SUFFICES ASSUME TypeOK, [Next]_vars PROVE TypeOK'
      OBVIOUS
    <2>1. CASE UNCHANGED vars
      BY <2>1 DEF vars, moving, folder, index, watcher, pass, TypeOK
    <2>2. ASSUME Next PROVE lost' \subseteq {"change", "removal"} /\ UNCHANGED budget
      BY <2>2 DEF Next, TypeOK
    <2> QED
      BY <2>1, <2>2, WorldTyped, KernelTyped, WatcherTyped, JobsTyped DEF Next
  <1> QED
    BY <1>1, InitTyped, PTL DEF Spec
-----------------------------------------------------------------------------
(* The inductive invariant behind IndexForward.  What was read is never    *)
(* newer than the folder, so a refresh can only bring the index forward; a *)
(* rebuild replaces the index by an earlier reading, and is harmless only  *)
(* because nothing else has changed the index since it began: it holds the *)
(* lock.  The census holds no such reading of its own when it installs its *)
(* index, which is why it must be the first installation and the only one. *)

Behind(read) == \A p \in Notes(read) : read[p].stamp <= vault[p].stamp

Readings ==
  /\ \A p \in Path : vault[p].stamp <= clock
  /\ Behind(idx) /\ Behind(seen) /\ Behind(build.got)

RebuildAhead ==
  Holds("read") =>
    \A p \in Running.scope \ build.todo :
      p \in Notes(idx) /\ p \in Notes(build.got) => idx[p].stamp <= build.got[p].stamp

OneReader == \A k \in DOMAIN jobs : k > 1 => jobs[k].step # "read"

CensusFirst ==
  /\ \A k, l \in DOMAIN jobs : jobs[k].step = "install" /\ jobs[l].step = "install" => k = l
  /\ \A k \in DOMAIN jobs : jobs[k].step = "install" =>
       scan.kind = "census" /\ scan.step = "sent" /\ census = "scanning"
  /\ scan.kind = "census" /\ scan.step \in {"list", "read"} => census = "scanning"
  /\ scan.kind = "census" => \A k \in DOMAIN jobs : jobs[k].owner # "scan"

Ordered == Readings /\ RebuildAhead /\ OneReader /\ CensusFirst

\* Nothing is read and nothing is queued at first.
LEMMA InitOrdered == Init => Ordered
  <1> SUFFICES ASSUME Init PROVE Ordered
    OBVIOUS
  <1>1. Behind(Unread)
    BY DEF Behind, Notes, Missing, Unread
  <1>2. \A p \in Path : vault[p].stamp <= clock
    BY DEF Init
  <1>3. idx = Unread /\ seen = Unread /\ build.got = Unread
    BY DEF Init, NoBuild
  <1>4. Readings
    BY <1>1, <1>2, <1>3 DEF Readings
  <1>5. jobs = <<>> /\ census = "scanning"
    BY DEF Init
  <1> QED
    BY <1>4, <1>5 DEF Ordered, RebuildAhead, OneReader, CensusFirst, Holds
-----------------------------------------------------------------------------
(* The folder.                                                             *)

\* A change of the folder gives the paths it touches a newer stamp.
LEMMA AlterAdvances ==
  ASSUME TypeOK, Readings, NEW S \in SUBSET Path, NEW f,
         \A q \in S : f[q].stamp = clock + 1, Alter(S, f)
  PROVE  \A p \in Path : vault[p].stamp <= vault'[p].stamp /\ vault'[p].stamp <= clock'
  <1>1. clock \in Nat /\ \A p \in Path : vault[p].stamp \in Nat
    BY DEF TypeOK, State
  <1> QED
    BY <1>1 DEF Alter, Readings

\* So does every step of other programs and of a save.
LEMMA FolderAdvances ==
  ASSUME TypeOK, Readings, World \/ Kernel
  PROVE  /\ \A p \in Path : vault[p].stamp <= vault'[p].stamp /\ vault'[p].stamp <= clock'
         /\ UNCHANGED <<index, watcher>>
  <1> USE AlterAdvances
  <1>n. /\ \A i : Now(i).stamp = clock + 1
        /\ \A p : NewFile(p).stamp = clock + 1
    BY DEF Now, NewFile
  <1>u. ASSUME UNCHANGED <<vault, clock>>
        PROVE  \A p \in Path : vault[p].stamp <= vault'[p].stamp /\ vault'[p].stamp <= clock'
    BY <1>u DEF Readings, TypeOK, State
  <1>1. ASSUME NEW p \in Path, ExtCreate(p) \/ ExtWrite(p) \/ ExtDelete(p)
        PROVE  /\ \A q \in Path : vault[q].stamp <= vault'[q].stamp /\ vault'[q].stamp <= clock'
               /\ UNCHANGED <<index, watcher>>
    <2>1. \E S \in SUBSET Path : \E f : (\A q \in S : f[q].stamp = clock + 1) /\ Alter(S, f)
      <3>1. CASE Alter({p}, [q \in {p} |-> NewFile(p)])
        BY <1>n, <3>1
      <3>2. CASE LET S == {q \in Path : vault[q].id = vault[p].id}
                 IN  Alter(S, [q \in S |-> Now(vault[p].id)])
        <4> DEFINE S == {q \in Path : vault[q].id = vault[p].id}
        <4>1. S \in SUBSET Path
          OBVIOUS
        <4>2. \A q \in S : [x \in S |-> Now(vault[p].id)][q].stamp = clock + 1
          BY <1>n
        <4> QED
          BY <3>2, <4>1, <4>2
      <3>3. CASE Alter({p}, [q \in {p} |-> Now(NoFile)])
        BY <1>n, <3>3
      <3> QED
        BY <1>1, <3>1, <3>2, <3>3 DEF ExtCreate, ExtWrite, ExtDelete
    <2> QED
      BY <1>1, <2>1 DEF ExtCreate, ExtWrite, ExtDelete, Elsewhere
  <1>2. ASSUME NEW p \in Path, NEW q \in Path, ExtRename(p, q) \/ ExtLink(p, q)
        PROVE  /\ \A r \in Path : vault[r].stamp <= vault'[r].stamp /\ vault'[r].stamp <= clock'
               /\ UNCHANGED <<index, watcher>>
    <2>1. \E f : (\A r \in {p, q} : f[r].stamp = clock + 1) /\ Alter({p, q}, f)
      <3>1. CASE ExtRename(p, q)
        <4>1. \A r \in {p, q} :
                [x \in {p, q} |-> Now(IF x = q THEN vault[p].id ELSE NoFile)][r].stamp = clock + 1
          BY <1>n
        <4> QED
          BY <3>1, <4>1 DEF ExtRename
      <3>2. CASE ExtLink(p, q)
        <4>1. \A r \in {p, q} : [x \in {p, q} |-> Now(vault[p].id)][r].stamp = clock + 1
          BY <1>n
        <4> QED
          BY <3>2, <4>1 DEF ExtLink
      <3> QED
        BY <1>2, <3>1, <3>2
    <2> QED
      BY <1>2, <2>1 DEF ExtRename, ExtLink, Elsewhere
  <1>3. ASSUME NEW p \in Path, SaveBegins(p)
        PROVE  /\ \A q \in Path : vault[q].stamp <= vault'[q].stamp /\ vault'[q].stamp <= clock'
               /\ UNCHANGED <<index, watcher>>
    <2>1. CASE Alter({p}, [q \in {p} |-> Now(NoFile)])
      BY <1>3, <1>n, <2>1 DEF SaveBegins
    <2>2. CASE UNCHANGED <<vault, clock, notice>>
      BY <1>3, <1>u, <2>2 DEF SaveBegins
    <2> QED
      BY <1>3, <2>1, <2>2 DEF SaveBegins
  <1>4. ASSUME NEW p \in Path, SaveInstalls(p) \/ SaveRestores(p)
        PROVE  /\ \A q \in Path : vault[q].stamp <= vault'[q].stamp /\ vault'[q].stamp <= clock'
               /\ UNCHANGED <<index, watcher>>
    BY <1>4, <1>n DEF SaveInstalls, SaveRestores
  <1>5. ASSUME NEW p \in Path, NEW q \in Path, SaveConflicts(p, q)
        PROVE  /\ \A r \in Path : vault[r].stamp <= vault'[r].stamp /\ vault'[r].stamp <= clock'
               /\ UNCHANGED <<index, watcher>>
    BY <1>5, <1>n DEF SaveConflicts
  <1> QED
    BY <1>1, <1>2, <1>3, <1>4, <1>5 DEF World, Kernel

\* What was read stays behind a folder that goes forward.
LEMMA StaysBehind ==
  ASSUME NEW read \in [Path -> State], TypeOK, TypeOK', Behind(read),
         \A p \in Path : vault[p].stamp <= vault'[p].stamp
  PROVE  \A p \in Notes(read) : read[p].stamp <= vault'[p].stamp
  <1>1. \A p \in Path : read[p].stamp \in Nat /\ vault[p].stamp \in Nat /\ vault'[p].stamp \in Nat
    BY DEF TypeOK, State
  <1> QED
    BY <1>1 DEF Behind, Notes

\* The folder's own steps keep the invariant.
LEMMA FolderOrdered ==
  ASSUME TypeOK, TypeOK', Ordered, World \/ Kernel
  PROVE  Ordered'
  <1>1. /\ \A p \in Path : vault[p].stamp <= vault'[p].stamp /\ vault'[p].stamp <= clock'
        /\ UNCHANGED <<idx, jobs, build, scan, seen, census>>
    BY FolderAdvances DEF Ordered, index, watcher, pass
  <1>2. Readings'
    <2>1. idx \in [Path -> State] /\ seen \in [Path -> State] /\ build.got \in [Path -> State]
      BY DEF TypeOK, Build
    <2>2. Behind(idx)' /\ Behind(seen)' /\ Behind(build.got)'
      BY <1>1, <2>1, StaysBehind DEF Ordered, Readings, Behind, Notes
    <2> QED
      BY <1>1, <2>2 DEF Readings
  <1>3. RebuildAhead' /\ OneReader' /\ CensusFirst'
    BY <1>1 DEF Ordered, RebuildAhead, OneReader, CensusFirst, Holds, Running, Notes
  <1> QED
    BY <1>2, <1>3 DEF Ordered
-----------------------------------------------------------------------------
(* The watcher.                                                            *)

\* A listing, and nothing, are never ahead of the folder.
LEMMA ListingBehind == Behind(Unread) /\ Behind(Listed(vault))
  BY DEF Behind, Notes, Missing, Unread, Listed

\* Reading one more note keeps a reading behind the folder.
LEMMA ReadingBehind ==
  ASSUME TypeOK, NEW read \in [Path -> State], Behind(read), NEW p \in Path
  PROVE  Behind([read EXCEPT ![p] = vault[p]])
  BY DEF Behind, Notes, TypeOK, State

\* The watcher leaves the folder, the index and the running job alone; it
\* only adds to the queue.
LEMMA WatcherQueues ==
  ASSUME TypeOK, Watcher
  PROVE  /\ UNCHANGED <<vault, clock, idx, build>>
         /\ UNCHANGED jobs \/ \E j : j.step # "read" /\ jobs' = Append(jobs, j)
  <1> USE DEF folder, index, pass, Rescan
  <1>1. CASE ScanFails
    BY <1>1 DEF ScanFails
  <1>2. CASE CensusRead
    <2>1. [owner |-> "census", step |-> "install", changes |-> {}, scope |-> Path].step # "read"
      OBVIOUS
    <2> QED
      BY <1>2, <2>1 DEF CensusRead
  <1>3. CASE Compare
    <2>1. [owner |-> "scan", step |-> "apply", changes |-> Differences(snap, seen),
           scope |-> {}].step # "read"
      OBVIOUS
    <2>2. \A S : Rescan("scan", S).step # "read"
      OBVIOUS
    <2> QED
      BY <1>3, <2>1, <2>2 DEF Compare
  <1>4. CASE BackendError
    BY <1>4 DEF BackendError
  <1>5. CASE \E p \in Path : ReadNote(p)
    BY <1>5 DEF ReadNote
  <1>6. CASE BackendReady \/ RecordEvent \/ DebounceOver \/ StartFlush \/ ListNotes
             \/ FinishBufferedStart
    BY <1>6 DEF BackendReady, RecordEvent, DebounceOver, StartFlush, ListNotes,
                FinishBufferedStart
  <1> QED
    BY <1>1, <1>2, <1>3, <1>4, <1>5, <1>6 DEF Watcher

\* A job added behind the running one disturbs neither it nor its order.
LEMMA QueueKeeps ==
  ASSUME TypeOK, RebuildAhead, OneReader, UNCHANGED <<idx, build>>,
         UNCHANGED jobs \/ \E j : j.step # "read" /\ jobs' = Append(jobs, j)
  PROVE  RebuildAhead' /\ OneReader'
  <1>1. CASE UNCHANGED jobs
    BY <1>1 DEF RebuildAhead, OneReader, Holds, Running, Notes
  <1>2. CASE \E j : j.step # "read" /\ jobs' = Append(jobs, j)
    <2>1. PICK j : j.step # "read" /\ jobs' = Append(jobs, j)
      BY <1>2
    <2>2. jobs \in Seq(Job) /\ Len(jobs) \in Nat
      BY DEF TypeOK
    <2>3. /\ DOMAIN jobs' = 1 .. Len(jobs) + 1
          /\ \A k \in 1 .. Len(jobs) : jobs'[k] = jobs[k]
          /\ jobs'[Len(jobs) + 1] = j
      BY <2>1, <2>2
    <2>4. OneReader'
      BY <2>1, <2>2, <2>3 DEF OneReader
    <2>5. CASE jobs = <<>>
      BY <2>1, <2>3, <2>4, <2>5 DEF RebuildAhead, Holds
    <2>6. CASE jobs # <<>>
      <3>1. Head(jobs') = Head(jobs)
        BY <2>2, <2>3, <2>6
      <3> QED
        BY <2>4, <2>6, <3>1 DEF RebuildAhead, Holds, Running, Notes
    <2> QED
      BY <2>5, <2>6
  <1> QED
    BY <1>1, <1>2

\* The watcher's readings stay behind the folder.
LEMMA WatcherReadings ==
  ASSUME TypeOK, Readings, Watcher
  PROVE  Readings'
  <1>1. UNCHANGED <<vault, clock, idx, build>>
    BY WatcherQueues
  <1>2. UNCHANGED seen \/ Behind(seen')
    <2> USE ListingBehind DEF pass
    <2>1. CASE ListNotes
      BY <2>1 DEF ListNotes
    <2>2. ASSUME NEW p \in Path, ReadNote(p) PROVE UNCHANGED seen \/ Behind(seen')
      BY <2>2, ReadingBehind DEF ReadNote, Readings, TypeOK
    <2>3. CASE ScanFails
      BY <2>3 DEF ScanFails
    <2>4. CASE Compare
      BY <2>4 DEF Compare, ScanOver
    <2>5. CASE BackendReady \/ RecordEvent \/ BackendError \/ DebounceOver \/ StartFlush
               \/ CensusRead \/ FinishBufferedStart
      BY <2>5 DEF BackendReady, RecordEvent, BackendError, DebounceOver, StartFlush,
                  CensusRead, FinishBufferedStart
    <2> QED
      BY <2>1, <2>2, <2>3, <2>4, <2>5 DEF Watcher
  <1> QED
    BY <1>1, <1>2 DEF Readings, Behind, Notes

\* No step of the watcher overtakes the installation of the census.
LEMMA WatcherCensus ==
  ASSUME TypeOK, CensusFirst, Watcher
  PROVE  CensusFirst'
  <1> USE DEF pass, index
  <1>w. jobs \in Seq(Job) /\ Len(jobs) \in Nat /\ DOMAIN jobs = 1 .. Len(jobs)
    BY DEF TypeOK
  <1>a. ASSUME NEW j, jobs' = Append(jobs, j)
        PROVE  /\ DOMAIN jobs' = 1 .. Len(jobs) + 1
               /\ \A k \in 1 .. Len(jobs) : jobs'[k] = jobs[k]
               /\ jobs'[Len(jobs) + 1] = j
    BY <1>a, <1>w
  <1>r. \A o, S : Rescan(o, S).step = "list" /\ Rescan(o, S).owner = o
    BY DEF Rescan
  <1>n. NoScan.kind = "none"
    BY DEF NoScan
  <1>1. CASE BackendReady \/ RecordEvent \/ DebounceOver
    BY <1>1 DEF BackendReady, RecordEvent, DebounceOver, CensusFirst
  <1>2. CASE BackendError
    <2>1. CASE UNCHANGED jobs
      BY <1>2, <2>1 DEF BackendError, CensusFirst
    <2>2. CASE jobs' = Append(jobs, Rescan("error", Path))
      <3>1. UNCHANGED <<scan, census>>
        BY <1>2 DEF BackendError
      <3>2. \A k \in DOMAIN jobs' : \/ k \in DOMAIN jobs /\ jobs'[k] = jobs[k]
                                    \/ jobs'[k].step = "list" /\ jobs'[k].owner = "error"
        BY <1>a, <1>r, <1>w, <2>2
      <3> QED
        BY <3>1, <3>2 DEF CensusFirst
    <2> QED
      BY <1>2, <2>1, <2>2 DEF BackendError
  <1>3. CASE StartFlush
    <2>1. scan'.kind = "flush" /\ scan.kind = "none" /\ UNCHANGED <<jobs, census>>
      BY <1>3 DEF StartFlush, NoScan
    <2> QED
      BY <2>1 DEF CensusFirst
  <1>4. ASSUME ListNotes \/ \E p \in Path : ReadNote(p) PROVE CensusFirst'
    <2>1. /\ scan'.kind = scan.kind /\ scan.step \in {"list", "read"}
          /\ UNCHANGED <<jobs, census>>
      BY <1>4 DEF ListNotes, ReadNote, TypeOK, Scan
    <2> QED
      BY <2>1 DEF CensusFirst
  <1>5. CASE ScanFails
    <2>1. \A k \in DOMAIN jobs : jobs[k].step # "install"
      BY <1>5 DEF ScanFails, CensusFirst
    <2>2. CASE scan.kind = "flush"
      <3>1. scan'.kind = "flush" /\ jobs' = Append(jobs, Rescan("scan", Path))
        BY <1>5, <2>2 DEF ScanFails, TypeOK, Scan
      <3> QED
        BY <1>a, <1>r, <1>w, <2>1, <3>1 DEF CensusFirst
    <2>3. CASE scan.kind # "flush"
      BY <1>5, <1>n, <2>1, <2>3 DEF ScanFails, CensusFirst
    <2> QED
      BY <2>2, <2>3
  <1>6. CASE CensusRead
    <2>1. \A k \in DOMAIN jobs : jobs[k].step # "install" /\ jobs[k].owner # "scan"
      BY <1>6 DEF CensusRead, CensusFirst
    <2>2. scan'.kind = "census" /\ scan'.step = "sent" /\ census' = "scanning"
      BY <1>6 DEF CensusRead, CensusFirst, TypeOK, Scan
    <2>3. PICK j : j.step = "install" /\ j.owner = "census" /\ jobs' = Append(jobs, j)
      <3> DEFINE j == [owner |-> "census", step |-> "install", changes |-> {}, scope |-> Path]
      <3>1. j.step = "install" /\ j.owner = "census"
        OBVIOUS
      <3> QED
        BY <1>6, <3>1 DEF CensusRead
    <2> QED
      BY <1>a, <1>w, <2>1, <2>2, <2>3 DEF CensusFirst
  <1>7. CASE Compare
    <2>1. \A k \in DOMAIN jobs : jobs[k].step # "install"
      BY <1>7 DEF Compare, CensusFirst
    <2>2. scan'.kind # "census"
      BY <1>7, <1>n DEF Compare, ScanOver, TypeOK, Scan
    <2>3. UNCHANGED jobs \/ \E j : j.step # "install" /\ jobs' = Append(jobs, j)
      <3>1. [owner |-> "scan", step |-> "apply", changes |-> Differences(snap, seen),
             scope |-> {}].step # "install"
        OBVIOUS
      <3> QED
        BY <1>7, <1>r, <3>1 DEF Compare
    <2> QED
      BY <1>a, <1>w, <2>1, <2>2, <2>3 DEF CensusFirst
  <1>8. CASE FinishBufferedStart
    <2>1. scan'.kind # "census" /\ UNCHANGED jobs
      BY <1>8 DEF FinishBufferedStart, NoScan
    <2>2. \A k \in DOMAIN jobs : jobs[k].step # "install"
      BY <1>8 DEF FinishBufferedStart, CensusFirst
    <2> QED
      BY <2>1, <2>2 DEF CensusFirst
  <1> QED
    BY <1>1, <1>2, <1>3, <1>4, <1>5, <1>6, <1>7, <1>8 DEF Watcher

\* The watcher keeps the invariant.
LEMMA WatcherOrdered ==
  ASSUME TypeOK, Ordered, Watcher
  PROVE  Ordered'
  BY WatcherQueues, QueueKeeps, WatcherReadings, WatcherCensus DEF Ordered
-----------------------------------------------------------------------------
(* The index state lock.                                                   *)

\* The end of a job leaves the lock to one that has not read anything yet.
LEMMA EndsQuiet ==
  ASSUME TypeOK, OneReader, jobs # <<>>, Succeeds \/ Fails
  PROVE  RebuildAhead' /\ OneReader'
  <1>w. jobs \in Seq(Job) /\ Len(jobs) \in Nat /\ DOMAIN jobs = 1 .. Len(jobs)
    BY DEF TypeOK
  <1>1. \A k \in DOMAIN jobs' : jobs'[k].step # "read"
    <2>1. /\ Tail(jobs) \in Seq(Job)
          /\ \A k \in DOMAIN Tail(jobs) : Tail(jobs)[k].step # "read"
      BY <1>w DEF OneReader
    <2>2. Rescan("scan", Path).step # "read"
      BY DEF Rescan
    <2>3. CASE jobs' = Tail(jobs)
      BY <2>1, <2>3
    <2>4. CASE jobs' = Append(Tail(jobs), Rescan("scan", Path))
      BY <2>1, <2>2, <2>4
    <2> QED
      BY <2>3, <2>4 DEF Succeeds, Fails
  <1>2. jobs' # <<>> => 1 \in DOMAIN jobs' /\ Head(jobs') = jobs'[1]
    BY <1>w, EndsTyped
  <1> QED
    BY <1>1, <1>2 DEF RebuildAhead, OneReader, Holds

\* Nor does it overtake the census.
LEMMA EndsCensus ==
  ASSUME TypeOK, CensusFirst, jobs # <<>>, Succeeds \/ Fails
  PROVE  CensusFirst'
  <1> USE DEF pass
  <1>w. jobs \in Seq(Job) /\ Len(jobs) \in Nat /\ DOMAIN jobs = 1 .. Len(jobs)
        /\ 1 \in DOMAIN jobs /\ Running = jobs[1]
    BY DEF TypeOK, Running
  <1>t. /\ Tail(jobs) \in Seq(Job) /\ DOMAIN Tail(jobs) = 1 .. Len(jobs) - 1
        /\ \A k \in 1 .. Len(jobs) - 1 : Tail(jobs)[k] = jobs[k + 1] /\ k + 1 \in DOMAIN jobs
    BY <1>w
  <1>n. NoScan.kind = "none"
    BY DEF NoScan
  <1>1. CASE Running.owner # "scan"
    <2>1. jobs' = Tail(jobs) /\ UNCHANGED <<scan, census>>
      BY <1>1 DEF Succeeds, Fails
    <2> QED
      BY <1>t, <1>w, <2>1 DEF CensusFirst
  <1>2. CASE Running.owner = "scan"
    <2>1. scan.kind # "census" /\ \A k \in DOMAIN jobs : jobs[k].step # "install"
      BY <1>2, <1>w DEF CensusFirst
    <2>2. scan'.kind # "census"
      BY <1>2, <1>n, <2>1 DEF Succeeds, Fails, ScanOver, TypeOK, Scan
    <2>3. \A k \in DOMAIN jobs' : jobs'[k].step # "install"
      <3>1. CASE jobs' = Tail(jobs)
        BY <1>t, <2>1, <3>1
      <3>2. CASE jobs' = Append(Tail(jobs), Rescan("scan", Path))
        <4>1. Rescan("scan", Path).step # "install"
          BY DEF Rescan
        <4> QED
          BY <1>t, <1>w, <2>1, <3>2, <4>1
      <3> QED
        BY <3>1, <3>2 DEF Succeeds, Fails
    <2> QED
      BY <2>2, <2>3 DEF CensusFirst
  <1> QED
    BY <1>1, <1>2

\* What the jobs read stays behind the folder, which they do not change.
LEMMA JobsReadings ==
  ASSUME TypeOK, Readings, IndexJobs
  PROVE  Readings'
  <1> USE ListingBehind DEF watcher, folder, pass
  <1>1. UNCHANGED <<vault, clock>>
    BY DEF IndexJobs, ReconcileSave, InstallCensus, ApplyChange, RefreshFails, BatchApplied,
           ListForRebuild, ReadForRebuild, RebuildFails, Replace
  <1>e. ASSUME Succeeds \/ Fails PROVE UNCHANGED seen \/ Behind(seen')
    BY <1>e DEF Succeeds, Fails, ScanOver
  <1>2. UNCHANGED seen \/ Behind(seen')
    BY <1>e DEF IndexJobs, ReconcileSave, InstallCensus, ApplyChange, RefreshFails, BatchApplied,
           ListForRebuild, ReadForRebuild, RebuildFails, Replace
  <1>3. UNCHANGED build.got \/ Behind(build.got')
    <2>1. Behind(NoBuild.got)
      BY DEF NoBuild
    <2>2. ASSUME NEW p \in Path, ReadForRebuild(p) PROVE Behind(build.got')
      BY <2>2, ReadingBehind DEF ReadForRebuild, Readings, TypeOK, Build
    <2>3. CASE ListForRebuild
      BY <2>3 DEF ListForRebuild
    <2>4. CASE RebuildFails \/ Replace
      BY <2>1, <2>4 DEF RebuildFails, Replace
    <2>5. CASE ReconcileSave \/ InstallCensus \/ RefreshFails \/ BatchApplied
               \/ \E c \in Running.changes : ApplyChange(c)
      BY <2>5 DEF ReconcileSave, InstallCensus, RefreshFails, BatchApplied, ApplyChange
    <2> QED
      BY <2>2, <2>3, <2>4, <2>5 DEF IndexJobs
  <1>4. UNCHANGED idx \/ Behind(idx')
    <2>1. CASE InstallCensus
      BY <2>1 DEF InstallCensus, Readings
    <2>2. ASSUME NEW c \in Running.changes, ApplyChange(c) PROVE Behind(idx')
      BY <2>2 DEF ApplyChange, Applied, Readings, Behind, Notes, TypeOK, State, Missing
    <2>3. CASE Replace
      BY <2>3 DEF Replace, Rebuilt, Readings, Behind, Notes
    <2>4. CASE ReconcileSave \/ RefreshFails \/ BatchApplied \/ ListForRebuild \/ RebuildFails
               \/ \E p \in Path : ReadForRebuild(p)
      BY <2>4 DEF ReconcileSave, RefreshFails, BatchApplied, ListForRebuild, RebuildFails,
                  ReadForRebuild
    <2> QED
      BY <2>1, <2>2, <2>3, <2>4 DEF IndexJobs
  <1> QED
    BY <1>1, <1>2, <1>3, <1>4 DEF Readings, Behind, Notes

\* A step of the running job that keeps its place: what comes behind it stays.
LEMMA BecomesKeeps ==
  ASSUME TypeOK, jobs # <<>>, NEW j, Becomes(j)
  PROVE  /\ DOMAIN jobs' = DOMAIN jobs /\ jobs' # <<>> /\ Head(jobs') = j
         /\ \A k \in DOMAIN jobs : jobs'[k] = IF k = 1 THEN j ELSE jobs[k]
         /\ Running = jobs[1] /\ 1 \in DOMAIN jobs
  <1>1. jobs \in Seq(Job) /\ Len(jobs) \in Nat \ {0} /\ jobs \in [1 .. Len(jobs) -> Job]
    BY DEF TypeOK
  <1>2. /\ jobs' \in [1 .. Len(jobs) -> Job \cup {j}]
        /\ \A k \in 1 .. Len(jobs) : jobs'[k] = IF k = 1 THEN j ELSE jobs[k]
    BY <1>1 DEF Becomes
  <1>3. jobs' \in Seq(Job \cup {j}) /\ Len(jobs') = Len(jobs)
    BY <1>1, <1>2
  <1> QED
    BY <1>1, <1>2, <1>3 DEF Running

\* No job of the index overtakes the census, which installs once.
LEMMA JobsCensus ==
  ASSUME TypeOK, CensusFirst, IndexJobs
  PROVE  CensusFirst'
  <1> USE DEF watcher, folder, pass
  <1>w. jobs \in Seq(Job) /\ Len(jobs) \in Nat /\ DOMAIN jobs = 1 .. Len(jobs)
    BY DEF TypeOK
  <1>b. ASSUME jobs # <<>>, NEW j, Becomes(j), j.owner = Running.owner, j.step # "install",
               UNCHANGED <<scan, census>>
        PROVE  CensusFirst'
    BY <1>b, BecomesKeeps DEF CensusFirst
  <1>r. \A o, S : Rescan(o, S).step = "list" /\ Rescan(o, S).owner = o
    BY DEF Rescan
  <1>h. jobs # <<>> => Running \in Job
    BY <1>w DEF Running
  <1>1. CASE ReconcileSave
    <2>1. PICK j : j.step = "apply" /\ j.owner = "save" /\ jobs' = Append(jobs, j)
      <3>1. [owner |-> "save", step |-> "apply", changes |-> saving.changes,
             scope |-> {}].step = "apply"
        OBVIOUS
      <3>2. [owner |-> "save", step |-> "apply", changes |-> saving.changes,
             scope |-> {}].owner = "save"
        OBVIOUS
      <3> QED
        BY <1>1, <3>1, <3>2 DEF ReconcileSave
    <2>2. \A k \in DOMAIN jobs' : jobs'[k] = j \/ (k \in DOMAIN jobs /\ jobs'[k] = jobs[k])
      BY <1>w, <2>1
    <2>3. UNCHANGED <<scan, census>>
      BY <1>1 DEF ReconcileSave
    <2> QED
      BY <2>1, <2>2, <2>3 DEF CensusFirst
  <1>2. CASE InstallCensus
    <2>1. jobs # <<>> /\ 1 \in DOMAIN jobs /\ jobs[1].step = "install" /\ jobs' = Tail(jobs)
      BY <1>2, <1>w DEF InstallCensus, Holds
    <2>2. scan.kind = "census" /\ scan.step = "sent" /\ UNCHANGED scan
      BY <1>2, <2>1 DEF InstallCensus, CensusFirst
    <2>3. \A k \in DOMAIN jobs' : k + 1 \in DOMAIN jobs /\ k # 0 /\ jobs'[k] = jobs[k + 1]
      BY <1>w, <2>1
    <2>4. \A k \in DOMAIN jobs' : jobs'[k].step # "install" /\ jobs'[k].owner # "scan"
      <3> SUFFICES ASSUME NEW k \in DOMAIN jobs'
                   PROVE  jobs'[k].step # "install" /\ jobs'[k].owner # "scan"
        OBVIOUS
      <3>1. k \in Nat /\ k + 1 # 1
        BY <1>w, <2>1, <2>3
      <3> QED
        BY <2>1, <2>2, <2>3, <3>1 DEF CensusFirst
    <2> QED
      BY <2>2, <2>4 DEF CensusFirst
  <1>3. ASSUME Holds("apply"), NEW c \in Running.changes, ApplyChange(c) PROVE CensusFirst'
    <2> DEFINE j == [Running EXCEPT !.changes = @ \ {c}]
    <2>1. j.owner = Running.owner /\ j.step # "install"
      BY <1>3, <1>h DEF Holds, Running, Job
    <2> QED
      BY <1>3, <1>b, <2>1 DEF ApplyChange, Holds
  <1>4. CASE RefreshFails
    <2>1. CASE Running.owner = "scan"
      BY <1>4, <1>b, <1>r, <2>1 DEF RefreshFails, Holds
    <2>2. CASE Running.owner # "scan"
      BY <1>4, <2>2, EndsCensus DEF RefreshFails, Holds
    <2> QED
      BY <2>1, <2>2
  <1>5. CASE BatchApplied
    BY <1>5, EndsCensus DEF BatchApplied, Holds
  <1>6. CASE ListForRebuild
    <2> DEFINE j == [Running EXCEPT !.step = "read"]
    <2>1. j.owner = Running.owner /\ j.step # "install"
      BY <1>6, <1>h DEF ListForRebuild, Holds, Job
    <2> QED
      BY <1>6, <1>b, <2>1 DEF ListForRebuild, Holds
  <1>7. CASE \E p \in Path : ReadForRebuild(p)
    BY <1>7 DEF ReadForRebuild, CensusFirst
  <1>8. CASE RebuildFails
    BY <1>8, EndsCensus DEF RebuildFails, Holds
  <1>9. CASE Replace
    BY <1>9, EndsCensus DEF Replace, Holds
  <1> QED
    BY <1>1, <1>2, <1>3, <1>4, <1>5, <1>6, <1>7, <1>8, <1>9 DEF IndexJobs

\* Only the running job reads, and what it has read is ahead of the index.
LEMMA JobsAhead ==
  ASSUME TypeOK, Readings, RebuildAhead, OneReader, IndexJobs
  PROVE  RebuildAhead' /\ OneReader'
  <1> USE DEF watcher, folder, pass
  <1>w. jobs \in Seq(Job) /\ Len(jobs) \in Nat /\ DOMAIN jobs = 1 .. Len(jobs)
        /\ (jobs # <<>> => Running \in Job)
    BY DEF TypeOK, Running
  <1>b. ASSUME jobs # <<>>, NEW j, Becomes(j) PROVE OneReader'
    BY <1>b, <1>w, BecomesKeeps DEF OneReader
  <1>1. CASE ReconcileSave
    <2>1. [owner |-> "save", step |-> "apply", changes |-> saving.changes,
           scope |-> {}].step # "read"
      OBVIOUS
    <2> QED
      BY <1>1, <2>1, QueueKeeps DEF ReconcileSave
  <1>2. CASE InstallCensus
    <2>1. jobs # <<>> /\ jobs' = Tail(jobs)
      BY <1>2 DEF InstallCensus, Holds
    <2>2. \A k \in DOMAIN jobs' : jobs'[k].step # "read"
      BY <1>w, <2>1 DEF OneReader
    <2>3. jobs' # <<>> => 1 \in DOMAIN jobs' /\ Head(jobs') = jobs'[1]
      BY <1>w, <2>1
    <2> QED
      BY <2>2, <2>3 DEF RebuildAhead, OneReader, Holds
  <1>3. ASSUME Holds("apply"), NEW c \in Running.changes, ApplyChange(c)
        PROVE  RebuildAhead' /\ OneReader'
    <2> DEFINE j == [Running EXCEPT !.changes = @ \ {c}]
    <2>1. j.step = "apply"
      BY <1>3, <1>w DEF Holds, Running, Job
    <2>2. Head(jobs').step = "apply"
      BY <1>3, <2>1, BecomesKeeps DEF ApplyChange, Holds
    <2> QED
      BY <1>3, <1>b, <2>2 DEF ApplyChange, Holds, RebuildAhead
  <1>4. CASE RefreshFails
    <2>1. CASE Running.owner = "scan"
      <3>1. Head(jobs').step = "list"
        BY <1>4, <2>1, BecomesKeeps DEF RefreshFails, Holds, Rescan
      <3> QED
        BY <1>4, <1>b, <2>1, <3>1 DEF RefreshFails, Holds, RebuildAhead
    <2>2. CASE Running.owner # "scan"
      BY <1>4, <2>2, EndsQuiet DEF RefreshFails, Holds
    <2> QED
      BY <2>1, <2>2
  <1>5. CASE BatchApplied
    BY <1>5, EndsQuiet DEF BatchApplied, Holds
  <1>6. CASE ListForRebuild
    <2>1. /\ Head(jobs') = [Running EXCEPT !.step = "read"]
          /\ build'.todo = Notes(vault) \cap Running.scope /\ build'.got = Listed(vault)
          /\ Running \in Job
      BY <1>6, <1>w, BecomesKeeps DEF ListForRebuild, Holds
    <2>2. Head(jobs').scope = Running.scope
      BY <2>1 DEF Job
    <2>3. \A p \in Running.scope \ build'.todo : p \notin Notes(build'.got)
      BY <2>1 DEF Notes, Listed, Missing, Job, Unread
    <2>4. RebuildAhead'
      BY <2>2, <2>3 DEF RebuildAhead, Running, Notes
    <2> QED
      BY <1>6, <1>b, <2>4 DEF ListForRebuild, Holds
  <1>7. ASSUME NEW p \in Path, ReadForRebuild(p) PROVE RebuildAhead' /\ OneReader'
    <2>1. /\ UNCHANGED <<idx, jobs>> /\ build'.todo = build.todo \ {p}
          /\ build'.got = [build.got EXCEPT ![p] = vault[p]] /\ build.got \in [Path -> State]
      BY <1>7 DEF ReadForRebuild, TypeOK, Build
    <2>2. p \in Notes(idx) => idx[p].stamp <= build'.got[p].stamp
      BY <2>1 DEF Readings, Behind
    <2>3. RebuildAhead'
      BY <2>1, <2>2 DEF RebuildAhead, Holds, Running, Notes
    <2> QED
      BY <2>1, <2>3 DEF OneReader
  <1>8. CASE RebuildFails
    BY <1>8, EndsQuiet DEF RebuildFails, Holds
  <1>9. CASE Replace
    BY <1>9, EndsQuiet DEF Replace, Holds
  <1> QED
    BY <1>1, <1>2, <1>3, <1>4, <1>5, <1>6, <1>7, <1>8, <1>9 DEF IndexJobs

\* With the invariant, no step brings a note of an installed index back.
LEMMA StepForward ==
  ASSUME TypeOK, Ordered, Next, census # "scanning"
  PROVE  \A p \in Notes(idx) \cap Notes(idx') : idx'[p].stamp >= idx[p].stamp
  <1> USE DEF watcher, folder, pass, index
  <1>u. ASSUME UNCHANGED idx
        PROVE  \A p \in Notes(idx) \cap Notes(idx') : idx'[p].stamp >= idx[p].stamp
    BY <1>u DEF TypeOK, State, Notes
  <1>1. CASE World \/ Kernel
    BY <1>1, <1>u, FolderAdvances DEF Ordered
  <1>2. CASE Watcher
    BY <1>2, <1>u, WatcherQueues
  <1>3. ASSUME NEW c \in Running.changes, ApplyChange(c)
        PROVE  \A p \in Notes(idx) \cap Notes(idx') : idx'[p].stamp >= idx[p].stamp
    BY <1>3 DEF ApplyChange, Applied, Ordered, Readings, Behind, Notes, Missing, TypeOK, State
  <1>4. CASE Replace
    <2>1. Holds("read") /\ build.todo = {} /\ idx' = Rebuilt
      BY <1>4 DEF Replace
    <2>2. \A p \in Path : idx[p].stamp \in Nat /\ build.got[p].stamp \in Nat
      BY DEF TypeOK, State, Build
    <2>3. \A p \in Path : idx'[p] = IF p \in Running.scope THEN build.got[p] ELSE idx[p]
      BY <2>1 DEF Rebuilt
    <2>4. \A p \in Running.scope :
            p \in Notes(idx) /\ p \in Notes(build.got) => idx[p].stamp <= build.got[p].stamp
      BY <2>1 DEF Ordered, RebuildAhead
    <2> QED
      BY <2>2, <2>3, <2>4 DEF Notes
  <1>5. CASE InstallCensus
    <2>1. 1 \in DOMAIN jobs /\ jobs[1].step = "install"
      BY <1>5 DEF InstallCensus, Holds, TypeOK
    <2> QED
      BY <2>1 DEF Ordered, CensusFirst
  <1>6. CASE ReconcileSave \/ RefreshFails \/ BatchApplied \/ ListForRebuild \/ RebuildFails
             \/ \E p \in Path : ReadForRebuild(p)
    BY <1>6, <1>u DEF ReconcileSave, RefreshFails, BatchApplied, ListForRebuild, RebuildFails,
                      ReadForRebuild
  <1> QED
    BY <1>1, <1>2, <1>3, <1>4, <1>5, <1>6 DEF Next, IndexJobs

\* Readings never pass the folder, rebuilds never fall behind the index, one
\* job reads at a time and the census is installed first and once.
THEOREM StaysOrdered == Spec => []Ordered
  <1>1. TypeOK /\ TypeOK' /\ Ordered /\ [Next]_vars => Ordered'
    <2> SUFFICES ASSUME TypeOK, TypeOK', Ordered, [Next]_vars PROVE Ordered'
      OBVIOUS
    <2>1. CASE UNCHANGED vars
      BY <2>1 DEF vars, moving, folder, index, watcher, pass, Ordered, Readings, Behind,
                  RebuildAhead, OneReader, CensusFirst, Holds, Running, Notes
    <2>2. CASE World \/ Kernel
      BY <2>2, FolderOrdered
    <2>3. CASE Watcher
      BY <2>3, WatcherOrdered
    <2>4. CASE IndexJobs
      BY <2>4, JobsReadings, JobsAhead, JobsCensus DEF Ordered
    <2> QED
      BY <2>1, <2>2, <2>3, <2>4 DEF Next
  <1> QED
    BY <1>1, InitOrdered, TypeCorrect, PTL DEF Spec

\* IndexForward: once the census is installed, no step of a batch, a rescan or
\* a save replaces a note in the index by an older state of it.
THEOREM GoesForward == Spec => IndexForward
  <1>1. TypeOK /\ Ordered /\ [Next]_vars =>
          [census # "scanning" =>
             \A p \in Notes(idx) \cap Notes(idx') : idx'[p].stamp >= idx[p].stamp]_vars
    BY StepForward
  <1> QED
    BY <1>1, TypeCorrect, StaysOrdered, PTL DEF Spec, IndexForward
-----------------------------------------------------------------------------
(* The inductive invariant behind NotesIndexed, SnapshotReached and        *)
(* NoGhostsOnceSeen.  Nobody keeps a list of what is out of date.  That a  *)
(* change is not lost is spread over the watcher and the index: somebody   *)
(* is still due to look (Alert), a scan is looking (Scanning), a job will  *)
(* read the note again (Reread), or what the index has, or is about to get *)
(* from the running rebuild (Prospect), is what is in the folder.          *)

AtLeast(s, t) == s = t \/ s.stamp > t.stamp

\* The waiting jobs, and those behind the one that holds the lock.
Queue == {jobs[k] : k \in DOMAIN jobs}
Rest == {jobs[k] : k \in DOMAIN jobs \ {1}}

\* A change after this one will be scanned, or one before it has yet to be.
Alert == \/ notice \/ watch.timer \/ watch.waiting > 0 \/ watch.startup \/ watch.catchUp
         \/ ~watch.ready /\ census = "scanning"
Scanning == scan.kind # "none" /\ (scan.step \in {"list", "read"} \/ census = "scanning")
HasRead == scan.kind # "none" /\ (scan.step = "read" \/ (scan.step = "sent" /\ census = "scanning"))

Rereads(j, p) ==
  /\ j.owner \in {"scan", "error"}
  /\ \/ j.step = "apply" /\ \E c \in j.changes : c.path = p
     \/ j.step = "list" /\ p \in j.scope
     \/ j.step = "read" /\ p \in j.scope \cap build.todo
Reread(p) == \E j \in Queue : Rereads(j, p)

Copied(p) == Holds("read") /\ p \in Running.scope \ build.todo
Prospect(p) == IF Copied(p) THEN build.got[p] ELSE idx[p]

Following == Intact /\ census # "degraded"

\* What was read was in the folder.
Past(read) == \A p \in Path : read[p] = Unread[p] \/ AtLeast(vault[p], read[p])
AllPast == Intact => Past(idx) /\ Past(seen) /\ Past(snap) /\ Past(build.got)

\* What each owner's jobs do, and that a scan with a job waits for it.
Owned ==
  \A j \in Queue :
    /\ j.owner = "save" => j.step = "apply"
    /\ j.owner = "census" <=> j.step = "install"
    /\ j.owner = "error" => j.step \in {"list", "read"}
    /\ j.owner = "scan" =>
         /\ scan.kind \in {"startup", "flush"} /\ scan.step \in {"sent", "retry"}
         /\ j.step = "apply" => \A c \in j.changes : c.to = snap[c.path]
OneScan == \A k, l \in DOMAIN jobs : jobs[k].owner = "scan" /\ jobs[l].owner = "scan" => k = l

\* The flags of the watcher and the state of the census go together.
Flags ==
  /\ scan.kind = "none" => scan = NoScan
  /\ census = "scanning" => scan.kind = "census"
  /\ scan.kind = "census" => census \in {"scanning", "reconciling"} /\ watch.buffering
                             /\ scan.step # "retry"
  /\ scan.kind = "startup" => census = "reconciling" /\ ~watch.buffering
  /\ census = "current" => ~watch.buffering
  /\ ~watch.buffering => ~watch.startup
  /\ watch.ready /\ ~watch.buffering => ~watch.catchUp
  /\ ~watch.ready => census \in {"scanning", "degraded"} \/ watch.catchUp
  /\ scan.step = "sent" => scan.todo = {}
  /\ scan.kind = "census" /\ census = "reconciling" => scan.step = "sent"

\* What a scan has read is still there, or somebody will look again.
Fresh ==
  Following =>
    /\ HasRead => \A p \in Path \ scan.todo : seen[p] = vault[p] \/ Alert
    /\ \A j \in Queue : j.owner = "scan" /\ j.step = "apply" =>
         \A c \in j.changes : c.to = vault[c.path] \/ Alert

\* What the snapshot counts as reported is in the index, or on its way.
Reported == Following => \A p \in Notes(snap) : Reread(p) \/ AtLeast(Prospect(p), snap[p])

\* A note of the folder is in the index, in the snapshot or on its way.
Tracked ==
  Following =>
    \A p \in Notes(vault) :
      Alert \/ Scanning \/ snap[p] = vault[p] \/ Reread(p) \/ Prospect(p) = vault[p]

\* A note that is gone is not in the index, or will be found missing.
Gone ==
  Following /\ lost = {} =>
    \A p \in Path \ Notes(vault) :
      \/ Reread(p) \/ Missing(Prospect(p)) \/ census = "scanning"
      \/ (Alert \/ Scanning) /\ ~Missing(snap[p])

Placed == Owned /\ OneScan /\ Flags
Caught == Reported /\ Tracked /\ Gone
Kept == Placed /\ AllPast /\ Fresh /\ Caught
-----------------------------------------------------------------------------
(* The queue.                                                              *)

\* The job that holds the lock, and the others.
LEMMA QueueSplit ==
  ASSUME TypeOK
  PROVE  /\ jobs = <<>> => Queue = {}
         /\ jobs # <<>> => /\ Queue = Rest \cup {Running} /\ Running \in Queue
                           /\ Running = jobs[1] /\ 1 \in DOMAIN jobs
         /\ Queue \subseteq Job /\ Rest \subseteq Queue
  <1>1. jobs \in Seq(Job) /\ Len(jobs) \in Nat /\ DOMAIN jobs = 1 .. Len(jobs)
        /\ \A k \in DOMAIN jobs : jobs[k] \in Job
    BY DEF TypeOK
  <1>2. jobs # <<>> => Running = jobs[1] /\ 1 \in DOMAIN jobs
    BY <1>1 DEF Running
  <1> QED
    BY <1>1, <1>2 DEF Queue, Rest

\* A job at the end of the queue.
LEMMA Appending ==
  ASSUME TypeOK, NEW j, jobs' = Append(jobs, j)
  PROVE  /\ Queue' = Queue \cup {j} /\ jobs' # <<>>
         /\ jobs # <<>> => Running' = Running
         /\ jobs = <<>> => Running' = j
         /\ DOMAIN jobs' = DOMAIN jobs \cup {Len(jobs) + 1} /\ Len(jobs) + 1 \notin DOMAIN jobs
         /\ jobs'[Len(jobs) + 1] = j /\ \A k \in DOMAIN jobs : jobs'[k] = jobs[k]
         /\ Len(jobs') = Len(jobs) + 1
  <1>1. jobs \in Seq(Job) /\ Len(jobs) \in Nat /\ DOMAIN jobs = 1 .. Len(jobs)
    BY DEF TypeOK
  <1>2. /\ DOMAIN jobs' = 1 .. Len(jobs) + 1 /\ Len(jobs') = Len(jobs) + 1
        /\ \A k \in 1 .. Len(jobs) : jobs'[k] = jobs[k]
        /\ jobs'[Len(jobs) + 1] = j
    BY <1>1
  <1>3. jobs' # <<>> /\ Head(jobs') = jobs'[1]
    BY <1>1
  <1>4. jobs # <<>> => Running' = Running
    BY <1>1, <1>2, <1>3 DEF Running
  <1>5. jobs = <<>> => Running' = j
    BY <1>1, <1>2, <1>3 DEF Running
  <1>6. DOMAIN jobs' = DOMAIN jobs \cup {Len(jobs) + 1} /\ Len(jobs) + 1 \notin DOMAIN jobs
    BY <1>1, <1>2
  <1>7. Queue' = Queue \cup {j}
    BY <1>1, <1>2, <1>6 DEF Queue
  <1> QED
    BY <1>1, <1>2, <1>3, <1>4, <1>5, <1>6, <1>7

\* The first job is done.
LEMMA Ending ==
  ASSUME TypeOK, jobs # <<>>, jobs' = Tail(jobs)
  PROVE  /\ Queue' = Rest /\ (jobs' # <<>> => Running' \in Rest)
         /\ Len(jobs) \in Nat /\ DOMAIN jobs = 1 .. Len(jobs) /\ DOMAIN jobs' = 1 .. Len(jobs) - 1
         /\ \A k \in DOMAIN jobs' : k + 1 \in DOMAIN jobs \ {1} /\ jobs'[k] = jobs[k + 1]
  <1>1. jobs \in Seq(Job) /\ Len(jobs) \in Nat \ {0} /\ DOMAIN jobs = 1 .. Len(jobs)
    BY DEF TypeOK
  <1>2. /\ jobs' \in Seq(Job) /\ DOMAIN jobs' = 1 .. Len(jobs) - 1
        /\ \A k \in 1 .. Len(jobs) - 1 : jobs'[k] = jobs[k + 1]
    BY <1>1
  <1>3. \A k \in DOMAIN jobs' : k + 1 \in DOMAIN jobs \ {1} /\ jobs'[k] = jobs[k + 1]
    BY <1>1, <1>2
  <1>4. Queue' = Rest
    <2>1. Queue' \subseteq Rest
      BY <1>3 DEF Queue, Rest
    <2>2. ASSUME NEW k \in DOMAIN jobs \ {1} PROVE k - 1 \in DOMAIN jobs' /\ jobs'[k - 1] = jobs[k]
      BY <1>1, <1>2
    <2> QED
      BY <2>1, <2>2 DEF Queue, Rest
  <1>5. jobs' # <<>> => Running' \in Rest
    <2>1. jobs' # <<>> => 1 \in DOMAIN jobs' /\ Head(jobs') = jobs'[1]
      BY <1>1, <1>2
    <2> QED
      BY <1>4, <2>1 DEF Queue, Running
  <1> QED
    BY <1>1, <1>2, <1>3, <1>4, <1>5

\* It is done, and another is queued.
LEMMA Requeueing ==
  ASSUME TypeOK, jobs # <<>>, NEW j, jobs' = Append(Tail(jobs), j)
  PROVE  /\ Queue' = Rest \cup {j} /\ jobs' # <<>> /\ Running' \in Rest \cup {j}
         /\ Len(jobs) \in Nat /\ DOMAIN jobs = 1 .. Len(jobs) /\ DOMAIN jobs' = 1 .. Len(jobs)
         /\ \A k \in DOMAIN jobs' : \/ k + 1 \in DOMAIN jobs \ {1} /\ jobs'[k] = jobs[k + 1]
                                    \/ k = Len(jobs) /\ jobs'[k] = j
  <1>1. jobs \in Seq(Job) /\ Len(jobs) \in Nat \ {0} /\ DOMAIN jobs = 1 .. Len(jobs)
    BY DEF TypeOK
  <1>t. /\ Tail(jobs) \in Seq(Job) /\ Len(Tail(jobs)) = Len(jobs) - 1
        /\ \A k \in 1 .. Len(jobs) - 1 : Tail(jobs)[k] = jobs[k + 1]
    BY <1>1
  <1>2. /\ DOMAIN jobs' = 1 .. Len(jobs) /\ jobs'[Len(jobs)] = j
        /\ \A k \in 1 .. Len(jobs) - 1 : jobs'[k] = jobs[k + 1]
    BY <1>1, <1>t
  <1>3. \A k \in DOMAIN jobs' : \/ k + 1 \in DOMAIN jobs \ {1} /\ jobs'[k] = jobs[k + 1]
                                \/ k = Len(jobs) /\ jobs'[k] = j
    BY <1>1, <1>2
  <1>4. Queue' = Rest \cup {j}
    <2>1. Queue' \subseteq Rest \cup {j}
      BY <1>3 DEF Queue, Rest
    <2>2. ASSUME NEW k \in DOMAIN jobs \ {1} PROVE k - 1 \in DOMAIN jobs' /\ jobs'[k - 1] = jobs[k]
      BY <1>1, <1>2
    <2>3. j \in Queue'
      BY <1>1, <1>2 DEF Queue
    <2> QED
      BY <2>1, <2>2, <2>3 DEF Queue, Rest
  <1>5. jobs' # <<>> /\ Head(jobs') = jobs'[1] /\ 1 \in DOMAIN jobs'
    BY <1>1, <1>2, <1>t
  <1>6. Running' \in Rest \cup {j}
    BY <1>4, <1>5 DEF Queue, Running
  <1> QED
    BY <1>1, <1>2, <1>3, <1>4, <1>5, <1>6

\* It goes on as another.
LEMMA Becoming ==
  ASSUME TypeOK, jobs # <<>>, NEW j, Becomes(j)
  PROVE  /\ Queue' = Rest \cup {j} /\ Running' = j /\ jobs' # <<>>
         /\ DOMAIN jobs' = DOMAIN jobs
         /\ \A k \in DOMAIN jobs : jobs'[k] = IF k = 1 THEN j ELSE jobs[k]
  <1>1. /\ DOMAIN jobs' = DOMAIN jobs /\ jobs' # <<>> /\ Head(jobs') = j
        /\ \A k \in DOMAIN jobs : jobs'[k] = IF k = 1 THEN j ELSE jobs[k]
        /\ 1 \in DOMAIN jobs
    BY BecomesKeeps
  <1> QED
    BY <1>1 DEF Queue, Rest, Running

\* The jobs behind the first have read nothing, and none of them is a scan's
\* if the first is.
LEMMA RestWaits ==
  ASSUME TypeOK, OneReader, OneScan, jobs # <<>>
  PROVE  /\ \A j \in Rest : j.step # "read"
         /\ Running.owner = "scan" => \A j \in Rest : j.owner # "scan"
  <1>1. \A k \in DOMAIN jobs \ {1} : k > 1
    BY DEF TypeOK
  <1> QED
    BY <1>1, QueueSplit DEF Rest, OneReader, OneScan

\* A job that stays, or a new one of an idle scan, leaves one job to each scan.
LEMMA OneScanKept ==
  ASSUME TypeOK, OneScan,
         \/ UNCHANGED jobs
         \/ \E j : jobs' = Append(jobs, j) /\ (j.owner = "scan" => \A i \in Queue : i.owner # "scan")
         \/ jobs # <<>> /\ jobs' = Tail(jobs)
         \/ jobs # <<>> /\ Running.owner = "scan" /\ \E j : jobs' = Append(Tail(jobs), j)
         \/ jobs # <<>> /\ \E j : Becomes(j) /\ j.owner = Running.owner
  PROVE  OneScan'
  <1>1. CASE UNCHANGED jobs
    BY <1>1 DEF OneScan
  <1>2. CASE \E j : jobs' = Append(jobs, j) /\ (j.owner = "scan" => \A i \in Queue : i.owner # "scan")
    <2>1. PICK j : jobs' = Append(jobs, j) /\ (j.owner = "scan" => \A i \in Queue : i.owner # "scan")
      BY <1>2
    <2>2. \A k \in DOMAIN jobs : jobs[k] \in Queue
      BY DEF Queue
    <2> QED
      BY <2>1, <2>2, Appending DEF OneScan
  <1>3. CASE jobs # <<>> /\ jobs' = Tail(jobs)
    <2>1. /\ Len(jobs) \in Nat /\ DOMAIN jobs' = 1 .. Len(jobs) - 1
          /\ \A k \in DOMAIN jobs' : k + 1 \in DOMAIN jobs \ {1} /\ jobs'[k] = jobs[k + 1]
      BY <1>3, Ending, Zenon
    <2>2. ASSUME NEW k \in DOMAIN jobs', NEW l \in DOMAIN jobs',
                 jobs'[k].owner = "scan", jobs'[l].owner = "scan"
          PROVE  k = l
      <3>1. k + 1 = l + 1
        BY <2>1, <2>2 DEF OneScan
      <3> QED
        BY <2>1, <3>1
    <2> QED
      BY <2>2 DEF OneScan
  <1>4. CASE jobs # <<>> /\ Running.owner = "scan" /\ \E j : jobs' = Append(Tail(jobs), j)
    <2>1. PICK j : jobs' = Append(Tail(jobs), j)
      BY <1>4
    <2>2. \A k \in DOMAIN jobs : jobs[k].owner = "scan" => k = 1
      BY <1>4, QueueSplit DEF OneScan
    <2>3. \A k \in DOMAIN jobs' : jobs'[k].owner = "scan" => k = Len(jobs)
      BY <1>4, <2>1, <2>2, Requeueing
    <2> QED
      BY <2>3 DEF OneScan
  <1>5. CASE jobs # <<>> /\ \E j : Becomes(j) /\ j.owner = Running.owner
    BY <1>5, Becoming, QueueSplit DEF OneScan
  <1> QED
    BY <1>1, <1>2, <1>3, <1>4, <1>5

\* A scan that has not sent anything has no job.
LEMMA NoScanJobs ==
  ASSUME Owned, scan.kind \notin {"startup", "flush"} \/ scan.step \notin {"sent", "retry"}
  PROVE  \A j \in Queue : j.owner # "scan"
  BY DEF Owned

\* The watcher's steps keep its flags in order, and the owners of the jobs.
LEMMA WatcherPlaced ==
  ASSUME TypeOK, Placed, CensusFirst, Watcher
  PROVE  Placed'
  <1> USE DEF pass, index
  <1>0. watch \in Watch /\ scan \in Scan /\ Flags /\ Owned /\ OneScan
    BY DEF TypeOK, Placed
  <1>n. NoScan = [kind |-> "none", step |-> "list", todo |-> {}] /\ NoScan.kind = "none"
        /\ NoScan.step = "list"
    BY DEF NoScan
  <1>r. \A o, S : Rescan(o, S).step = "list" /\ Rescan(o, S).owner = o
    BY DEF Rescan
  <1>u. ASSUME UNCHANGED <<jobs, scan, snap>> PROVE Owned' /\ OneScan'
    BY <1>u, <1>0 DEF Owned, OneScan, Queue
  <1>v. ASSUME UNCHANGED jobs, \A j \in Queue : j.owner # "scan" PROVE Owned' /\ OneScan'
    BY <1>v, <1>0 DEF Owned, OneScan, Queue
  <1>a. ASSUME NEW j, jobs' = Append(jobs, j), UNCHANGED <<scan, snap>>, j.owner \notin {"scan", "save"},
               j.owner = "census" <=> j.step = "install", j.owner = "error" => j.step = "list"
        PROVE  Owned' /\ OneScan'
    <2>1. Queue' = Queue \cup {j}
      BY <1>a, Appending
    <2>2. Owned'
      BY <1>a, <1>0, <2>1 DEF Owned
    <2> QED
      BY <1>a, <1>0, <2>2, OneScanKept
  <1>s. ASSUME NEW j, jobs' = Append(jobs, j), j.owner = "scan", j.step \in {"list", "apply"},
               scan'.kind \in {"startup", "flush"}, scan'.step \in {"sent", "retry"},
               j.step = "apply" => \A c \in j.changes : c.to = snap'[c.path],
               \A i \in Queue : i.owner # "scan"
        PROVE  Owned' /\ OneScan'
    <2>1. Queue' = Queue \cup {j}
      BY <1>s, Appending
    <2>2. \A i \in Queue : i.owner # "scan" /\ (i.owner = "save" => i.step = "apply")
                           /\ (i.owner = "census" <=> i.step = "install")
                           /\ (i.owner = "error" => i.step \in {"list", "read"})
      BY <1>s, <1>0 DEF Owned
    <2>3. Owned'
      BY <1>s, <2>1, <2>2 DEF Owned
    <2> QED
      BY <1>s, <1>0, <2>3, OneScanKept
  <1>1. CASE BackendReady
    <2>1. Flags'
      BY <1>1, <1>0 DEF BackendReady, Ready, Scheduled, Flags, Watch
    <2> QED
      BY <1>1, <1>u, <2>1 DEF BackendReady, Placed
  <1>2. CASE RecordEvent
    <2>1. Flags'
      BY <1>2, <1>0 DEF RecordEvent, Scheduled, Flags, Watch
    <2> QED
      BY <1>2, <1>u, <2>1 DEF RecordEvent, Placed
  <1>3. CASE BackendError
    <2>1. Flags'
      BY <1>3, <1>0 DEF BackendError, Flags, Watch
    <2>2. Owned' /\ OneScan'
      <3>1. CASE UNCHANGED jobs
        BY <1>3, <1>u, <3>1 DEF BackendError
      <3>2. CASE jobs' = Append(jobs, Rescan("error", Path))
        BY <1>3, <1>a, <1>r, <3>2 DEF BackendError
      <3> QED
        BY <1>3, <3>1, <3>2 DEF BackendError
    <2> QED
      BY <2>1, <2>2 DEF Placed
  <1>4. CASE DebounceOver
    <2>1. Flags'
      BY <1>4, <1>0 DEF DebounceOver, Flags, Watch
    <2> QED
      BY <1>4, <1>u, <2>1 DEF DebounceOver, Placed
  <1>5. CASE StartFlush
    <2>1. Flags'
      BY <1>5, <1>0, <1>n DEF StartFlush, Flags, Watch
    <2> QED
      BY <1>5, <1>0, <1>n, <1>v, <2>1, NoScanJobs DEF StartFlush, Placed
  <1>6. CASE ListNotes
    <2>1. Flags'
      BY <1>6, <1>0 DEF ListNotes, Flags, Scan
    <2> QED
      BY <1>6, <1>0, <1>v, <2>1, NoScanJobs DEF ListNotes, Placed
  <1>7. ASSUME NEW p \in Path, ReadNote(p) PROVE Placed'
    <2>1. Flags'
      BY <1>7, <1>0, <1>n DEF ReadNote, Flags, Scan
    <2> QED
      BY <1>7, <1>0, <1>v, <2>1, NoScanJobs DEF ReadNote, Placed
  <1>8. CASE ScanFails
    <2>0. \A j \in Queue : j.owner # "scan"
      BY <1>8, <1>0, NoScanJobs DEF ScanFails
    <2>1. CASE scan.kind = "flush"
      <3>1. scan' = [scan EXCEPT !.step = "retry", !.todo = {}] /\ UNCHANGED <<watch, census>>
            /\ jobs' = Append(jobs, Rescan("scan", Path))
        BY <1>8, <2>1 DEF ScanFails
      <3>2. scan'.kind = "flush" /\ scan'.step = "retry"
        BY <1>0, <2>1, <3>1 DEF Scan
      <3>3. Flags'
        BY <1>0, <2>1, <3>1, <3>2 DEF Flags
      <3> QED
        BY <1>r, <1>s, <2>0, <3>1, <3>2, <3>3 DEF Placed
    <2>2. CASE scan.kind # "flush"
      <3>1. scan' = NoScan /\ census' = "degraded" /\ UNCHANGED <<jobs, watch>>
        BY <1>8, <2>2 DEF ScanFails
      <3>2. Flags'
        BY <1>0, <1>n, <3>1 DEF Flags
      <3> QED
        BY <1>v, <2>0, <3>1, <3>2 DEF Placed
    <2> QED
      BY <2>1, <2>2
  <1>9. CASE CensusRead
    <2>0. \A j \in Queue : j.owner # "scan"
      BY <1>9, <1>0, NoScanJobs DEF CensusRead
    <2>1. Flags'
      BY <1>9, <1>0 DEF CensusRead, Flags, Scan
    <2> DEFINE j == [owner |-> "census", step |-> "install", changes |-> {}, scope |-> Path]
    <2>2. j.owner = "census" /\ j.step = "install" /\ jobs' = Append(jobs, j)
      BY <1>9 DEF CensusRead
    <2> HIDE DEF j
    <2>3. Queue' = Queue \cup {j}
      BY <2>2, Appending
    <2>4. Owned'
      BY <1>0, <2>0, <2>2, <2>3 DEF Owned
    <2>5. OneScan'
      BY <1>0, <2>2, OneScanKept
    <2> QED
      BY <2>1, <2>4, <2>5 DEF Placed
  <1>10. CASE Compare
    <2>0. /\ \A j \in Queue : j.owner # "scan"
          /\ snap' = seen /\ UNCHANGED watch /\ scan.kind \in {"startup", "flush"}
          /\ scan.step = "read" /\ scan.todo = {}
      BY <1>10, <1>0, NoScanJobs DEF Compare
    <2> DEFINE found == Differences(snap, seen)
               batch == [owner |-> "scan", step |-> "apply", changes |-> found, scope |-> {}]
    <2>1. CASE ScanOver /\ UNCHANGED jobs
      <3>1. Flags'
        BY <1>0, <1>n, <2>0, <2>1 DEF ScanOver, Flags
      <3> QED
        BY <1>v, <2>0, <2>1, <3>1 DEF Placed
    <2>2. CASE scan' = [scan EXCEPT !.step = "sent"] /\ UNCHANGED census
      <3>1. scan'.kind \in {"startup", "flush"} /\ scan'.step = "sent" /\ scan'.todo = {}
            /\ scan'.kind = scan.kind
        BY <1>0, <2>0, <2>2 DEF Scan
      <3>2. Flags'
        BY <1>0, <2>0, <2>2, <3>1 DEF Flags
      <3>3. CASE jobs' = Append(jobs, batch)
        <4>1. \A c \in found : c.to = snap'[c.path]
          BY <2>0 DEF Differences
        <4>2. batch.owner = "scan" /\ batch.step = "apply" /\ batch.changes = found
          OBVIOUS
        <4> HIDE DEF batch, found
        <4> QED
          BY <1>s, <2>0, <3>1, <3>2, <3>3, <4>1, <4>2 DEF Placed
      <3>4. CASE \E S : jobs' = Append(jobs, Rescan("scan", S))
        BY <1>r, <1>s, <2>0, <3>1, <3>2, <3>4 DEF Placed
      <3> QED
        BY <1>10, <2>2, <3>3, <3>4, <1>n, <1>0 DEF Compare, ScanOver, Scan
    <2> QED
      BY <1>10, <2>1, <2>2 DEF Compare
  <1>11. CASE FinishBufferedStart
    <2>0. \A j \in Queue : j.owner # "scan"
      BY <1>11, <1>0, NoScanJobs DEF FinishBufferedStart
    <2>1. /\ watch'.ready = watch.ready /\ ~watch'.buffering /\ ~watch'.startup
          /\ watch.ready => ~watch'.catchUp
          /\ ~watch.ready => watch'.catchUp = watch.catchUp
      BY <1>11, <1>0 DEF FinishBufferedStart, Started, Scheduled, Watch
    <2>2. Flags'
      BY <1>11, <1>0, <1>n, <2>1 DEF FinishBufferedStart, Flags
    <2> QED
      BY <1>11, <1>v, <2>0, <2>2 DEF FinishBufferedStart, Placed
  <1> QED
    BY <1>1, <1>2, <1>3, <1>4, <1>5, <1>6, <1>7, <1>8, <1>9, <1>10, <1>11 DEF Watcher

\* The end of a job keeps both in order.
LEMMA EndsPlaced ==
  ASSUME TypeOK, Placed, OneReader, jobs # <<>>, Succeeds \/ Fails, UNCHANGED <<snap, watch>>
  PROVE  Placed'
  <1> USE DEF pass
  <1>0. scan \in Scan /\ Flags /\ Owned /\ OneScan /\ Rest \subseteq Queue /\ Running \in Queue
    BY QueueSplit DEF TypeOK, Placed
  <1>n. NoScan = [kind |-> "none", step |-> "list", todo |-> {}] /\ NoScan.kind = "none"
        /\ NoScan.step = "list"
    BY DEF NoScan
  <1>r. Rescan("scan", Path).step = "list" /\ Rescan("scan", Path).owner = "scan"
    BY DEF Rescan
  <1>1. CASE Running.owner # "scan"
    <2>1. jobs' = Tail(jobs) /\ UNCHANGED <<scan, census>>
      BY <1>1 DEF Succeeds, Fails
    <2>2. Queue' = Rest
      BY <2>1, Ending, Zenon
    <2>3. Owned'
      BY <1>0, <2>1, <2>2 DEF Owned
    <2> QED
      BY <1>0, <2>1, <2>3, OneScanKept DEF Placed, Flags
  <1>2. CASE Running.owner = "scan"
    <2>0. /\ scan.kind \in {"startup", "flush"} /\ scan.step \in {"sent", "retry"}
          /\ \A j \in Rest : j.owner # "scan"
      BY <1>0, <1>2, RestWaits DEF Owned
    <2>1. CASE jobs' = Tail(jobs)
      <3>1. Queue' = Rest
        BY <2>1, Ending, Zenon
      <3>2. Owned'
        BY <1>0, <2>0, <3>1 DEF Owned
      <3>3. scan' = NoScan
            /\ (census' = "degraded" \/ census' = IF scan.kind = "startup" THEN "current" ELSE census)
        BY <1>2, <2>0, <2>1 DEF Succeeds, Fails, ScanOver
      <3>4. Flags'
        BY <1>0, <1>n, <2>0, <3>3 DEF Flags
      <3> QED
        BY <1>0, <2>1, <3>2, <3>4, OneScanKept DEF Placed
    <2>2. CASE /\ scan.kind = "flush" /\ jobs' = Append(Tail(jobs), Rescan("scan", Path))
               /\ scan' = [scan EXCEPT !.step = "retry"] /\ UNCHANGED census
      <3>1. Queue' = Rest \cup {Rescan("scan", Path)}
        BY <2>2, Requeueing, Zenon
      <3>2. scan'.kind = "flush" /\ scan'.step = "retry"
        BY <1>0, <2>2 DEF Scan
      <3>3. Owned'
        BY <1>0, <1>r, <2>0, <3>1, <3>2 DEF Owned
      <3>4. Flags'
        BY <1>0, <2>2, <3>2 DEF Flags
      <3>5. OneScan'
        BY <1>0, <1>2, <2>2, OneScanKept
      <3> QED
        BY <3>3, <3>4, <3>5 DEF Placed
    <2> QED
      BY <1>2, <2>0, <2>1, <2>2 DEF Succeeds, Fails
  <1> QED
    BY <1>1, <1>2

\* So does a job that goes on.
LEMMA BecomesPlaced ==
  ASSUME TypeOK, Placed, jobs # <<>>, NEW j, Becomes(j), UNCHANGED <<snap, watch, scan, census>>,
         j.owner = Running.owner, j.owner \in {"scan", "error"} \/ j.step = Running.step,
         j.owner \in {"scan", "error"} =>
           j.step \in {"list", "read"} \/ (j.step = Running.step /\ j.changes \subseteq Running.changes)
  PROVE  Placed'
  <1>0. Flags /\ Owned /\ OneScan /\ Rest \subseteq Queue /\ Running \in Queue /\ Queue' = Rest \cup {j}
    BY QueueSplit, Becoming DEF Placed
  <1>1. Owned'
    BY <1>0 DEF Owned
  <1>2. OneScan'
    BY <1>0, OneScanKept
  <1> QED
    BY <1>0, <1>1, <1>2 DEF Placed, Flags

\* The jobs of the index keep the flags and the owners in order.
LEMMA JobsPlaced ==
  ASSUME TypeOK, Placed, CensusFirst, OneReader, IndexJobs
  PROVE  Placed'
  <1> USE DEF pass, watcher
  <1>0. /\ watch \in Watch /\ Flags /\ Owned /\ OneScan
        /\ (jobs # <<>> => Running \in Job /\ Running \in Queue /\ Running = jobs[1] /\ 1 \in DOMAIN jobs)
    BY QueueSplit DEF TypeOK, Placed
  <1>r. \A o, S : Rescan(o, S).step = "list" /\ Rescan(o, S).owner = o
    BY DEF Rescan
  <1>1. CASE ReconcileSave
    <2> DEFINE j == [owner |-> "save", step |-> "apply", changes |-> saving.changes, scope |-> {}]
    <2>1. j.owner = "save" /\ j.step = "apply" /\ jobs' = Append(jobs, j)
          /\ UNCHANGED <<snap, watch, scan, census>>
      BY <1>1 DEF ReconcileSave
    <2> HIDE DEF j
    <2>2. Queue' = Queue \cup {j}
      BY <2>1, Appending
    <2>3. Owned'
      BY <1>0, <2>1, <2>2 DEF Owned
    <2>4. OneScan'
      BY <1>0, <2>1, OneScanKept
    <2> QED
      BY <1>0, <2>1, <2>3, <2>4 DEF Placed, Flags
  <1>2. CASE InstallCensus
    <2>1. /\ jobs # <<>> /\ jobs' = Tail(jobs) /\ jobs[1].step = "install"
          /\ watch' = [watch EXCEPT !.catchUp = watch.catchUp \/ ~watch.ready]
          /\ census' = "reconciling" /\ UNCHANGED scan
      BY <1>2, <1>0 DEF InstallCensus, Holds
    <2>2. scan.kind = "census" /\ scan.step = "sent" /\ census = "scanning"
          /\ \A k \in DOMAIN jobs : jobs[k].owner # "scan"
      BY <1>0, <2>1 DEF CensusFirst
    <2>3. Queue' = Rest /\ Rest \subseteq Queue
      BY <2>1, Ending, QueueSplit
    <2>4. Owned'
      BY <1>0, <2>2, <2>3 DEF Owned, Queue
    <2>5. Flags'
      BY <1>0, <2>1, <2>2 DEF Flags, Watch
    <2> QED
      BY <1>0, <2>1, <2>4, <2>5, OneScanKept DEF Placed
  <1>3. ASSUME Holds("apply"), NEW c \in Running.changes, ApplyChange(c) PROVE Placed'
    <2> DEFINE j == [Running EXCEPT !.changes = Running.changes \ {c}]
    <2>1. j.owner = Running.owner /\ j.step = Running.step /\ j.changes \subseteq Running.changes
      BY <1>3, <1>0 DEF Holds, Job
    <2>2. jobs # <<>> /\ Becomes(j) /\ UNCHANGED <<snap, watch, scan, census>>
      BY <1>3 DEF ApplyChange, Holds
    <2> HIDE DEF j
    <2> QED
      BY <2>1, <2>2, BecomesPlaced
  <1>4. CASE RefreshFails
    <2>1. CASE Running.owner = "scan"
      BY <1>4, <1>r, <2>1, BecomesPlaced DEF RefreshFails, Holds
    <2>2. CASE Running.owner # "scan"
      BY <1>4, <2>2, EndsPlaced DEF RefreshFails, Holds
    <2> QED
      BY <2>1, <2>2
  <1>5. CASE BatchApplied
    BY <1>5, EndsPlaced DEF BatchApplied, Holds
  <1>6. CASE ListForRebuild
    <2> DEFINE j == [Running EXCEPT !.step = "read"]
    <2>1. j.owner = Running.owner /\ j.step = "read"
      BY <1>6, <1>0 DEF ListForRebuild, Holds, Job
    <2>2. jobs # <<>> /\ Becomes(j) /\ UNCHANGED <<snap, watch, scan, census>>
      BY <1>6 DEF ListForRebuild, Holds
    <2>3. Running.owner \in {"scan", "error"}
      BY <1>6, <1>0 DEF ListForRebuild, Holds, Owned, Job
    <2> HIDE DEF j
    <2> QED
      BY <2>1, <2>2, <2>3, BecomesPlaced
  <1>7. CASE \E p \in Path : ReadForRebuild(p)
    BY <1>7 DEF ReadForRebuild, Placed, Owned, OneScan, Flags, Queue
  <1>8. CASE RebuildFails
    BY <1>8, EndsPlaced DEF RebuildFails, Holds
  <1>9. CASE Replace
    BY <1>9, EndsPlaced DEF Replace, Holds
  <1> QED
    BY <1>1, <1>2, <1>3, <1>4, <1>5, <1>6, <1>7, <1>8, <1>9 DEF IndexJobs
-----------------------------------------------------------------------------
(* What is owed to a note.                                                 *)

\* What a step adds to the account of lost changes.
Accounted == lost' = lost \cup {x \in {"change"} : GivesUp} \cup {x \in {"removal"} : Misses}

\* Nothing is forgotten once it is lost.
LEMMA Accounting ==
  ASSUME Accounted
  PROVE  /\ Intact' => Intact /\ ~GivesUp
         /\ lost' = {} => lost = {} /\ ~Misses
  BY DEF Accounted, Intact

\* A job added to the queue takes nothing away.
LEMMA QueueServes ==
  ASSUME TypeOK, UNCHANGED <<idx, build>>,
         UNCHANGED jobs \/ \E j : j.step # "read" /\ jobs' = Append(jobs, j)
  PROVE  \A p : (Reread(p) => Reread(p)') /\ Prospect(p)' = Prospect(p)
  <1>1. CASE UNCHANGED jobs
    BY <1>1 DEF Reread, Rereads, Queue, Prospect, Copied, Holds, Running
  <1>2. ASSUME NEW j, j.step # "read", jobs' = Append(jobs, j)
        PROVE  \A p : (Reread(p) => Reread(p)') /\ Prospect(p)' = Prospect(p)
    <2>1. /\ Queue \subseteq Queue' /\ jobs' # <<>>
          /\ jobs # <<>> => Running' = Running
          /\ jobs = <<>> => Running' = j
      BY <1>2, Appending, Zenon
    <2>2. \A p : Reread(p) => Reread(p)'
      BY <2>1 DEF Reread, Rereads
    <2>3. Holds("read")' <=> Holds("read")
      BY <1>2, <2>1 DEF Holds, Running
    <2>4. Holds("read") => Running' = Running
      BY <2>1 DEF Holds
    <2>5. \A p : Copied(p)' <=> Copied(p)
      BY <2>3, <2>4 DEF Copied
    <2>6. \A p : Prospect(p)' = Prospect(p)
      BY <2>5 DEF Prospect
    <2> QED
      BY <2>2, <2>6
  <1> QED
    BY <1>1, <1>2

\* When nobody's care for a note ends, every note is still cared for.
LEMMA StillCaught ==
  ASSUME Caught, Intact' => Intact, census = "degraded" => census' = "degraded",
         lost' = {} => lost = {}, UNCHANGED <<vault, snap>>,
         \A p : (Reread(p) => Reread(p)') /\ Prospect(p)' = Prospect(p),
         Following' => (Alert \/ Scanning => Alert' \/ Scanning'),
         census = "scanning" => census' \in {"scanning", "degraded"}
  PROVE  Caught'
  <1>0. Following' => Following
    BY DEF Following
  <1>1. Reported'
    BY <1>0 DEF Caught, Reported, Notes, AtLeast
  <1>2. Tracked'
    <2> SUFFICES ASSUME Following', NEW p \in Notes(vault)
                 PROVE  Alert' \/ Scanning' \/ snap[p] = vault[p] \/ Reread(p)' \/ Prospect(p)' = vault[p]
      BY DEF Tracked, Notes
    <2>1. Alert \/ Scanning \/ snap[p] = vault[p] \/ Reread(p) \/ Prospect(p) = vault[p]
      BY <1>0 DEF Caught, Tracked
    <2> QED
      BY <2>1
  <1>3. Gone'
    <2> SUFFICES ASSUME Following', lost' = {}, NEW p \in Path \ Notes(vault)
                 PROVE  \/ Reread(p)' \/ Missing(Prospect(p)') \/ census' = "scanning"
                        \/ (Alert' \/ Scanning') /\ ~Missing(snap[p])
      BY DEF Gone, Notes, Missing
    <2>1. \/ Reread(p) \/ Missing(Prospect(p)) \/ census = "scanning"
          \/ (Alert \/ Scanning) /\ ~Missing(snap[p])
      BY <1>0 DEF Caught, Gone
    <2>2. census = "scanning" => census' = "scanning"
      BY DEF Following
    <2> QED
      BY <2>1, <2>2
  <1> QED
    BY <1>1, <1>2, <1>3 DEF Caught

\* When every note is read again, every note is cared for.
LEMMA AllReread == ASSUME \A p \in Path : Reread(p)' PROVE Caught'
  BY DEF Caught, Reported, Tracked, Gone, Notes

\* When nobody looks at the folder, every note is cared for.
LEMMA NotFollowing == ASSUME ~Following' PROVE Caught' /\ Fresh'
  BY DEF Caught, Reported, Tracked, Gone, Fresh
-----------------------------------------------------------------------------
(* The folder changes.                                                     *)

\* A path keeps its state or gets a newer one, which is noticed if the
\* watcher can see it.
LEMMA AlterNoticed ==
  ASSUME TypeOK, Readings, NEW S \in SUBSET Path, NEW f,
         \A q \in S : f[q].stamp = clock + 1, Alter(S, f)
  PROVE  /\ \A p \in Path : \/ vault'[p] = vault[p]
                            \/ vault'[p].stamp > vault[p].stamp /\ (watch.ready => notice')
         /\ notice => notice'
  <1>1. clock \in Nat /\ \A p \in Path : vault[p].stamp \in Nat
    BY DEF TypeOK, State
  <1>2. ASSUME NEW p \in Path
        PROVE  vault'[p] = vault[p] \/ vault'[p].stamp > vault[p].stamp
    BY <1>1 DEF Alter, Readings
  <1> QED
    BY <1>2 DEF Alter, Noticed

\* So does every step of other programs and of a save.
LEMMA FolderNoticed ==
  ASSUME TypeOK, Readings, World \/ Kernel
  PROVE  /\ \A p \in Path : \/ vault'[p] = vault[p]
                            \/ vault'[p].stamp > vault[p].stamp /\ (watch.ready => notice')
         /\ notice => notice'
  <1> USE AlterNoticed
  <1> DEFINE Goal == /\ \A p \in Path : \/ vault'[p] = vault[p]
                                        \/ vault'[p].stamp > vault[p].stamp /\ (watch.ready => notice')
                     /\ notice => notice'
  <1>n. /\ \A i : Now(i).stamp = clock + 1
        /\ \A p : NewFile(p).stamp = clock + 1
    BY DEF Now, NewFile
  <1>1. ASSUME NEW p \in Path, ExtCreate(p) \/ ExtWrite(p) \/ ExtDelete(p) PROVE Goal
    <2>1. CASE Alter({p}, [q \in {p} |-> NewFile(p)])
      BY <1>n, <2>1
    <2>2. CASE LET S == {q \in Path : vault[q].id = vault[p].id}
               IN  Alter(S, [q \in S |-> Now(vault[p].id)])
      <3> DEFINE S == {q \in Path : vault[q].id = vault[p].id}
      <3>1. S \in SUBSET Path
        OBVIOUS
      <3>2. \A q \in S : [x \in S |-> Now(vault[p].id)][q].stamp = clock + 1
        BY <1>n
      <3> QED
        BY <2>2, <3>1, <3>2
    <2>3. CASE Alter({p}, [q \in {p} |-> Now(NoFile)])
      BY <1>n, <2>3
    <2> QED
      BY <1>1, <2>1, <2>2, <2>3 DEF ExtCreate, ExtWrite, ExtDelete
  <1>2. ASSUME NEW p \in Path, NEW q \in Path, ExtRename(p, q) \/ ExtLink(p, q) PROVE Goal
    <2>1. \E f : (\A r \in {p, q} : f[r].stamp = clock + 1) /\ Alter({p, q}, f)
      <3>1. CASE ExtRename(p, q)
        <4>1. \A r \in {p, q} :
                [x \in {p, q} |-> Now(IF x = q THEN vault[p].id ELSE NoFile)][r].stamp = clock + 1
          BY <1>n
        <4> QED
          BY <3>1, <4>1 DEF ExtRename
      <3>2. CASE ExtLink(p, q)
        <4>1. \A r \in {p, q} : [x \in {p, q} |-> Now(vault[p].id)][r].stamp = clock + 1
          BY <1>n
        <4> QED
          BY <3>2, <4>1 DEF ExtLink
      <3> QED
        BY <1>2, <3>1, <3>2
    <2> QED
      BY <2>1
  <1>3. ASSUME NEW p \in Path, SaveBegins(p) PROVE Goal
    <2>1. CASE Alter({p}, [q \in {p} |-> Now(NoFile)])
      BY <1>n, <2>1
    <2>2. CASE UNCHANGED <<vault, clock, notice>>
      BY <2>2
    <2> QED
      BY <1>3, <2>1, <2>2 DEF SaveBegins
  <1>4. ASSUME NEW p \in Path, SaveInstalls(p) \/ SaveRestores(p) PROVE Goal
    BY <1>4, <1>n DEF SaveInstalls, SaveRestores
  <1>5. ASSUME NEW p \in Path, NEW q \in Path, SaveConflicts(p, q) PROVE Goal
    BY <1>5, <1>n DEF SaveConflicts
  <1> QED
    BY <1>1, <1>2, <1>3, <1>4, <1>5 DEF World, Kernel

\* What was in the folder stays in its past.
LEMMA StaysPast ==
  ASSUME TypeOK, TypeOK', NEW read, Past(read), read \in [Path -> State],
         \A p \in Path : vault'[p] = vault[p] \/ vault'[p].stamp > vault[p].stamp
  PROVE  \A p \in Path : read[p] = Unread[p] \/ AtLeast(vault'[p], read[p])
  <1>1. \A p \in Path : read[p].stamp \in Nat /\ vault[p].stamp \in Nat /\ vault'[p].stamp \in Nat
    BY DEF TypeOK, State
  <1> QED
    BY <1>1 DEF Past, AtLeast

\* When the folder changes somebody will look, and a note that goes is known.
LEMMA FolderKept ==
  ASSUME TypeOK, TypeOK', Ordered, Kept, World \/ Kernel, Accounted
  PROVE  Kept'
  <1>0. /\ \A p \in Path : \/ vault'[p] = vault[p]
                           \/ vault'[p].stamp > vault[p].stamp /\ (watch.ready => notice')
        /\ notice => notice'
        /\ UNCHANGED <<idx, jobs, build, snap, watch, scan, seen, census>>
    BY FolderNoticed, FolderAdvances DEF Ordered, index, watcher, pass
  <1>a. /\ Intact' => Intact
        /\ lost' = {} => lost = {} /\ ~Misses
    BY Accounting
  <1>1. Placed'
    BY <1>0 DEF Kept, Placed, Owned, OneScan, Flags, Queue
  <1>2. AllPast'
    <2>1. idx \in [Path -> State] /\ seen \in [Path -> State] /\ snap \in [Path -> State]
          /\ build.got \in [Path -> State]
      BY DEF TypeOK, Build
    <2>2. Intact' => Past(idx)' /\ Past(seen)' /\ Past(snap)' /\ Past(build.got)'
      <3> SUFFICES ASSUME Intact' PROVE Past(idx)' /\ Past(seen)' /\ Past(snap)' /\ Past(build.got)'
        OBVIOUS
      <3>1. Past(idx) /\ Past(seen) /\ Past(snap) /\ Past(build.got)
        BY <1>a DEF Kept, AllPast
      <3>2. \A p \in Path : vault'[p] = vault[p] \/ vault'[p].stamp > vault[p].stamp
        BY <1>0
      <3> QED
        BY <1>0, <2>1, <3>1, <3>2, StaysPast DEF Past
    <2> QED
      BY <2>2 DEF AllPast
  <1>b. Following' => Following
    BY <1>0, <1>a DEF Following
  <1>c. (Alert => Alert') /\ (Scanning' <=> Scanning) /\ (HasRead' <=> HasRead)
    BY <1>0 DEF Alert, Scanning, HasRead
  <1>d. ASSUME NEW p \in Path, vault'[p] # vault[p], Following' PROVE Alert'
    <2>1. ~watch.ready => census = "scanning" \/ watch.catchUp
      BY <1>b, <1>d DEF Kept, Placed, Flags, Following
    <2> QED
      BY <1>0, <1>d, <2>1 DEF Alert
  <1>e. \A p : (Reread(p)' <=> Reread(p)) /\ Prospect(p)' = Prospect(p)
    BY <1>0 DEF Reread, Rereads, Queue, Prospect, Copied, Holds, Running
  <1>3. Fresh'
    <2> SUFFICES ASSUME Following' PROVE Fresh'
      BY DEF Fresh
    <2>1. Queue' = Queue
      BY <1>0 DEF Queue
    <2>2. \A j \in Queue : j.owner = "scan" /\ j.step = "apply" => \A c \in j.changes : c.path \in Path
      BY QueueSplit DEF Job, Change
    <2> QED
      BY <1>0, <1>b, <1>c, <1>d, <2>1, <2>2 DEF Kept, Fresh
  <1>4. Reported'
    BY <1>0, <1>b, <1>e DEF Kept, Caught, Reported, Notes, AtLeast
  <1>5. Tracked'
    <2> SUFFICES ASSUME Following', NEW p \in Path, ~Missing(vault'[p])
                 PROVE  Alert' \/ Scanning' \/ snap[p] = vault'[p] \/ Reread(p)' \/ Prospect(p)' = vault'[p]
      BY <1>0 DEF Tracked, Notes
    <2>1. CASE vault'[p] = vault[p]
      BY <1>b, <1>c, <1>e, <2>1 DEF Kept, Caught, Tracked, Notes
    <2> QED
      BY <1>d, <2>1
  <1>6. Gone'
    <2> SUFFICES ASSUME Following', lost' = {}, NEW p \in Path, Missing(vault'[p])
                 PROVE  \/ Reread(p)' \/ Missing(Prospect(p)') \/ census' = "scanning"
                        \/ (Alert' \/ Scanning') /\ ~Missing(snap'[p])
      BY DEF Gone, Notes, Missing
    <2>1. CASE Missing(vault[p])
      BY <1>0, <1>a, <1>b, <1>c, <1>e, <2>1 DEF Kept, Caught, Gone, Notes, Missing
    <2>2. CASE ~Missing(vault[p]) /\ ~Missing(snap[p])
      BY <1>0, <1>d, <2>2 DEF Missing
    <2>3. CASE ~Missing(vault[p]) /\ Missing(snap[p])
      <3>1. p \notin Notes(idx) \cup Notes(build.got)
        BY <1>a, <2>3 DEF Misses
      <3>2. Missing(Prospect(p))
        BY <3>1 DEF Prospect, Notes
      <3> QED
        BY <1>e, <3>2
    <2> QED
      BY <2>1, <2>2, <2>3
  <1> QED
    BY <1>1, <1>2, <1>3, <1>4, <1>5, <1>6 DEF Kept, Caught
-----------------------------------------------------------------------------
(* The watcher looks.                                                      *)

\* Neither a listing nor a reading is of anything but the folder.
LEMMA ReadingsPast ==
  /\ Past(Unread) /\ Past(Listed(vault))
  /\ \A read \in [Path -> State], p \in Path : Past(read) => Past([read EXCEPT ![p] = vault[p]])
  BY DEF Past, AtLeast, Listed, Unread

\* The watcher's steps keep what was read in the past of the folder.
LEMMA WatcherPast ==
  ASSUME TypeOK, AllPast, Watcher, Intact' => Intact
  PROVE  AllPast'
  <1> USE ReadingsPast DEF pass
  <1>1. UNCHANGED <<vault, idx, build>>
    BY WatcherQueues
  <1> SUFFICES ASSUME Intact' PROVE Past(idx)' /\ Past(seen)' /\ Past(snap)' /\ Past(build.got)'
    BY DEF AllPast
  <1>2. Past(idx) /\ Past(seen) /\ Past(snap) /\ Past(build.got)
    BY DEF AllPast
  <1>3. UNCHANGED seen \/ Past(seen')
    <2>1. CASE ListNotes
      BY <2>1 DEF ListNotes
    <2>2. ASSUME NEW p \in Path, ReadNote(p) PROVE Past(seen')
      BY <1>2, <2>2 DEF ReadNote, TypeOK
    <2>3. CASE ScanFails
      BY <2>3 DEF ScanFails
    <2>4. CASE Compare
      BY <2>4 DEF Compare, ScanOver
    <2>5. CASE BackendReady \/ RecordEvent \/ BackendError \/ DebounceOver \/ StartFlush
               \/ CensusRead \/ FinishBufferedStart
      BY <2>5 DEF BackendReady, RecordEvent, BackendError, DebounceOver, StartFlush,
                  CensusRead, FinishBufferedStart
    <2> QED
      BY <2>1, <2>2, <2>3, <2>4, <2>5 DEF Watcher
  <1>4. UNCHANGED snap \/ snap' = seen
    BY DEF Watcher, BackendReady, RecordEvent, BackendError, DebounceOver, StartFlush, ListNotes,
           ReadNote, ScanFails, CensusRead, Compare, FinishBufferedStart
  <1> QED
    BY <1>1, <1>2, <1>3, <1>4 DEF Past

\* Until it compares, the watcher keeps its eyes on what has changed: a step
\* that ends one reason to look gives another.
LEMMA StillAlert ==
  ASSUME TypeOK, Placed, CensusFirst, Watcher, ~Compare, ~BackendError, ~ScanFails,
         Following', ~GivesUp
  PROVE  /\ Alert \/ Scanning => Alert' \/ Scanning'
         /\ (HasRead' /\ ~ListNotes) \/ (\E j \in Queue : j.owner = "scan") => (Alert => Alert')
         /\ UNCHANGED <<vault, snap>>
         /\ census = "scanning" => census' = "scanning"
  <1> USE DEF pass, folder
  <1>0. watch \in Watch /\ scan \in Scan /\ Flags /\ Owned
    BY DEF TypeOK, Placed
  <1>n. NoScan.kind = "none" /\ NoScan.step = "list"
    BY DEF NoScan
  <1>j. (\E j \in Queue : j.owner = "scan") =>
          scan.kind \in {"startup", "flush"} /\ scan.step \in {"sent", "retry"}
    BY <1>0 DEF Owned
  <1>1. CASE BackendReady
    <2>0. UNCHANGED <<vault, notice, snap, scan, census>> /\ watch' = Ready(watch) /\ ~watch.ready
      BY <1>1 DEF BackendReady
    <2>1. CASE census # "scanning"
      BY <1>0, <2>0, <2>1 DEF Ready, Scheduled, Watch, Alert, Scanning
    <2>2. CASE census = "scanning"
      <3>1. scan.kind = "census" /\ scan.step = "list"
        BY <1>0, <1>1, <2>2 DEF GivesUp, Flags
      <3> QED
        BY <1>j, <2>0, <2>2, <3>1 DEF Scanning, HasRead
    <2> QED
      BY <2>1, <2>2
  <1>2. CASE RecordEvent
    BY <1>0, <1>2 DEF RecordEvent, Scheduled, Watch, Alert
  <1>3. CASE DebounceOver
    <2>1. watch'.waiting = watch.waiting + 1 /\ watch.waiting \in Nat
      BY <1>0, <1>3 DEF DebounceOver, Watch
    <2>2. Alert'
      BY <2>1 DEF Alert
    <2> QED
      BY <1>3, <2>2 DEF DebounceOver
  <1>4. CASE StartFlush
    <2>1. scan = NoScan /\ scan'.kind = "flush" /\ scan'.step = "list" /\ UNCHANGED <<vault, snap, census>>
      BY <1>4 DEF StartFlush, NoScan
    <2> QED
      BY <1>j, <1>n, <2>1 DEF Scanning, HasRead
  <1>5. CASE ListNotes
    <2>1. scan'.kind = scan.kind /\ scan'.step = "read" /\ scan.kind # "none" /\ scan.step = "list"
          /\ UNCHANGED <<vault, notice, watch, snap, census>>
      BY <1>0, <1>5 DEF ListNotes, Scan
    <2> QED
      BY <1>5, <1>j, <2>1 DEF Scanning
  <1>6. ASSUME NEW p \in Path, ReadNote(p)
        PROVE  /\ UNCHANGED <<vault, notice, watch, snap, census>>
               /\ scan'.kind = scan.kind /\ scan'.step = scan.step
    BY <1>0, <1>6 DEF ReadNote, Scan
  <1>7. CASE CensusRead
    <2>1. /\ UNCHANGED <<vault, notice, watch, snap, census>> /\ census = "scanning"
          /\ scan'.kind = scan.kind /\ scan.kind # "none"
      BY <1>0, <1>7 DEF CensusRead, Scan, CensusFirst
    <2> QED
      BY <2>1 DEF Alert, Scanning
  <1>8. CASE FinishBufferedStart
    <2>1. /\ UNCHANGED <<vault, notice, snap>> /\ watch' = Started(watch) /\ census = "reconciling"
          /\ scan.kind = "census" /\ scan.step = "sent"
          /\ watch.startup => scan'.kind = "startup" /\ scan'.step = "list"
          /\ ~watch.startup => scan' = NoScan
      BY <1>0, <1>8 DEF FinishBufferedStart, NoScan, Flags
    <2>2. ~Scanning /\ ~HasRead'
      BY <1>n, <2>1 DEF Scanning, HasRead
    <2>3. Alert /\ ~watch.startup => Alert'
      BY <1>0, <2>1 DEF Started, Scheduled, Alert, Watch
    <2>4. watch.startup => Scanning'
      BY <2>1 DEF Scanning
    <2> QED
      BY <1>j, <2>1, <2>2, <2>3, <2>4
  <1> QED
    BY <1>1, <1>2, <1>3, <1>4, <1>5, <1>6, <1>7, <1>8 DEF Watcher, Alert, Scanning

\* A scan that sends its difference, or finds none: what it found is what it
\* has read, and what was read has been given a job.
LEMMA ComparePosts ==
  ASSUME TypeOK, Placed, CensusFirst, Compare, ~GivesUp
  PROVE  /\ UNCHANGED <<folder, idx, build, watch>> /\ snap' = seen
         /\ scan.kind \in {"startup", "flush"} /\ scan.todo = {} /\ scan.step = "read" /\ HasRead
         /\ ~HasRead' /\ census # "scanning" /\ census' # "scanning" 
         /\ \A p \in Path : \/ Reread(p)'
                            \/ snap[p] = seen[p]
                            \/ Missing(snap[p]) /\ Missing(seen[p])
         /\ \A j \in Queue' : j.owner = "scan" /\ j.step = "apply" =>
              j.changes = Differences(snap, seen)
  <1> USE DEF pass
  <1>0. /\ scan \in Scan /\ Flags /\ Owned
        /\ \A j \in Queue : j.owner # "scan"
        /\ UNCHANGED <<folder, idx, build, watch>> /\ snap' = seen
        /\ scan.kind \in {"startup", "flush"} /\ scan.step = "read" /\ scan.todo = {}
    BY NoScanJobs DEF Compare, TypeOK, Placed
  <1>n. NoScan.kind = "none"
    BY DEF NoScan
  <1>r. \A S : Rescan("scan", S).step = "list" /\ Rescan("scan", S).owner = "scan"
               /\ Rescan("scan", S).scope = S
    BY DEF Rescan
  <1>d. ASSUME NEW p \in Path, snap[p] # seen[p], ~Missing(snap[p]) \/ ~Missing(seen[p])
        PROVE  [path |-> p, to |-> seen[p]] \in Differences(snap, seen)
    BY <1>d DEF Differences, Notes
  <1> DEFINE found == Differences(snap, seen)
             batch == [owner |-> "scan", step |-> "apply", changes |-> found, scope |-> {}]
             Posted == /\ \A p \in Path : \/ Reread(p)'
                                          \/ snap[p] = seen[p]
                                          \/ Missing(snap[p]) /\ Missing(seen[p])
                       /\ \A j \in Queue' : j.owner = "scan" /\ j.step = "apply" => j.changes = found
  <1>1. HasRead /\ census # "scanning"
    <2>1. scan.kind # "none" /\ scan.kind # "census" /\ scan.step = "read"
      BY <1>0
    <2>2. census = "scanning" => scan.kind = "census"
      BY <1>0 DEF Flags
    <2> QED
      BY <2>1, <2>2 DEF HasRead
  <1>2. CASE found = {} /\ ScanOver /\ UNCHANGED jobs
    <2>1. ~HasRead'
      BY <1>n, <1>2 DEF ScanOver, HasRead
    <2>2. Posted
      <3>1. Queue' = Queue
        BY <1>2 DEF Queue
      <3>2. \A p \in Path : snap[p] = seen[p] \/ (Missing(snap[p]) /\ Missing(seen[p]))
        BY <1>2, <1>d
      <3> QED
        BY <1>0, <3>1, <3>2
    <2>3. census' # "scanning"
      BY <1>0, <1>1, <1>2 DEF ScanOver, Flags
    <2> QED
      BY <1>0, <1>1, <2>1, <2>2, <2>3
  <1>3. CASE scan' = [scan EXCEPT !.step = "sent"] /\ UNCHANGED census
             /\ (jobs' = Append(jobs, batch) \/ \E S : jobs' = Append(jobs, Rescan("scan", S)))
    <2>1. ~HasRead'
      BY <1>0, <1>1, <1>3 DEF HasRead, Scan
    <2>2. CASE jobs' = Append(jobs, batch)
      <3>1. batch.owner = "scan" /\ batch.step = "apply" /\ batch.changes = found
        OBVIOUS
      <3> HIDE DEF batch
      <3>2. Queue' = Queue \cup {batch}
        BY <2>2, Appending
      <3>3. ASSUME NEW p \in Path, snap[p] # seen[p], ~Missing(snap[p]) \/ ~Missing(seen[p])
            PROVE  Reread(p)'
        <4>c. /\ [path |-> p, to |-> seen[p]] \in Differences(snap, seen)
              /\ [path |-> p, to |-> seen[p]].path = p
          BY <1>d, <3>3
        <4>1. PICK c \in batch.changes : c.path = p
          BY <3>1, <4>c
        <4>2. PICK j \in Queue' : j = batch
          BY <3>2
        <4>3. j.owner = "scan" /\ j.step = "apply" /\ c \in j.changes
          BY <3>1, <4>1, <4>2
        <4> QED
          BY <4>1, <4>2, <4>3 DEF Reread, Rereads
      <3>4. Posted
        BY <1>0, <3>1, <3>2, <3>3
      <3> QED
        BY <1>0, <1>1, <1>3, <2>1, <3>4
    <2>3. CASE \E S : jobs' = Append(jobs, Rescan("scan", S))
      <3>1. PICK S : jobs' = Append(jobs, Rescan("scan", S))
        BY <2>3
      <3>2. /\ Queue' = Queue \cup {Rescan("scan", S)} /\ jobs'[Len(jobs')] = Rescan("scan", S)
            /\ Len(jobs') # Len(jobs)
        <4>1. /\ Queue' = Queue \cup {Rescan("scan", S)}
              /\ jobs'[Len(jobs) + 1] = Rescan("scan", S) /\ Len(jobs') = Len(jobs) + 1
          BY <3>1, Appending, Zenon
        <4>2. Len(jobs) \in Nat
          BY DEF TypeOK
        <4> QED
          BY <4>1, <4>2
      <3>3. \A c \in found : c.path \in S
        BY <1>r, <3>2 DEF GivesUp
      <3>4. ASSUME NEW p \in Path, snap[p] # seen[p], ~Missing(snap[p]) \/ ~Missing(seen[p])
            PROVE  Reread(p)'
        <4>1. p \in S
          BY <1>d, <3>3, <3>4
        <4> QED
          BY <1>r, <3>2, <4>1 DEF Reread, Rereads
      <3>5. Posted
        BY <1>0, <1>r, <3>2, <3>4
      <3> QED
        BY <1>0, <1>1, <1>3, <2>1, <3>5
    <2> QED
      BY <1>3, <2>2, <2>3
  <1> QED
    BY <1>2, <1>3 DEF Compare

\* What the watcher has read, and what it sends, is in the folder or looked at
\* again.
LEMMA WatcherFresh ==
  ASSUME TypeOK, Placed, CensusFirst, Fresh, Watcher, Intact' => Intact /\ ~GivesUp
  PROVE  Fresh'
  <1> USE DEF pass, folder
  <1>0. watch \in Watch /\ scan \in Scan /\ Flags /\ Owned
    BY DEF TypeOK, Placed
  <1>r. \A o, S : Rescan(o, S).step = "list"
    BY DEF Rescan
  <1>n. NoScan.kind = "none"
    BY DEF NoScan
  <1> SUFFICES ASSUME Following' PROVE Fresh'
    BY DEF Fresh
  <1>f. Following /\ ~GivesUp
    <2>1. census = "degraded" => census' = "degraded"
      BY <1>0 DEF Watcher, BackendReady, RecordEvent, BackendError, DebounceOver, StartFlush, ListNotes,
             ReadNote, ScanFails, CensusRead, Compare, ScanOver, FinishBufferedStart, Flags
    <2> QED
      BY <2>1 DEF Following
  <1>g. /\ HasRead => \A p \in Path \ scan.todo : seen[p] = vault[p] \/ Alert
        /\ \A j \in Queue : j.owner = "scan" /\ j.step = "apply" =>
             \A c \in j.changes : c.to = vault[c.path] \/ Alert
    BY <1>f DEF Fresh
  <1>1. CASE BackendError
    <2>1. CASE watch.buffering
      <3>1. Alert'
        BY <1>0, <1>1, <2>1 DEF BackendError, Alert, Watch
      <3> QED
        BY <3>1 DEF Fresh
    <2>2. CASE ~watch.buffering
      <3>1. scan.step = "list" /\ UNCHANGED scan /\ jobs' = Append(jobs, Rescan("error", Path))
        BY <1>1, <1>f, <2>2 DEF GivesUp, BackendError
      <3>2. Queue' = Queue \cup {Rescan("error", Path)} /\ \A j \in Queue : j.owner # "scan"
        BY <1>0, <3>1, Appending, NoScanJobs
      <3>3. ~HasRead'
        BY <3>1 DEF HasRead
      <3> QED
        BY <1>r, <3>2, <3>3 DEF Fresh
    <2> QED
      BY <2>1, <2>2
  <1>2. CASE ScanFails
    <2>1. /\ scan' = [scan EXCEPT !.step = "retry", !.todo = {}]
          /\ jobs' = Append(jobs, Rescan("scan", Path)) /\ scan.step = "read"
      BY <1>2 DEF ScanFails, Following
    <2>2. Queue' = Queue \cup {Rescan("scan", Path)} /\ \A j \in Queue : j.owner # "scan"
      BY <1>0, <2>1, Appending, NoScanJobs
    <2>3. ~HasRead'
      BY <1>0, <2>1 DEF HasRead, Scan
    <2> QED
      BY <1>r, <2>2, <2>3 DEF Fresh
  <1>3. CASE Compare
    <2>1. /\ UNCHANGED <<folder, watch>> /\ scan.todo = {} /\ HasRead /\ ~HasRead'
          /\ census # "scanning"
          /\ \A j \in Queue' : j.owner = "scan" /\ j.step = "apply" => j.changes = Differences(snap, seen)
      BY <1>3, <1>f, ComparePosts
    <2>2. Alert => Alert'
      BY <2>1 DEF Alert
    <2>3. \A c \in Differences(snap, seen) : c.path \in Path /\ c.to = seen[c.path]
      BY DEF Differences, Notes
    <2>4. \A c \in Differences(snap, seen) : c.to = vault'[c.path] \/ Alert'
      BY <1>g, <2>1, <2>2, <2>3
    <2> QED
      BY <2>1, <2>4 DEF Fresh
  <1>4. CASE ~BackendError /\ ~ScanFails /\ ~Compare
    <2>0. /\ (HasRead' /\ ~ListNotes) \/ (\E j \in Queue : j.owner = "scan") => (Alert => Alert')
          /\ UNCHANGED vault
      BY <1>4, <1>f, StillAlert
    <2>1. \A j \in Queue' : j.owner = "scan" => j \in Queue
      <3>1. UNCHANGED jobs \/ \E j : j.owner = "census" /\ jobs' = Append(jobs, j)
        <4>1. [owner |-> "census", step |-> "install", changes |-> {}, scope |-> Path].owner = "census"
          OBVIOUS
        <4> QED
          BY <1>4, <4>1 DEF Watcher, BackendReady, RecordEvent, DebounceOver, StartFlush, ListNotes,
             ReadNote, CensusRead, FinishBufferedStart, index
      <3>2. UNCHANGED jobs => Queue' = Queue
        BY DEF Queue
      <3> QED
        BY <3>1, <3>2, Appending
    <2>2. ASSUME HasRead', NEW p \in Path \ scan'.todo PROVE seen'[p] = vault[p] \/ Alert'
      <3>1. CASE ListNotes
        <4>1. scan'.todo = Notes(vault) /\ seen' = Listed(vault)
          BY <1>0, <3>1 DEF ListNotes, Scan
        <4> QED
          BY <2>2, <4>1 DEF Listed, Notes
      <3>2. ASSUME NEW q \in Path, ReadNote(q) PROVE seen'[p] = vault[p] \/ Alert'
        <4>1. /\ scan'.todo = scan.todo \ {q} /\ scan'.step = scan.step /\ scan'.kind = scan.kind
              /\ seen' = [seen EXCEPT ![q] = vault[q]] /\ UNCHANGED census
              /\ seen \in [Path -> State]
          BY <1>0, <3>2 DEF ReadNote, Scan, TypeOK
        <4>2. HasRead
          BY <2>2, <4>1 DEF HasRead
        <4>3. Alert => Alert'
          BY <2>0, <2>2, <3>2 DEF ListNotes, ReadNote
        <4> QED
          BY <1>g, <2>2, <4>1, <4>2, <4>3
      <3>3. CASE CensusRead
        <4>1. /\ scan'.todo = scan.todo /\ scan.step = "read" /\ scan.kind = "census" /\ UNCHANGED seen
          BY <1>0, <3>3 DEF CensusRead, Scan
        <4>2. HasRead /\ (Alert => Alert')
          BY <2>0, <2>2, <3>3, <4>1 DEF HasRead, ListNotes, CensusRead
        <4> QED
          BY <1>g, <2>2, <4>1, <4>2
      <3>4. CASE BackendReady \/ RecordEvent \/ DebounceOver
        <4>1. UNCHANGED <<scan, seen, census>>
          BY <3>4 DEF BackendReady, RecordEvent, DebounceOver
        <4>2. HasRead
          BY <2>2, <4>1 DEF HasRead
        <4>3. Alert => Alert'
          <5>1. ListNotes => scan'.step = "read" /\ scan.step = "list"
            BY <1>0 DEF ListNotes, Scan
          <5> QED
            BY <2>0, <2>2, <4>1, <5>1
        <4> QED
          BY <1>g, <2>2, <4>1, <4>2, <4>3
      <3>5. CASE StartFlush \/ FinishBufferedStart
        <4>1. scan'.kind = "none" \/ scan'.step = "list"
          BY <1>n, <3>5 DEF StartFlush, FinishBufferedStart, NoScan
        <4> QED
          BY <2>2, <4>1 DEF HasRead
      <3> QED
        BY <1>4, <3>1, <3>2, <3>3, <3>4, <3>5 DEF Watcher
    <2> QED
      BY <1>g, <2>0, <2>1, <2>2 DEF Fresh
  <1> QED
    BY <1>1, <1>2, <1>3, <1>4

\* The watcher forgets no note.
LEMMA WatcherCaught ==
  ASSUME TypeOK, Placed, CensusFirst, Fresh, Caught, Watcher, Accounted
  PROVE  Caught'
  <1> USE DEF pass
  <1>a. /\ Intact' => Intact /\ ~GivesUp
        /\ lost' = {} => lost = {}
    BY Accounting
  <1> SUFFICES ASSUME Following' PROVE Caught'
    BY NotFollowing
  <1>0. watch \in Watch /\ Flags
    BY DEF TypeOK, Placed
  <1>d. census = "degraded" => census' = "degraded"
    BY <1>0 DEF Watcher, BackendReady, RecordEvent, BackendError, DebounceOver, StartFlush, ListNotes,
           ReadNote, ScanFails, CensusRead, Compare, ScanOver, FinishBufferedStart, Flags
  <1>f. Following /\ ~GivesUp
    BY <1>a, <1>d DEF Following
  <1>q. \A p : (Reread(p) => Reread(p)') /\ Prospect(p)' = Prospect(p)
    BY WatcherQueues, QueueServes
  <1>r. \A o \in {"scan", "error"} :
          jobs' = Append(jobs, Rescan(o, Path)) => \A p \in Path : Reread(p)'
    <2> SUFFICES ASSUME NEW o \in {"scan", "error"}, jobs' = Append(jobs, Rescan(o, Path)), NEW p \in Path
                 PROVE  Reread(p)'
      OBVIOUS
    <2>1. Rescan(o, Path) \in Queue'
      BY Appending
    <2>2. Rescan(o, Path).owner = o /\ Rescan(o, Path).step = "list" /\ Rescan(o, Path).scope = Path
      BY DEF Rescan
    <2> QED
      BY <2>1, <2>2 DEF Reread, Rereads
  <1>1. CASE BackendError
    <2>1. CASE watch.buffering
      <3>1. Alert' /\ UNCHANGED <<vault, snap, census>>
        BY <1>0, <1>1, <2>1 DEF BackendError, Alert, Watch
      <3> QED
        BY <1>a, <1>d, <1>q, <3>1, StillCaught
    <2>2. CASE ~watch.buffering
      BY <1>1, <1>r, <2>2, AllReread DEF BackendError
    <2> QED
      BY <2>1, <2>2
  <1>2. CASE ScanFails
    BY <1>2, <1>r, AllReread DEF ScanFails, Following
  <1>3. CASE Compare
    <2>1. /\ UNCHANGED <<folder, watch>> /\ snap' = seen /\ scan.todo = {} /\ HasRead
          /\ census # "scanning" /\ census' # "scanning"
          /\ \A p \in Path : Reread(p)' \/ snap[p] = seen[p] \/ (Missing(snap[p]) /\ Missing(seen[p]))
      BY <1>3, <1>f, ComparePosts
    <2>2. UNCHANGED <<vault, notice>> /\ (Alert => Alert')
      BY <2>1 DEF Alert, folder
    <2>3. \A p \in Path : seen[p] = vault[p] \/ Alert'
      BY <1>f, <2>1, <2>2 DEF Fresh
    <2>4. Reported'
      <3> SUFFICES ASSUME NEW p \in Path, ~Missing(seen[p])
                   PROVE  Reread(p)' \/ AtLeast(Prospect(p)', seen[p])
        BY <2>1 DEF Reported, Notes, AtLeast
      <3>1. CASE snap[p] = seen[p]
        BY <1>f, <1>q, <3>1 DEF Caught, Reported, Notes
      <3> QED
        BY <2>1, <3>1
    <2>5. Tracked'
      <3> SUFFICES ASSUME NEW p \in Path PROVE Alert' \/ snap'[p] = vault'[p]
        BY DEF Tracked, Notes
      <3> QED
        BY <2>1, <2>2, <2>3
    <2>6. Gone'
      <3> SUFFICES ASSUME lost' = {}, NEW p \in Path, Missing(vault[p])
                   PROVE  \/ Reread(p)' \/ Missing(Prospect(p)')
                          \/ Alert' /\ ~Missing(seen[p])
        BY <2>1, <2>2 DEF Gone, Notes, Missing
      <3>1. \/ Reread(p) \/ Missing(Prospect(p)) \/ ~Missing(snap[p])
        BY <1>a, <1>f, <2>1 DEF Caught, Gone, Notes
      <3>2. CASE ~Missing(snap[p]) /\ snap[p] = seen[p]
        BY <2>3, <3>2
      <3> QED
        BY <1>q, <2>1, <3>1, <3>2
    <2> QED
      BY <2>4, <2>5, <2>6 DEF Caught
  <1>4. CASE ~BackendError /\ ~ScanFails /\ ~Compare
    <2>1. /\ Alert \/ Scanning => Alert' \/ Scanning'
          /\ UNCHANGED <<vault, snap>>
          /\ census = "scanning" => census' = "scanning"
      BY <1>4, <1>f, StillAlert
    <2> QED
      BY <1>a, <1>d, <1>q, <2>1, StillCaught
  <1> QED
    BY <1>1, <1>2, <1>3, <1>4
-----------------------------------------------------------------------------
(* The jobs serve.                                                         *)

\* A change that is applied makes the index what is in the folder, or what
\* the snapshot says of a note that is gone.
LEMMA AppliesTrue ==
  ASSUME TypeOK, Placed, Holds("apply"), NEW c \in Running.changes, ApplyChange(c), ~GivesUp
  PROVE  /\ c.path \in Path
         /\ \/ idx' = [idx EXCEPT ![c.path] = vault[c.path]]
            \/ /\ idx' = [idx EXCEPT ![c.path] = snap[c.path]] /\ Missing(snap[c.path])
               /\ Running.owner = "scan" /\ c.to = snap[c.path]
  <1>1. Running \in Queue /\ Running \in Job /\ Owned /\ Running.step = "apply"
    BY QueueSplit DEF Holds, Placed
  <1>2. c.path \in Path
    BY <1>1 DEF Job, Change
  <1>3. CASE ~Missing(c.to)
    BY <1>2, <1>3 DEF ApplyChange, Applied
  <1>4. CASE Missing(c.to) /\ Running.owner = "save"
    <2>1. vault[c.path] = c.to
      BY <1>4 DEF GivesUp
    <2> QED
      BY <1>2, <1>4, <2>1 DEF ApplyChange, Applied
  <1>5. CASE Missing(c.to) /\ Running.owner = "scan"
    <2>1. c.to = snap[c.path]
      BY <1>1, <1>5 DEF Owned
    <2> QED
      BY <1>2, <1>5, <2>1 DEF ApplyChange, Applied
  <1>6. Running.owner \in {"save", "scan"}
    BY <1>1 DEF Owned, Job
  <1> QED
    BY <1>3, <1>4, <1>5, <1>6

\* What the jobs read and write was in the folder.
LEMMA JobsPast ==
  ASSUME TypeOK, Placed, AllPast, IndexJobs, Intact' => Intact /\ ~GivesUp
  PROVE  AllPast'
  <1> USE ReadingsPast DEF watcher, folder, pass
  <1> SUFFICES ASSUME Intact' PROVE Past(idx)' /\ Past(seen)' /\ Past(snap)' /\ Past(build.got)'
    BY DEF AllPast
  <1>1. UNCHANGED vault /\ ~GivesUp
    BY DEF IndexJobs, ReconcileSave, InstallCensus, ApplyChange, RefreshFails, BatchApplied,
           ListForRebuild, ReadForRebuild, RebuildFails, Replace
  <1>2. Past(idx) /\ Past(seen) /\ Past(snap) /\ Past(build.got)
    BY DEF AllPast
  <1>e. ASSUME Succeeds \/ Fails PROVE UNCHANGED seen \/ Past(seen')
    BY <1>e DEF Succeeds, Fails, ScanOver
  <1>3. UNCHANGED seen \/ Past(seen')
    BY <1>e DEF IndexJobs, ReconcileSave, InstallCensus, ApplyChange, RefreshFails, BatchApplied,
           ListForRebuild, ReadForRebuild, RebuildFails, Replace
  <1>4. UNCHANGED snap \/ snap' = seen
    BY DEF IndexJobs, ReconcileSave, InstallCensus, ApplyChange, RefreshFails, BatchApplied,
           ListForRebuild, ReadForRebuild, RebuildFails, Replace
  <1>5. UNCHANGED build.got \/ Past(build.got')
    <2>1. Past(NoBuild.got)
      BY DEF NoBuild
    <2>2. ASSUME NEW p \in Path, ReadForRebuild(p) PROVE Past(build.got')
      BY <1>2, <2>2 DEF ReadForRebuild, TypeOK, Build
    <2>3. CASE ListForRebuild
      BY <2>3 DEF ListForRebuild
    <2>4. CASE RebuildFails \/ Replace
      BY <2>1, <2>4 DEF RebuildFails, Replace
    <2>5. CASE ReconcileSave \/ InstallCensus \/ RefreshFails \/ BatchApplied
               \/ \E c \in Running.changes : ApplyChange(c)
      BY <2>5 DEF ReconcileSave, InstallCensus, RefreshFails, BatchApplied, ApplyChange
    <2> QED
      BY <2>2, <2>3, <2>4, <2>5 DEF IndexJobs
  <1>6. UNCHANGED idx \/ Past(idx')
    <2>1. CASE InstallCensus
      BY <1>2, <2>1 DEF InstallCensus
    <2>2. ASSUME Holds("apply"), NEW c \in Running.changes, ApplyChange(c) PROVE Past(idx')
      <3>1. /\ c.path \in Path
            /\ \/ idx' = [idx EXCEPT ![c.path] = vault[c.path]]
               \/ idx' = [idx EXCEPT ![c.path] = snap[c.path]]
        BY <1>1, <2>2, AppliesTrue
      <3> QED
        BY <1>2, <3>1 DEF Past, AtLeast, TypeOK
    <2>3. CASE Replace
      BY <1>2, <2>3 DEF Replace, Rebuilt, Past
    <2>4. CASE ReconcileSave \/ RefreshFails \/ BatchApplied \/ ListForRebuild \/ RebuildFails
               \/ \E p \in Path : ReadForRebuild(p)
      BY <2>4 DEF ReconcileSave, RefreshFails, BatchApplied, ListForRebuild, RebuildFails,
                  ReadForRebuild
    <2> QED
      BY <2>1, <2>2, <2>3, <2>4 DEF IndexJobs
  <1> QED
    BY <1>1, <1>2, <1>3, <1>4, <1>5, <1>6 DEF Past

\* A rebuild is over, or not begun: the index is all there is.
LEMMA NobodyReads ==
  /\ ~Holds("read") => \A p : Prospect(p) = idx[p]
  /\ ~Holds("read")' => \A p : Prospect(p)' = idx'[p]
  BY DEF Prospect, Copied

\* The jobs behind the first go on as they were.
LEMMA RestServes ==
  ASSUME TypeOK, OneReader, OneScan, jobs # <<>>
  PROVE  \A p : \A j \in Rest : Rereads(j, p)' <=> Rereads(j, p)
  BY RestWaits DEF Rereads

\* What the end of a job leaves to others, when it is not the end of a read
\* that fails for good.
LEMMA EndsServe ==
  ASSUME TypeOK, OneReader, OneScan, jobs # <<>>, jobs' = Tail(jobs),
         \A p : ~Rereads(Running, p)
  PROVE  ~Holds("read")' /\ \A p : Reread(p)' <=> Reread(p)
  <1>1. Queue' = Rest /\ (jobs' # <<>> => Running' \in Rest) /\ Queue = Rest \cup {Running}
    BY Ending, QueueSplit
  <1>2. ~Holds("read")'
    BY <1>1, RestWaits DEF Holds, Running
  <1>3. \A p : Reread(p)' <=> Reread(p)
    BY <1>1, RestServes DEF Reread
  <1> QED
    BY <1>2, <1>3

\* After a step of the jobs a note will be read again, or is as it was when
\* nobody was due to read it, or the index has what the folder or, for a note
\* that is gone, the snapshot has.
LEMMA JobsServe ==
  ASSUME TypeOK, OneReader, Placed, Fresh, Following, IndexJobs, ~InstallCensus, ~GivesUp,
         census' # "degraded"
  PROVE  \A p \in Path :
           \/ Reread(p)'
           \/ Prospect(p)' = vault[p]
           \/ Prospect(p)' = snap[p] /\ Missing(snap[p]) /\ (vault[p] = snap[p] \/ Alert)
           \/ ~Reread(p) /\ Prospect(p)' = Prospect(p)
  <1> USE DEF watcher, folder, pass
  <1> DEFINE Served(p) ==
        \/ Reread(p)'
        \/ Prospect(p)' = vault[p]
        \/ Prospect(p)' = snap[p] /\ Missing(snap[p]) /\ (vault[p] = snap[p] \/ Alert)
        \/ ~Reread(p) /\ Prospect(p)' = Prospect(p)
  <1>0. /\ OneScan /\ Owned
        /\ (jobs # <<>> => /\ Running \in Job /\ Running \in Queue
                           /\ Queue = Rest \cup {Running} /\ Rest \subseteq Queue)
    BY QueueSplit DEF Placed
  <1>h. \A s \in {"apply", "list"} : Holds(s) => ~Holds("read") /\ jobs # <<>>
    BY DEF Holds
  <1>r. \A p \in Path, o \in {"scan", "error"} : Rescan(o, Path) \in Queue' => Reread(p)'
    <2>1. \A o : Rescan(o, Path).owner = o /\ Rescan(o, Path).step = "list" /\ Rescan(o, Path).scope = Path
      BY DEF Rescan
    <2> QED
      BY <2>1 DEF Reread, Rereads
  <1>1. CASE ReconcileSave
    <2>1. [owner |-> "save", step |-> "apply", changes |-> saving.changes, scope |-> {}].step # "read"
      OBVIOUS
    <2>2. \A p : (Reread(p) => Reread(p)') /\ Prospect(p)' = Prospect(p)
      BY <1>1, <2>1, QueueServes DEF ReconcileSave
    <2> QED
      BY <2>2
  <1>2. ASSUME Holds("apply"), NEW c \in Running.changes, ApplyChange(c), NEW p \in Path
        PROVE  Served(p)
    <2> DEFINE j == [Running EXCEPT !.changes = Running.changes \ {c}]
    <2>1. j.owner = Running.owner /\ j.step = "apply" /\ j.changes = Running.changes \ {c}
          /\ Running.step = "apply" /\ jobs # <<>> /\ Becomes(j)
      <3>1. Running \in Job /\ Running.step = "apply" /\ jobs # <<>>
        BY <1>0, <1>2 DEF Holds, Running
      <3>2. Becomes(j)
        BY <1>2 DEF ApplyChange
      <3> QED
        BY <3>1, <3>2 DEF Job
    <2> HIDE DEF j
    <2>2. Queue' = Rest \cup {j} /\ Running' = j /\ jobs' # <<>>
      BY <2>1, Becoming
    <2>3. Prospect(p) = idx[p] /\ Prospect(p)' = idx'[p]
      BY <1>2, <1>h, <2>1, <2>2, NobodyReads DEF Holds, Running
    <2>4. /\ c.path \in Path /\ idx \in [Path -> State]
          /\ \/ idx' = [idx EXCEPT ![c.path] = vault[c.path]]
             \/ /\ idx' = [idx EXCEPT ![c.path] = snap[c.path]] /\ Missing(snap[c.path])
                /\ Running.owner = "scan" /\ c.to = snap[c.path]
      BY <1>2, AppliesTrue DEF TypeOK
    <2>5. CASE p = c.path
      <3>1. Running.owner = "scan" => c.to = vault[c.path] \/ Alert
        BY <1>0, <1>2, <2>1 DEF Fresh
      <3> QED
        BY <2>3, <2>4, <2>5, <3>1
    <2>6. CASE p # c.path
      <3>1. idx'[p] = idx[p]
        BY <2>4, <2>6
      <3>2. Reread(p) => Reread(p)'
        <4> SUFFICES ASSUME NEW i \in Queue, Rereads(i, p) PROVE Reread(p)'
          BY DEF Reread
        <4>1. CASE i \in Rest
          BY <1>0, <2>1, <2>2, <4>1, RestServes DEF Reread
        <4>2. CASE i = Running
          <5>1. PICK d \in Running.changes : d.path = p
            BY <2>1, <4>2 DEF Rereads
          <5>2. PICK k \in Queue' : k = j
            BY <2>2
          <5>3. d \in k.changes /\ k.owner \in {"scan", "error"} /\ k.step = "apply"
            BY <2>1, <2>6, <4>2, <5>1, <5>2 DEF Rereads
          <5> QED
            BY <5>1, <5>3 DEF Reread, Rereads
        <4> QED
          BY <1>0, <2>1, <4>1, <4>2
      <3> QED
        BY <2>3, <3>1, <3>2
    <2> QED
      BY <2>5, <2>6
  <1>3. CASE RefreshFails
    <2>1. CASE Running.owner = "scan"
      <3>1. Rescan("scan", Path) \in Queue'
        BY <1>3, <2>1, Becoming DEF RefreshFails, Holds
      <3> QED
        BY <1>r, <3>1
    <2>2. CASE Running.owner # "scan"
      <3>1. jobs' = Tail(jobs) /\ jobs # <<>> /\ UNCHANGED idx /\ Holds("apply") /\ Running.step = "apply"
        BY <1>3, <2>2 DEF RefreshFails, Fails, Holds, Running
      <3>2. \A p : ~Rereads(Running, p)
        BY <1>0, <2>2, <3>1 DEF Owned, Rereads
      <3> QED
        BY <1>0, <1>h, <3>1, <3>2, EndsServe, NobodyReads
    <2> QED
      BY <2>1, <2>2
  <1>4. CASE BatchApplied
    <2>1. /\ jobs' = Tail(jobs) /\ jobs # <<>> /\ UNCHANGED idx /\ Holds("apply") /\ Running.step = "apply"
          /\ Running.changes = {}
      BY <1>4 DEF BatchApplied, Succeeds, Holds, Running
    <2>2. \A p : ~Rereads(Running, p)
      BY <2>1 DEF Rereads
    <2> QED
      BY <1>0, <1>h, <2>1, <2>2, EndsServe, NobodyReads
  <1>5. ASSUME ListForRebuild, NEW p \in Path PROVE Served(p)
    <2> DEFINE j == [Running EXCEPT !.step = "read"]
    <2>1. /\ j.owner = Running.owner /\ j.step = "read" /\ j.scope = Running.scope
          /\ Holds("list") /\ Running.step = "list" /\ jobs # <<>> /\ Becomes(j) /\ UNCHANGED idx
          /\ build' = [todo |-> Notes(vault) \cap Running.scope, got |-> Listed(vault)]
      <3>1. Running \in Job /\ Running.step = "list" /\ jobs # <<>>
        BY <1>0, <1>5 DEF ListForRebuild, Holds, Running
      <3>2. Becomes(j) /\ UNCHANGED idx /\ Holds("list")
            /\ build' = [todo |-> Notes(vault) \cap Running.scope, got |-> Listed(vault)]
        BY <1>5 DEF ListForRebuild
      <3> QED
        BY <3>1, <3>2 DEF Job
    <2>2. Running.owner \in {"scan", "error"}
      BY <1>0, <2>1 DEF Owned, Job
    <2> HIDE DEF j
    <2>3. Queue' = Rest \cup {j} /\ Running' = j /\ jobs' # <<>>
      BY <2>1, Becoming
    <2>4. build'.todo = Notes(vault) \cap Running.scope /\ build'.got = Listed(vault)
      BY <2>1
    <2>5. CASE p \in Running.scope /\ p \in Notes(vault)
      <3>1. PICK i \in Queue' : i = j
        BY <2>3
      <3>2. Rereads(i, p)'
        BY <2>1, <2>2, <2>4, <2>5, <3>1 DEF Rereads
      <3> QED
        BY <3>2 DEF Reread
    <2>6. CASE p \in Running.scope /\ p \notin Notes(vault)
      <3>1. Copied(p)'
        BY <2>1, <2>3, <2>4, <2>6 DEF Copied, Holds, Running
      <3>2. Prospect(p)' = vault[p]
        BY <2>4, <2>6, <3>1 DEF Prospect, Listed, Notes
      <3> QED
        BY <3>2
    <2>7. CASE p \notin Running.scope
      <3>1. ~Copied(p)' /\ ~Copied(p)
        BY <2>1, <2>3, <2>7 DEF Copied, Running
      <3>2. Prospect(p)' = Prospect(p)
        BY <2>1, <3>1 DEF Prospect
      <3>3. ~Rereads(Running, p)
        BY <2>1, <2>7 DEF Rereads
      <3>4. Reread(p) => Reread(p)'
        BY <1>0, <2>1, <2>3, <3>3, RestServes DEF Reread
      <3> QED
        BY <3>2, <3>4
    <2> QED
      BY <2>5, <2>6, <2>7
  <1>6. ASSUME NEW q \in Path, ReadForRebuild(q), NEW p \in Path PROVE Served(p)
    <2>1. /\ UNCHANGED <<idx, jobs>> /\ build'.todo = build.todo \ {q}
          /\ build'.got = [build.got EXCEPT ![q] = vault[q]] /\ build.got \in [Path -> State]
          /\ Holds("read")
      BY <1>6 DEF ReadForRebuild, TypeOK, Build
    <2>2. CASE p = q /\ p \in Running.scope
      <3>1. Copied(p)'
        BY <2>1, <2>2 DEF Copied, Holds, Running
      <3> QED
        BY <2>1, <2>2, <3>1 DEF Prospect
    <2>3. CASE p # q \/ p \notin Running.scope
      <3>1. Copied(p)' <=> Copied(p)
        BY <2>1, <2>3 DEF Copied, Holds, Running
      <3>2. Prospect(p)' = Prospect(p)
        BY <2>1, <2>3, <3>1 DEF Prospect, Copied
      <3>3. Reread(p) => Reread(p)'
        <4>1. \A j \in Queue : Rereads(j, p) => Rereads(j, p)'
          <5> SUFFICES ASSUME NEW j \in Queue, Rereads(j, p) PROVE Rereads(j, p)'
            OBVIOUS
          <5>1. CASE j.step # "read"
            BY <5>1 DEF Rereads
          <5>2. CASE j.step = "read"
            <6>1. j = Running
              BY <1>0, <2>1, <5>2, RestWaits DEF Holds
            <6> QED
              BY <2>1, <2>3, <5>2, <6>1 DEF Rereads
          <5> QED
            BY <5>1, <5>2
        <4>2. Queue' = Queue
          BY <2>1 DEF Queue
        <4> QED
          BY <4>1, <4>2 DEF Reread
      <3> QED
        BY <3>2, <3>3
    <2> QED
      BY <2>2, <2>3
  <1>7. CASE RebuildFails
    <2>1. /\ Holds("read") /\ Fails /\ jobs # <<>> /\ Running.owner # "error" /\ scan.step # "retry"
          /\ Running.step = "read"
      <3>1. Holds("read") /\ Fails
        BY <1>7 DEF RebuildFails
      <3>2. Running.owner # "error" /\ scan.step # "retry"
        BY <1>7 DEF GivesUp
      <3> QED
        BY <3>1, <3>2 DEF Holds, Running
    <2>2. Running.owner = "scan"
      BY <1>0, <2>1 DEF Owned, Job
    <2>3. jobs' = Append(Tail(jobs), Rescan("scan", Path))
      BY <2>1, <2>2 DEF Fails
    <2>4. Rescan("scan", Path) \in Queue'
      <3>1. Queue' = Rest \cup {Rescan("scan", Path)}
        BY <2>1, <2>3, Requeueing, Zenon
      <3> QED
        BY <3>1
    <2> QED
      BY <1>r, <2>4
  <1>8. CASE Replace
    <2>1. /\ Holds("read") /\ jobs # <<>> /\ jobs' = Tail(jobs) /\ build.todo = {} /\ idx' = Rebuilt
          /\ Running.step = "read"
      BY <1>8 DEF Replace, Succeeds, Holds, Running
    <2>2. \A p : ~Rereads(Running, p)
      BY <2>1 DEF Rereads
    <2>3. ~Holds("read")' /\ \A p : Reread(p)' <=> Reread(p)
      BY <1>0, <2>1, <2>2, EndsServe
    <2>4. \A p \in Path : Prospect(p)' = Prospect(p)
      BY <2>1, <2>3, NobodyReads DEF Prospect, Copied, Rebuilt
    <2> QED
      BY <2>3, <2>4
  <1> QED
    BY <1>1, <1>2, <1>3, <1>4, <1>5, <1>6, <1>7, <1>8 DEF IndexJobs

\* A job that ends, and the scan it may belong to, say nothing that is not so.
LEMMA EndsFresh ==
  ASSUME TypeOK, Placed, OneReader, Fresh, jobs # <<>>, Succeeds \/ Fails,
         UNCHANGED <<vault, notice, watch>>, Intact' => Intact
  PROVE  Fresh'
  <1> USE DEF pass
  <1>0. Owned /\ OneScan /\ Running \in Queue /\ Rest \subseteq Queue /\ scan \in Scan
    BY QueueSplit DEF Placed, TypeOK
  <1>n. NoScan.kind = "none"
    BY DEF NoScan
  <1>1. CASE Running.owner # "scan"
    <2>1. jobs' = Tail(jobs) /\ UNCHANGED <<scan, seen, census>>
      BY <1>1 DEF Succeeds, Fails
    <2>2. Queue' = Rest
      BY <2>1, Ending, Zenon
    <2>3. (HasRead' => HasRead) /\ (Alert => Alert') /\ (Following' => Following)
      BY <2>1 DEF HasRead, Alert, Following
    <2> QED
      BY <1>0, <2>1, <2>2, <2>3 DEF Fresh
  <1>2. CASE Running.owner = "scan"
    <2>1. \A j \in Rest : j.owner # "scan"
      BY <1>0, <1>2, RestWaits
    <2>2. \A j \in Queue' : j \in Rest \/ j.step = "list"
      <3>1. CASE jobs' = Tail(jobs)
        <4>1. Queue' = Rest
          BY <3>1, Ending, Zenon
        <4> QED
          BY <4>1
      <3>2. CASE jobs' = Append(Tail(jobs), Rescan("scan", Path))
        <4>1. Queue' = Rest \cup {Rescan("scan", Path)}
          BY <3>2, Requeueing, Zenon
        <4>2. Rescan("scan", Path).step = "list"
          BY DEF Rescan
        <4> QED
          BY <4>1, <4>2
      <3> QED
        BY <1>2, <3>1, <3>2 DEF Succeeds, Fails
    <2>3. ~HasRead'
      BY <1>0, <1>2, <1>n DEF Succeeds, Fails, ScanOver, HasRead, Scan
    <2> QED
      BY <2>1, <2>2, <2>3 DEF Fresh
  <1> QED
    BY <1>1, <1>2

\* The jobs leave what was read, and what was sent, true.
LEMMA JobsFresh ==
  ASSUME TypeOK, Placed, CensusFirst, OneReader, Fresh, IndexJobs, Intact' => Intact
  PROVE  Fresh'
  <1> USE DEF watcher, folder, pass
  <1>0. /\ Owned /\ Rest \subseteq Queue
        /\ (jobs # <<>> => Running \in Job /\ Running \in Queue /\ Running = jobs[1] /\ 1 \in DOMAIN jobs)
    BY QueueSplit DEF Placed
  <1>q. ASSUME UNCHANGED <<vault, notice, watch, scan, seen, census>>,
               \A j \in Queue' : j.owner = "scan" /\ j.step = "apply" =>
                 \E i \in Queue : i.owner = "scan" /\ i.step = "apply" /\ j.changes \subseteq i.changes
        PROVE  Fresh'
    <2>1. (HasRead' => HasRead) /\ (Alert => Alert') /\ (Following' => Following)
      BY <1>q DEF HasRead, Alert, Following
    <2> SUFFICES ASSUME Following' PROVE Fresh'
      BY DEF Fresh
    <2>2. \A j \in Queue : j.owner = "scan" /\ j.step = "apply" =>
            \A c \in j.changes : c.to = vault[c.path] \/ Alert
      BY <2>1 DEF Fresh
    <2>3. \A j \in Queue' : j.owner = "scan" /\ j.step = "apply" =>
            \A c \in j.changes : c.to = vault'[c.path] \/ Alert'
      BY <1>q, <2>1, <2>2
    <2>4. HasRead' => \A p \in Path \ scan'.todo : seen'[p] = vault'[p] \/ Alert'
      BY <1>q, <2>1 DEF Fresh
    <2> QED
      BY <2>3, <2>4 DEF Fresh
  <1>b. ASSUME jobs # <<>>, NEW j, Becomes(j), UNCHANGED <<vault, notice, watch, scan, seen, census>>,
               j.step = "apply" =>
                 j.owner = Running.owner /\ Running.step = "apply" /\ j.changes \subseteq Running.changes
        PROVE  Fresh'
    <2>1. Queue' = Rest \cup {j}
      BY <1>b, Becoming
    <2> QED
      BY <1>0, <1>b, <1>q, <2>1
  <1>1. CASE ReconcileSave
    <2> DEFINE j == [owner |-> "save", step |-> "apply", changes |-> saving.changes, scope |-> {}]
    <2>1. /\ j.owner = "save" /\ jobs' = Append(jobs, j)
          /\ UNCHANGED <<vault, notice, watch, scan, seen, census>>
      BY <1>1 DEF ReconcileSave
    <2> HIDE DEF j
    <2>2. Queue' = Queue \cup {j}
      BY <2>1, Appending
    <2> QED
      BY <1>q, <2>1, <2>2
  <1>2. CASE InstallCensus
    <2>1. jobs # <<>> /\ jobs' = Tail(jobs) /\ jobs[1].step = "install" /\ census' = "reconciling"
          /\ UNCHANGED scan
      BY <1>0, <1>2 DEF InstallCensus, Holds, Running
    <2>2. scan.step = "sent" /\ \A k \in DOMAIN jobs : jobs[k].owner # "scan"
      BY <1>0, <2>1 DEF CensusFirst
    <2>3. Queue' = Rest
      BY <2>1, Ending, Zenon
    <2>4. ~HasRead' /\ \A j \in Queue' : j.owner # "scan"
      BY <1>0, <2>1, <2>2, <2>3 DEF HasRead, Queue
    <2> QED
      BY <2>4 DEF Fresh
  <1>3. ASSUME Holds("apply"), NEW c \in Running.changes, ApplyChange(c) PROVE Fresh'
    <2> DEFINE j == [Running EXCEPT !.changes = Running.changes \ {c}]
    <2>1. Running \in Job /\ Running.step = "apply" /\ jobs # <<>>
      BY <1>0, <1>3 DEF Holds, Running
    <2>2. j.owner = Running.owner /\ j.changes \subseteq Running.changes
      BY <2>1 DEF Job
    <2>3. Becomes(j) /\ UNCHANGED <<vault, notice, watch, scan, seen, census>>
      BY <1>3 DEF ApplyChange
    <2> HIDE DEF j
    <2> QED
      BY <1>b, <2>1, <2>2, <2>3
  <1>4. CASE RefreshFails
    <2>0. jobs # <<>> /\ UNCHANGED <<vault, notice, watch>>
      BY <1>4 DEF RefreshFails, Holds
    <2>1. CASE Running.owner = "scan"
      <3>1. Becomes(Rescan("scan", Path)) /\ UNCHANGED <<scan, seen, census>>
        BY <1>4, <2>1 DEF RefreshFails
      <3>2. Rescan("scan", Path).step = "list"
        BY DEF Rescan
      <3> QED
        BY <1>b, <2>0, <3>1, <3>2
    <2>2. CASE Running.owner # "scan"
      BY <1>4, <2>0, <2>2, EndsFresh DEF RefreshFails
    <2> QED
      BY <2>1, <2>2
  <1>5. CASE BatchApplied
    BY <1>5, EndsFresh DEF BatchApplied, Holds
  <1>6. CASE ListForRebuild
    <2> DEFINE j == [Running EXCEPT !.step = "read"]
    <2>1. Running \in Job /\ jobs # <<>>
      BY <1>0, <1>6 DEF ListForRebuild, Holds
    <2>2. j.step = "read"
      BY <2>1 DEF Job
    <2>3. Becomes(j) /\ UNCHANGED <<vault, notice, watch, scan, seen, census>>
      BY <1>6 DEF ListForRebuild
    <2> HIDE DEF j
    <2> QED
      BY <1>b, <2>1, <2>2, <2>3
  <1>7. CASE \E p \in Path : ReadForRebuild(p)
    <2>1. UNCHANGED <<vault, notice, watch, scan, seen, census, jobs>>
      BY <1>7 DEF ReadForRebuild
    <2>2. Queue' = Queue
      BY <2>1 DEF Queue
    <2> QED
      BY <1>q, <2>1, <2>2
  <1>8. CASE RebuildFails
    BY <1>8, EndsFresh DEF RebuildFails, Holds
  <1>9. CASE Replace
    BY <1>9, EndsFresh DEF Replace, Holds
  <1> QED
    BY <1>1, <1>2, <1>3, <1>4, <1>5, <1>6, <1>7, <1>8, <1>9 DEF IndexJobs

\* Apart from the census no job changes who is due to look.
LEMMA JobsStand ==
  ASSUME TypeOK, Placed, IndexJobs, ~InstallCensus, census' # "degraded"
  PROVE  /\ UNCHANGED <<vault, snap>> /\ (Alert' <=> Alert) /\ (Scanning' <=> Scanning)
         /\ (census' = "scanning" <=> census = "scanning") /\ census # "degraded"
  <1> USE DEF watcher, folder, pass
  <1>0. /\ Owned /\ Flags /\ scan \in Scan /\ (jobs # <<>> => Running \in Queue)
    BY QueueSplit DEF Placed, TypeOK
  <1>n. NoScan.kind = "none"
    BY DEF NoScan
  <1>e. ASSUME jobs # <<>>, Succeeds \/ Fails
        PROVE  /\ (Scanning' <=> Scanning) /\ (census' = "scanning" <=> census = "scanning")
               /\ census # "degraded"
    <2>1. CASE Running.owner # "scan"
      BY <1>e, <2>1 DEF Succeeds, Fails, Scanning
    <2>2. CASE Running.owner = "scan"
      <3>1. scan.kind \in {"startup", "flush"} /\ scan.step \in {"sent", "retry"}
        BY <1>0, <1>e, <2>2 DEF Owned
      <3>2. census # "scanning" /\ (scan.kind = "startup" => census = "reconciling")
        BY <1>0, <3>1 DEF Flags
      <3>3. census' = census \/ (scan.kind = "startup" /\ census' = "current")
        BY <1>e, <2>2 DEF Succeeds, Fails, ScanOver
      <3>4. ~Scanning'
        <4>1. scan'.kind = "none" \/ scan'.step = "retry"
          BY <1>0, <1>e, <1>n, <2>2 DEF Succeeds, Fails, ScanOver, Scan
        <4> QED
          BY <3>2, <3>3, <4>1 DEF Scanning
      <3> QED
        BY <3>1, <3>2, <3>3, <3>4 DEF Scanning
    <2> QED
      BY <2>1, <2>2
  <1>1. UNCHANGED <<vault, snap, notice, watch>>
    BY DEF IndexJobs, ReconcileSave, ApplyChange, RefreshFails, BatchApplied,
           ListForRebuild, ReadForRebuild, RebuildFails, Replace
  <1>2. /\ (Scanning' <=> Scanning) /\ (census' = "scanning" <=> census = "scanning")
        /\ census # "degraded"
    <2>1. CASE ReconcileSave \/ ListForRebuild \/ (\E p \in Path : ReadForRebuild(p))
               \/ (\E c \in Running.changes : ApplyChange(c))
               \/ (RefreshFails /\ Running.owner = "scan")
      <3>1. UNCHANGED <<scan, census>>
        BY <2>1 DEF ReconcileSave, ListForRebuild, ReadForRebuild, ApplyChange, RefreshFails
      <3> QED
        BY <3>1 DEF Scanning
    <2>2. CASE BatchApplied \/ RebuildFails \/ Replace \/ (RefreshFails /\ Running.owner # "scan")
      BY <1>e, <2>2 DEF BatchApplied, RebuildFails, Replace, RefreshFails, Holds
    <2> QED
      BY <2>1, <2>2 DEF IndexJobs
  <1> QED
    BY <1>1, <1>2 DEF Alert

\* The jobs forget no note.
LEMMA JobsCaught ==
  ASSUME TypeOK, Ordered, Kept, IndexJobs, Accounted
  PROVE  Caught'
  <1> USE DEF watcher, folder, pass
  <1>a. /\ Intact' => Intact /\ ~GivesUp
        /\ lost' = {} => lost = {}
    BY Accounting
  <1>0. OneReader /\ CensusFirst /\ Placed /\ Fresh /\ Caught /\ Owned /\ Flags
    BY DEF Ordered, Kept, Placed
  <1> SUFFICES ASSUME Following' PROVE Caught'
    BY NotFollowing
  <1>1. CASE InstallCensus
    <2>1. /\ jobs # <<>> /\ jobs' = Tail(jobs) /\ jobs[1].step = "install" /\ 1 \in DOMAIN jobs
          /\ idx' = seen /\ snap' = seen /\ census' = "reconciling"
          /\ watch' = [watch EXCEPT !.catchUp = watch.catchUp \/ ~watch.ready]
          /\ UNCHANGED <<vault, notice, scan>>
      BY <1>1, QueueSplit DEF InstallCensus, Holds, Running
    <2>2. scan.kind = "census" /\ scan.step = "sent" /\ census = "scanning" /\ scan.todo = {}
      BY <1>0, <2>1 DEF CensusFirst, Flags
    <2>3. ~Holds("read")'
      <3>1. jobs' # <<>> => Running' \in Rest
        BY <2>1, Ending, Zenon
      <3> QED
        BY <1>0, <2>1, <3>1, RestWaits DEF Holds, Running, Placed
    <2>4. \A p : Prospect(p)' = seen[p]
      BY <2>1, <2>3, NobodyReads
    <2>5. Following /\ HasRead
      BY <1>a, <2>2 DEF Following, HasRead
    <2>6. \A p \in Path : seen[p] = vault[p] \/ Alert
      BY <1>0, <2>2, <2>5 DEF Fresh
    <2>7. Alert => Alert'
      BY <2>1, <2>2 DEF Alert, Watch, TypeOK
    <2>8. Reported'
      BY <2>1, <2>4 DEF Reported, AtLeast, Notes
    <2>9. Tracked'
      BY <2>1, <2>6, <2>7 DEF Tracked, Notes
    <2>10. Gone'
      BY <2>1, <2>4, <2>6, <2>7 DEF Gone, Notes, Missing
    <2> QED
      BY <2>8, <2>9, <2>10 DEF Caught
  <1>2. CASE ~InstallCensus
    <2>1. /\ UNCHANGED <<vault, snap>> /\ (Alert' <=> Alert) /\ (Scanning' <=> Scanning)
          /\ (census' = "scanning" <=> census = "scanning") /\ Following /\ ~GivesUp
      BY <1>0, <1>2, <1>a, JobsStand DEF Following
    <2>2. \A p \in Path :
            \/ Reread(p)'
            \/ Prospect(p)' = vault[p]
            \/ Prospect(p)' = snap[p] /\ Missing(snap[p]) /\ (vault[p] = snap[p] \/ Alert)
            \/ ~Reread(p) /\ Prospect(p)' = Prospect(p)
      BY <1>0, <1>2, <2>1, JobsServe DEF Following
    <2>3. Reported'
      <3> SUFFICES ASSUME NEW p \in Path, ~Missing(snap[p])
                   PROVE  Reread(p)' \/ AtLeast(Prospect(p)', snap[p])
        BY <2>1 DEF Reported, Notes, AtLeast
      <3>1. Reread(p) \/ AtLeast(Prospect(p), snap[p])
        BY <1>0, <2>1 DEF Caught, Reported, Notes
      <3>2. AtLeast(vault[p], snap[p])
        <4>1. snap[p] = Unread[p] \/ AtLeast(vault[p], snap[p])
          BY <2>1 DEF Kept, AllPast, Past, Following
        <4> QED
          BY <4>1 DEF Unread, Missing
      <3> QED
        BY <2>2, <3>1, <3>2
    <2>4. Tracked'
      <3> SUFFICES ASSUME NEW p \in Path, ~Missing(vault[p])
                   PROVE  Alert' \/ Scanning' \/ snap[p] = vault[p] \/ Reread(p)' \/ Prospect(p)' = vault[p]
        BY <2>1 DEF Tracked, Notes
      <3>1. Alert \/ Scanning \/ snap[p] = vault[p] \/ Reread(p) \/ Prospect(p) = vault[p]
        BY <1>0, <2>1 DEF Caught, Tracked, Notes
      <3> QED
        BY <2>1, <2>2, <3>1
    <2>5. Gone'
      <3> SUFFICES ASSUME lost' = {}, NEW p \in Path, Missing(vault[p])
                   PROVE  \/ Reread(p)' \/ Missing(Prospect(p)') \/ census' = "scanning"
                          \/ (Alert' \/ Scanning') /\ ~Missing(snap[p])
        BY <2>1 DEF Gone, Notes, Missing
      <3>1. \/ Reread(p) \/ Missing(Prospect(p)) \/ census = "scanning"
            \/ (Alert \/ Scanning) /\ ~Missing(snap[p])
        BY <1>0, <1>a, <2>1 DEF Caught, Gone, Notes
      <3> QED
        BY <2>1, <2>2, <3>1
    <2> QED
      BY <2>3, <2>4, <2>5 DEF Caught
  <1> QED
    BY <1>1, <1>2
-----------------------------------------------------------------------------
(* The index keeps up.                                                     *)

\* At first the census is due to look at everything.
LEMMA InitKept == Init => Kept
  <1> SUFFICES ASSUME Init PROVE Kept
    OBVIOUS
  <1>1. /\ jobs = <<>> /\ census = "scanning" /\ scan.kind = "census" /\ scan.step = "list"
        /\ idx = Unread /\ seen = Unread /\ snap = Unread /\ build.got = Unread
        /\ watch.buffering /\ ~watch.catchUp /\ ~watch.startup
    BY DEF Init, NoScan, NoBuild
  <1>2. Placed
    BY <1>1 DEF Placed, Owned, OneScan, Flags, Queue
  <1>3. AllPast
    BY <1>1 DEF AllPast, Past
  <1>4. Fresh
    BY <1>1 DEF Fresh, HasRead, Queue
  <1>5. Reported /\ Tracked /\ Gone
    BY <1>1 DEF Reported, Tracked, Gone, Scanning, Notes, Missing, Unread
  <1> QED
    BY <1>2, <1>3, <1>4, <1>5 DEF Kept, Caught

\* No step loses a change without being one of those that are named.
LEMMA StepKept == TypeOK /\ TypeOK' /\ Ordered /\ Kept /\ [Next]_vars => Kept'
  <1> SUFFICES ASSUME TypeOK, TypeOK', Ordered, Kept, [Next]_vars PROVE Kept'
    OBVIOUS
  <1>0. Readings /\ OneReader /\ CensusFirst /\ Placed /\ AllPast /\ Fresh /\ Caught
    BY DEF Ordered, Kept
  <1>1. CASE UNCHANGED vars
    <2>1. UNCHANGED <<vault, notice, idx, jobs, build, snap, watch, scan, seen, census, lost>>
      BY <1>1 DEF vars, moving, folder, index, watcher, pass
    <2>2. Placed' /\ AllPast' /\ Fresh'
      BY <1>0, <2>1 DEF Placed, Owned, OneScan, Flags, Queue, AllPast, Past, Intact, Fresh, Following,
                        HasRead, Alert
    <2>3. \A p : (Reread(p) => Reread(p)') /\ Prospect(p)' = Prospect(p)
      BY <2>1 DEF Reread, Rereads, Queue, Prospect, Copied, Holds, Running
    <2>4. Caught'
      BY <1>0, <2>1, <2>3, StillCaught DEF Intact, Alert, Scanning
    <2> QED
      BY <2>2, <2>4 DEF Kept
  <1>2. CASE (World \/ Kernel) /\ Accounted
    BY <1>2, FolderKept
  <1>3. CASE Watcher /\ Accounted
    BY <1>0, <1>3, Accounting, WatcherPlaced, WatcherPast, WatcherFresh, WatcherCaught DEF Kept
  <1>4. CASE IndexJobs /\ Accounted
    BY <1>0, <1>4, Accounting, JobsPlaced, JobsPast, JobsFresh, JobsCaught DEF Kept
  <1> QED
    BY <1>1, <1>2, <1>3, <1>4 DEF Next, Accounted

\* What is in the folder, the snapshot and the index is always accounted for.
THEOREM AlwaysKept == Spec => []Kept
  <1>1. Kept /\ TypeOK /\ TypeOK' /\ Ordered /\ [Next]_vars => Kept'
    BY StepKept
  <1> QED
    BY <1>1, InitKept, TypeCorrect, StaysOrdered, PTL DEF Spec

\* When nothing waits nobody will look again, and the index is all there is.
LEMMA AtRest ==
  ASSUME jobs = <<>>
  PROVE  \A p : ~Reread(p) /\ Prospect(p) = idx[p]
  BY DEF Reread, Queue, Prospect, Copied, Holds

\* Nor does anybody when the watcher is at rest.
LEMMA NobodyLooks ==
  ASSUME Kept, Quiet
  PROVE  ~Alert /\ ~Scanning /\ census = "current"
  BY DEF Kept, Placed, Flags, Quiet, Alert, Scanning, NoScan

\* SnapshotReached: what the watcher will not report again has reached the
\* index, or something newer has.
THEOREM SnapshotAlwaysReached == Spec => []SnapshotReached
  <1>1. Kept => SnapshotReached
    BY AtRest DEF Kept, Caught, Reported, SnapshotReached, Following, AtLeast, Notes
  <1> QED
    BY <1>1, AlwaysKept, PTL

\* NotesIndexed: at rest the index has every note of the folder as it is now.
THEOREM AlwaysIndexed == Spec => []NotesIndexed
  <1>1. TypeOK /\ Kept => NotesIndexed
    <2> SUFFICES ASSUME TypeOK, Kept, Quiet, Intact, NEW p \in Notes(vault)
                 PROVE  idx[p] = vault[p]
      BY DEF NotesIndexed
    <2>1. ~Alert /\ ~Scanning /\ Following /\ ~Reread(p) /\ Prospect(p) = idx[p]
      BY NobodyLooks, AtRest DEF Following, Quiet
    <2>2. snap[p] = vault[p] \/ idx[p] = vault[p]
      BY <2>1 DEF Kept, Caught, Tracked
    <2>3. CASE snap[p] = vault[p]
      <3>1. AtLeast(idx[p], vault[p])
        BY <2>1, <2>3 DEF Kept, Caught, Reported, Notes
      <3>2. idx[p] = Unread[p] \/ AtLeast(vault[p], idx[p])
        BY <2>1 DEF Kept, AllPast, Past, Notes
      <3>3. idx[p].stamp \in Nat /\ vault[p].stamp \in Nat
        BY DEF TypeOK, State, Notes
      <3> QED
        BY <3>1, <3>2, <3>3 DEF AtLeast, Unread, Notes, Missing
    <2> QED
      BY <2>2, <2>3
  <1> QED
    BY <1>1, TypeCorrect, AlwaysKept, PTL

\* NoGhostsOnceSeen: at rest the index has no note that is not in the folder,
\* unless a change was given up or a removal missed.
THEOREM NeverGhosts == Spec => []NoGhostsOnceSeen
  <1>1. Kept => NoGhostsOnceSeen
    <2> SUFFICES ASSUME Kept, lost = {}, Quiet PROVE Notes(idx) \subseteq Notes(vault)
      BY DEF NoGhostsOnceSeen, NoGhosts
    <2>1. ~Alert /\ ~Scanning /\ Following /\ census # "scanning"
      BY NobodyLooks DEF Following, Intact
    <2>2. \A p \in Path \ Notes(vault) : Missing(idx[p])
      BY <2>1, AtRest DEF Kept, Caught, Gone, Quiet
    <2> QED
      BY <2>2 DEF Notes
  <1> QED
    BY <1>1, AlwaysKept, PTL
=============================================================================
