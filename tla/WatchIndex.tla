------------------------------ MODULE WatchIndex ------------------------------
(***************************************************************************)
(* How the derived index follows the folder.  NodeVaultWatcher             *)
(* (src/kernel/node-vault-watcher.ts) reduces notifications to a debounced *)
(* timer, scans the folder, compares the scan with its snapshot and hands  *)
(* the difference to the workspace runtime                                 *)
(* (src/application/workspace-runtime.ts), whose index state lock runs one *)
(* mutation of the index at a time: batches and rescans                    *)
(* (VaultIndexReactor.accept), the application's own saves                 *)
(* (reconcileNoteWrite) and the installation of the startup census.        *)
(*                                                                         *)
(* Scans and rebuilds read the folder note by note while other programs    *)
(* change it.  The state of a path is a stamp, new with every change of    *)
(* that path, and the identity of the file there, which a rename keeps.    *)
(* The stamp of a missing note is that of its removal: the code has no     *)
(* equivalent of it and nothing here but the properties looks at it.       *)
(***************************************************************************)
EXTENDS Naturals, Sequences, FiniteSets

CONSTANTS
  Path,      \* paths of notes
  Root,      \* those directly in the vault's root; the others share a directory
  Budgets    \* bounds: what may happen, one record for each kind of story

\* start: the recursive watcher becomes ready before the census lists the
\* vault ("early"), after its index is installed ("late"), or at any time.
\* vacant: how many paths may have no note at first.  The others count notes
\* that other programs create, write, delete, rename and hard-link, the
\* application's own saves, failing reads, and failures of the watcher.
Events == {"create", "write", "delete", "rename", "link", "save", "fault", "overflow"}
Budget == [start : {"early", "late", "any"}, vacant : Nat, count : [Events -> Nat]]

ASSUME Folders == Root \subseteq Path
ASSUME Bounds == Budgets \subseteq Budget

NoFile == <<>>
FileId == {NoFile} \cup Path \X Nat         \* where and when it was created
State  == [stamp : Nat, id : FileId]
Change == [path : Path, to : State]
Job    == [owner : {"census", "scan", "save", "error"},
           step  : {"install", "apply", "list", "read"},
           changes : SUBSET Change, scope : SUBSET Path]

VARIABLES
  vault,     \* the folder
  clock,     \* the last stamp given out
  notice,    \* a notification is on its way to the watcher
  saving,    \* the save the kernel is working on, and the paths it has changed
  idx,       \* for each path the state whose contents the index holds
  jobs,      \* waiting for the index state lock, the one that holds it first
  build,     \* what the running rebuild has still to read, and has read
  snap,      \* #snapshot
  watch,     \* the flags of the watcher
  scan,      \* the scan under way, which holds the flush tail
  seen,      \* what it has read
  census,    \* state of the startup census
  budget,    \* the bounds of this behaviour
  spent,     \* what it has used of them
  lost       \* what the properties remember: changes given up, removals missed

folder == <<vault, clock, notice, saving>>
index == <<idx, jobs, build>>
pass == <<scan, seen>>
watcher == <<snap, watch, pass, census>>
moving == <<folder, index, watcher, spent>>
vars == <<moving, budget, lost>>

Watch  == [ready : BOOLEAN, buffering : BOOLEAN, startup : BOOLEAN, catchUp : BOOLEAN,
           timer : BOOLEAN, waiting : Nat]
Scan   == [kind : {"none", "census", "startup", "flush"},
           step : {"list", "read", "sent", "retry"}, todo : SUBSET Path]
Saving == [path : SUBSET Path, aside : BOOLEAN, found : State, changes : SUBSET Change]
Build  == [todo : SUBSET Path, got : [Path -> State]]

Unread   == [p \in Path |-> [stamp |-> 0, id |-> NoFile]]
NoScan   == [kind |-> "none", step |-> "list", todo |-> {}]
NoSaving == [path |-> {}, aside |-> FALSE, found |-> [stamp |-> 0, id |-> NoFile],
             changes |-> {}]
NoBuild  == [todo |-> {}, got |-> Unread]

Missing(s) == s.id = NoFile
Notes(v) == {p \in Path : ~Missing(v[p])}
Spend(e) == /\ spent[e] < budget.count[e]
            /\ spent' = [spent EXCEPT ![e] = @ + 1]

\* What a listing knows before any note is read.
Listed(v) == [p \in Path |-> IF Missing(v[p]) THEN v[p] ELSE Unread[p]]
-----------------------------------------------------------------------------
(* Snapshots compared.                                                     *)

Left(i, before, after) == {p \in Path : before[p].id = i /\ Missing(after[p])}
Came(i, before, after) == {p \in Path : after[p].id = i /\ Missing(before[p])}

\* The files that left, or came to, more than one path.
Ambiguous(before, after) ==
  {i \in {before[p].id : p \in Notes(before)} :
     LET l == Left(i, before, after)
         c == Came(i, before, after)
     IN l # {} /\ c # {} /\ Cardinality(l) + Cardinality(c) > 2}

\* commonParentDirectory of the paths involved, as the paths to read again.
RescanScope(i, before, after) ==
  IF (Left(i, before, after) \cup Came(i, before, after)) \cap Root = {}
    THEN Path \ Root ELSE Path

\* Mutant: only what the new snapshot holds is compared.
DifferencesOfPresent(before, after) ==
  {[path |-> p, to |-> after[p]] : p \in {q \in Notes(after) : before[q] # after[q]}}

\* Upserts and deletes; a move is the delete of its source and the upsert of
\* its target.
Differences(before, after) ==
  {[path |-> p, to |-> after[p]] :
     p \in {q \in Notes(before) \cup Notes(after) : before[q] # after[q]}}
-----------------------------------------------------------------------------
(* The folder: other programs, and the application's own saves.            *)

Noticed(S) == watch.ready \/ S \cap Root # {}
Now(i) == [stamp |-> clock + 1, id |-> i]
NewFile(p) == Now(<<p, clock + 1>>)

\* The paths in S go to the states f gives them.
Alter(S, f) ==
  /\ vault' = [p \in Path |-> IF p \in S THEN f[p] ELSE vault[p]]
  /\ clock' = clock + 1
  /\ notice' = (notice \/ Noticed(S))

Elsewhere(e) == Spend(e) /\ UNCHANGED <<saving, index, watcher>>

ExtCreate(p) ==
  /\ Elsewhere("create") /\ Missing(vault[p])
  /\ Alter({p}, [q \in {p} |-> NewFile(p)])

\* In place, for every name the file has, or by replacing the file.
ExtWrite(p) ==
  /\ Elsewhere("write") /\ ~Missing(vault[p])
  /\ \/ Alter({p}, [q \in {p} |-> NewFile(p)])
     \/ LET S == {q \in Path : vault[q].id = vault[p].id}
        IN Alter(S, [q \in S |-> Now(vault[p].id)])

ExtDelete(p) ==
  /\ Elsewhere("delete") /\ ~Missing(vault[p])
  /\ Alter({p}, [q \in {p} |-> Now(NoFile)])

ExtRename(p, q) ==
  /\ Elsewhere("rename") /\ p # q /\ ~Missing(vault[p])
  /\ Alter({p, q}, [r \in {p, q} |-> Now(IF r = q THEN vault[p].id ELSE NoFile)])

ExtLink(p, q) ==
  /\ Elsewhere("link") /\ ~Missing(vault[p]) /\ Missing(vault[q])
  /\ Alter({p, q}, [r \in {p, q} |-> Now(vault[p].id)])

\* The kernel takes the note aside, or finds nothing there, or not the
\* version it was told to replace.
SaveBegins(p) ==
  /\ Spend("save")
  /\ saving = NoSaving
  /\ \/ /\ ~Missing(vault[p])
        /\ saving' = [NoSaving EXCEPT !.path = {p}, !.aside = TRUE]
        /\ Alter({p}, [q \in {p} |-> Now(NoFile)])
     \/ /\ saving' = [NoSaving EXCEPT !.path = {p}, !.found = vault[p]]
        /\ UNCHANGED <<vault, clock, notice>>
  /\ UNCHANGED <<index, watcher>>

\* It installs the new text,
SaveInstalls(p) ==
  /\ p \in saving.path /\ Missing(saving.found) /\ Missing(vault[p])
  /\ Alter({p}, [q \in {p} |-> NewFile(p)])
  /\ saving' = [NoSaving EXCEPT !.changes = {[path |-> p, to |-> NewFile(p)]}]
  /\ UNCHANGED <<index, watcher, spent>>

\* or puts back what it took, which was not what it was told to replace,
SaveRestores(p) ==
  /\ p \in saving.path /\ saving.aside /\ Missing(vault[p])
  /\ Alter({p}, [q \in {p} |-> NewFile(p)])
  /\ saving' = [saving EXCEPT !.aside = FALSE, !.found = NewFile(p)]
  /\ UNCHANGED <<index, watcher, spent>>

\* or adds a copy q: what it found was not what it was told to replace, or
\* another program has taken the name since.
SaveConflicts(p, q) ==
  /\ p \in saving.path /\ q # p /\ Missing(vault[q])
  /\ Alter({q}, [r \in {q} |-> NewFile(q)])
  /\ \E now \in {saving.found, vault[p]} :
       /\ Missing(now) => ~saving.aside /\ now = saving.found
       /\ saving' = [NoSaving EXCEPT !.changes = {[path |-> q, to |-> NewFile(q)],
                                                  [path |-> p, to |-> now]}]
  /\ UNCHANGED <<index, watcher, spent>>
-----------------------------------------------------------------------------
(* Notifications.                                                          *)

\* Mutant: the debounce is not armed.
Unscheduled(w) == w

Scheduled(w) == [w EXCEPT !.timer = TRUE]
Rescan(owner, scope) == [owner |-> owner, step |-> "list", changes |-> {}, scope |-> scope]

\* Mutant: nothing is scanned when the backend becomes ready.
ReadyUnscanned(w) == [w EXCEPT !.ready = TRUE, !.catchUp = FALSE]

Ready(w) ==
  IF w.catchUp /\ ~w.buffering
    THEN [Scheduled(w) EXCEPT !.ready = TRUE, !.catchUp = FALSE]
    ELSE [w EXCEPT !.ready = TRUE]

BackendReady ==
  /\ ~watch.ready
  /\ budget.start = "late" => census # "scanning"
  /\ watch' = Ready(watch)
  /\ UNCHANGED <<folder, index, snap, pass, census, spent>>

RecordEvent ==
  /\ notice /\ notice' = FALSE
  /\ watch' = IF watch.buffering THEN [watch EXCEPT !.startup = TRUE] ELSE Scheduled(watch)
  /\ UNCHANGED <<vault, clock, saving, index, snap, pass, census, spent>>

\* The backend reports an error: what it had not reported by then is lost.
BackendError ==
  /\ Spend("overflow") /\ watch.ready
  /\ notice' = FALSE
  /\ IF watch.buffering
       THEN watch' = [watch EXCEPT !.startup = TRUE] /\ UNCHANGED jobs
       ELSE jobs' = Append(jobs, Rescan("error", Path)) /\ UNCHANGED watch
  /\ UNCHANGED <<vault, clock, saving, idx, build, snap, pass, census>>

DebounceOver ==
  /\ watch.timer
  /\ watch' = [watch EXCEPT !.timer = FALSE, !.waiting = @ + 1]
  /\ UNCHANGED <<folder, index, snap, pass, census, spent>>
-----------------------------------------------------------------------------
(* Scans: captureVaultBootstrap and captureVaultSnapshot.                  *)

\* Mutant: it does not wait for a timer.
StartFlushEarly ==
  /\ scan = NoScan /\ ~watch.buffering
  /\ watch' = [watch EXCEPT !.waiting = @ - 1]
  /\ scan' = [NoScan EXCEPT !.kind = "flush"]
  /\ UNCHANGED <<folder, index, snap, seen, census, spent>>

StartFlush ==
  /\ scan = NoScan /\ watch.waiting > 0
  /\ watch' = [watch EXCEPT !.waiting = @ - 1]
  /\ scan' = [NoScan EXCEPT !.kind = "flush"]
  /\ UNCHANGED <<folder, index, snap, seen, census, spent>>

ListNotes ==
  /\ scan.kind # "none" /\ scan.step = "list"
  /\ scan' = [scan EXCEPT !.step = "read", !.todo = Notes(vault)]
  /\ seen' = Listed(vault)
  /\ UNCHANGED <<folder, index, snap, watch, census, spent>>

ReadNote(p) ==
  /\ scan.step = "read" /\ p \in scan.todo
  /\ scan' = [scan EXCEPT !.todo = @ \ {p}]
  /\ seen' = [seen EXCEPT ![p] = vault[p]]
  /\ UNCHANGED <<folder, index, snap, watch, census, spent>>

\* A read throws, or the note goes while it is read.
Throws(todo) == \/ UNCHANGED spent /\ \E p \in todo : Missing(vault[p])
                \/ Spend("fault") /\ todo # {}

\* The census gives up; a later scan asks for a rescan instead.
ScanFails ==
  /\ scan.step = "read" /\ Throws(scan.todo)
  /\ IF scan.kind = "flush"
       THEN /\ scan' = [scan EXCEPT !.step = "retry", !.todo = {}]
            /\ jobs' = Append(jobs, Rescan("scan", Path))
            /\ UNCHANGED census
       ELSE scan' = NoScan /\ census' = "degraded" /\ UNCHANGED jobs
  /\ seen' = Unread
  /\ UNCHANGED <<folder, idx, build, snap, watch>>

CensusRead ==
  /\ scan.kind = "census" /\ scan.step = "read" /\ scan.todo = {}
  /\ scan' = [scan EXCEPT !.step = "sent"]
  /\ jobs' = Append(jobs, [owner |-> "census", step |-> "install", changes |-> {},
                           scope |-> Path])
  /\ UNCHANGED <<folder, idx, build, snap, watch, seen, census, spent>>

\* Nothing is left of this scan; the startup scan was the census' last step.
ScanOver ==
  /\ scan' = NoScan /\ seen' = Unread
  /\ census' = IF scan.kind = "startup" THEN "current" ELSE census

\* scanNow, after the walk.
Compare ==
  /\ scan.kind \in {"startup", "flush"} /\ scan.step = "read" /\ scan.todo = {}
  /\ snap' = seen
  /\ LET found == Differences(snap, seen)
         batch == [owner |-> "scan", step |-> "apply", changes |-> found, scope |-> {}]
         sent  == /\ scan' = [scan EXCEPT !.step = "sent"] /\ seen' = Unread
                  /\ UNCHANGED census
     IN \/ found = {} /\ ScanOver /\ UNCHANGED jobs
        \/ /\ found # {} /\ Ambiguous(snap, seen) = {}
           /\ jobs' = Append(jobs, batch) /\ sent
        \/ \E i \in Ambiguous(snap, seen) :
             jobs' = Append(jobs, Rescan("scan", RescanScope(i, snap, seen))) /\ sent
  /\ UNCHANGED <<folder, idx, build, watch, spent>>
-----------------------------------------------------------------------------
(* The index state lock.                                                   *)

Holds(step) == jobs # <<>> /\ Head(jobs).step = step
Running == Head(jobs)
Becomes(job) == jobs' = [jobs EXCEPT ![1] = job]

\* reconcileNoteWrite queues for the lock when the kernel has answered.
ReconcileSave ==
  /\ saving.changes # {}
  /\ saving' = NoSaving
  /\ jobs' = Append(jobs, [owner |-> "save", step |-> "apply", changes |-> saving.changes,
                           scope |-> {}])
  /\ UNCHANGED <<vault, clock, notice, idx, build, watcher, spent>>

Succeeds ==
  /\ jobs' = Tail(jobs)
  /\ IF Running.owner = "scan" THEN ScanOver ELSE UNCHANGED <<pass, census>>

\* Mutant: a failed batch is dropped.
FailsForGood ==
  /\ jobs' = Tail(jobs)
  /\ IF Running.owner = "scan" THEN ScanOver ELSE UNCHANGED <<pass, census>>

\* The flush that sent a batch answers its failure with one rescan.
Fails ==
  \/ /\ Running.owner # "scan"
     /\ jobs' = Tail(jobs) /\ UNCHANGED <<pass, census>>
  \/ /\ Running.owner = "scan" /\ scan.kind = "startup"
     /\ jobs' = Tail(jobs)
     /\ scan' = NoScan /\ seen' = Unread /\ census' = "degraded"
  \/ /\ Running.owner = "scan" /\ scan.kind = "flush" /\ scan.step = "sent"
     /\ jobs' = Append(Tail(jobs), Rescan("scan", Path))
     /\ scan' = [scan EXCEPT !.step = "retry"] /\ UNCHANGED <<seen, census>>
  \/ /\ Running.owner = "scan" /\ scan.kind = "flush" /\ scan.step = "retry"
     /\ jobs' = Tail(jobs) /\ ScanOver

\* Mutant: the index takes what the scan saw.
AppliedAsScanned(c) == [idx EXCEPT ![c.path] = c.to]

\* One change of a batch: remove, or refresh from what is there by now.
Applied(c) == [idx EXCEPT ![c.path] = IF Missing(c.to) THEN c.to ELSE vault[c.path]]

ApplyChange(c) ==
  /\ Holds("apply") /\ c \in Running.changes
  /\ ~Missing(c.to) => ~Missing(vault[c.path])
  /\ idx' = Applied(c)
  /\ Becomes([Running EXCEPT !.changes = @ \ {c}])
  /\ UNCHANGED <<folder, build, watcher, spent>>

\* A batch whose refresh throws becomes a rebuild.
RefreshFails ==
  /\ Holds("apply")
  /\ Throws({c.path : c \in {d \in Running.changes : ~Missing(d.to)}})
  /\ IF Running.owner = "scan"
       THEN Becomes(Rescan("scan", Path)) /\ UNCHANGED <<pass, census>>
       ELSE Fails
  /\ UNCHANGED <<folder, idx, build, snap, watch>>

BatchApplied ==
  /\ Holds("apply") /\ Running.changes = {}
  /\ Succeeds
  /\ UNCHANGED <<folder, idx, build, snap, watch, spent>>

\* rebuild and rebuildSubtree: list, read each note, then replace.
ListForRebuild ==
  /\ Holds("list")
  /\ Becomes([Running EXCEPT !.step = "read"])
  /\ build' = [todo |-> Notes(vault) \cap Running.scope, got |-> Listed(vault)]
  /\ UNCHANGED <<folder, idx, watcher, spent>>

ReadForRebuild(p) ==
  /\ Holds("read") /\ p \in build.todo /\ ~Missing(vault[p])
  /\ build' = [todo |-> build.todo \ {p}, got |-> [build.got EXCEPT ![p] = vault[p]]]
  /\ UNCHANGED <<folder, idx, jobs, watcher, spent>>

RebuildFails ==
  /\ Holds("read") /\ Throws(build.todo)
  /\ build' = NoBuild
  /\ Fails
  /\ UNCHANGED <<folder, idx, snap, watch>>

Rebuilt == [p \in Path |-> IF p \in Running.scope THEN build.got[p] ELSE idx[p]]

Replace ==
  /\ Holds("read") /\ build.todo = {}
  /\ idx' = Rebuilt
  /\ build' = NoBuild
  /\ Succeeds
  /\ UNCHANGED <<folder, snap, watch, spent>>
-----------------------------------------------------------------------------
(* The end of the startup census.                                          *)

\* The new index and, in the watcher, installStartupSnapshot.
InstallCensus ==
  /\ Holds("install")
  /\ jobs' = Tail(jobs)
  /\ idx' = seen /\ snap' = seen
  /\ watch' = [watch EXCEPT !.catchUp = @ \/ ~watch.ready]
  /\ seen' = Unread
  /\ census' = "reconciling"
  /\ UNCHANGED <<folder, build, scan, spent>>

Started(w) ==
  LET open == [w EXCEPT !.buffering = FALSE, !.startup = FALSE]
  IN IF w.ready /\ w.catchUp THEN [Scheduled(open) EXCEPT !.catchUp = FALSE] ELSE open

\* finishBufferedStart: a startup scan if anything was noticed meanwhile.
FinishBufferedStart ==
  /\ scan.kind = "census" /\ census = "reconciling"
  /\ watch' = Started(watch)
  /\ IF watch.startup
       THEN scan' = [NoScan EXCEPT !.kind = "startup"] /\ UNCHANGED census
       ELSE scan' = NoScan /\ census' = "current"
  /\ UNCHANGED <<folder, index, snap, seen, spent>>
-----------------------------------------------------------------------------
\* The watcher has just been started, and the census has not listed the vault.
Init ==
  /\ budget \in Budgets
  /\ \E S \in SUBSET Path :
       /\ Cardinality(Path \ S) <= budget.vacant
       /\ vault = [p \in Path |-> [stamp |-> 0, id |-> IF p \in S THEN <<p, 0>> ELSE NoFile]]
  /\ clock = 0 /\ notice = FALSE /\ saving = NoSaving
  /\ idx = Unread /\ jobs = <<>> /\ build = NoBuild
  /\ snap = Unread /\ scan = [NoScan EXCEPT !.kind = "census"] /\ seen = Unread
  /\ census = "scanning"
  /\ watch = [ready |-> budget.start = "early", buffering |-> TRUE, startup |-> FALSE,
              catchUp |-> FALSE, timer |-> FALSE, waiting |-> 0]
  /\ spent = [e \in Events |-> 0] /\ lost = {}

World ==
  \/ \E p \in Path : ExtCreate(p) \/ ExtWrite(p) \/ ExtDelete(p) \/ SaveBegins(p)
  \/ \E p, q \in Path : ExtRename(p, q) \/ ExtLink(p, q)

Kernel ==
  \E p \in Path : SaveInstalls(p) \/ SaveRestores(p) \/ \E q \in Path : SaveConflicts(p, q)

Watcher ==
  \/ BackendReady \/ RecordEvent \/ BackendError \/ DebounceOver
  \/ StartFlush \/ ListNotes \/ (\E p \in Path : ReadNote(p)) \/ ScanFails
  \/ CensusRead \/ Compare \/ FinishBufferedStart

IndexJobs ==
  \/ ReconcileSave
  \/ InstallCensus
  \/ (Holds("apply") /\ \E c \in Running.changes : ApplyChange(c))
  \/ RefreshFails \/ BatchApplied
  \/ ListForRebuild \/ (\E p \in Path : ReadForRebuild(p)) \/ RebuildFails \/ Replace

\* Steps after which nobody may look again at a path that has changed: the
\* watcher becomes ready between the reading of the census and its installation;
\* the backend reports an error beside a scan that has begun to read; the rescan
\* after an error fails, or the second one after a failed batch; the rescan for
\* an ambiguous move does not reach all that has changed; a save removes a note
\* from the index that another program has brought back.
GivesUp ==
  \/ BackendReady /\ census = "scanning" /\ scan.step # "list"
  \/ BackendError /\ ~watch.buffering /\ scan.step # "list"
  \/ RebuildFails /\ (Running.owner = "error" \/ scan.step = "retry")
  \/ /\ Compare /\ jobs' # jobs
     /\ LET job == jobs'[Len(jobs')]
        IN job.step = "list" /\ \E c \in Differences(snap, seen) : c.path \notin job.scope
  \/ /\ Holds("apply") /\ Running.owner = "save"
     /\ \E c \in Running.changes : ApplyChange(c) /\ Missing(c.to) /\ vault[c.path] # c.to

\* A note goes that the index has, or is about to get, and the snapshot has not.
Misses ==
  \E p \in Path : /\ ~Missing(vault[p]) /\ Missing(vault'[p])
                 /\ Missing(snap[p]) /\ p \in Notes(idx) \cup Notes(build.got)

Next ==
  /\ World \/ Kernel \/ Watcher \/ IndexJobs
  /\ lost' = lost \cup {x \in {"change"} : GivesUp} \cup {x \in {"removal"} : Misses}
  /\ UNCHANGED budget
Spec == Init /\ [][Next]_vars

\* The process goes on, timers fire, and the operating system delivers.
Fairness ==
  /\ WF_moving(Kernel)
  /\ WF_moving(BackendReady) /\ WF_moving(RecordEvent) /\ WF_moving(DebounceOver)
  /\ WF_moving(StartFlush \/ ListNotes \/ (\E p \in Path : ReadNote(p)) \/ CensusRead
               \/ Compare \/ FinishBufferedStart)
  /\ WF_moving(IndexJobs)
FairSpec == Spec /\ Fairness
-----------------------------------------------------------------------------
(* Properties.                                                             *)

TypeOK ==
  /\ vault \in [Path -> State] /\ clock \in Nat /\ notice \in BOOLEAN
  /\ saving \in Saving
  /\ idx \in [Path -> State] /\ jobs \in Seq(Job) /\ build \in Build
  /\ snap \in [Path -> State] /\ watch \in Watch /\ scan \in Scan
  /\ seen \in [Path -> State]
  /\ census \in {"scanning", "reconciling", "current", "degraded"}
  /\ budget \in Budgets /\ spent \in [Events -> Nat] /\ lost \subseteq {"change", "removal"}

\* Everything noticed has been scanned, and everything scanned applied.
Quiet ==
  /\ census = "current" /\ watch.ready
  /\ ~notice /\ ~watch.timer /\ watch.waiting = 0
  /\ scan = NoScan /\ jobs = <<>> /\ saving = NoSaving

Intact == "change" \notin lost

\* At rest the index has every note of the folder, as it is now, unless a
\* change was given up.
NotesIndexed == Quiet /\ Intact => \A p \in Notes(vault) : idx[p] = vault[p]

\* At rest the index has no note that is not in the folder.
NoGhosts == Quiet => Notes(idx) \subseteq Notes(vault)

\* The same unless a change was given up or a removal missed.
NoGhostsOnceSeen == lost = {} => NoGhosts

\* What the watcher will not report again has reached the index, or something
\* newer has, unless a change was given up.
SnapshotReached ==
  /\ census \in {"reconciling", "current"} /\ scan = NoScan /\ jobs = <<>>
  /\ Intact
  => \A p \in Notes(snap) : idx[p] = snap[p] \/ idx[p].stamp > snap[p].stamp

\* Once the census is installed, no step replaces a note in the index by an
\* older state of it.
IndexForward ==
  [][census # "scanning"
       => \A p \in Notes(idx) \cap Notes(idx') : idx'[p].stamp >= idx[p].stamp]_vars

\* When the folder is left alone the index comes to rest on what is there.
IndexSettles == <>[](census = "degraded" \/ ~Intact \/ \A p \in Notes(vault) : idx[p] = vault[p])
=============================================================================
