# Threadleaf: specification and verification

TLA+ models of the parts of Threadleaf where a note can be lost, go unseen or be held up: the vault
kernel's write transaction and its moves with link repair, the editor session with its autosave and
recovery drafts, the watcher with the index that follows the folder, the open tabs of the workspace and
the supervision of plugin processes. TLC checks them on small instances, and TLAPS proves the theorems listed below for every
value of the constants. Paths in this file are relative to the repository root.

    tlc -workers 2 -config VaultWriteFaults.cfg MCVaultWrite     # one run; PROJECT.json lists all
    tlapm VaultWriteProofs.tla                                   # proofs; likewise every module whose name ends in Proofs, and VaultWriteDurability.tla

## The system

Threadleaf is an Electron editor for a folder of Markdown notes that other programs edit as well.

| Component | State | Operations | Interacts with |
| --- | --- | --- | --- |
| Vault kernel, `src/kernel/vault-kernel.ts`, `durability.ts`, `journal.ts` | the notes; per transaction a staged file, a rollback file, a recovery file and a journal; the history of retired journals | `saveNote`, `rename`, multi-file writes, moves with link repair, attachment ingress and insertion; recovery when a vault opens | called by the workspace runtime and the command line; shares the folder with other programs |
| Watcher and derived index, `node-vault-watcher.ts`, `watch-protocol.ts`, `metadata-index.ts` | last scanned state of the folder, sequence and generation, ledger of own operations, transient absences, metadata | scan, debounce, emit a batch or a rescan, apply it, suppress own writes | reads the folder, feeds the runtime |
| Workspace runtime, `src/application/workspace-runtime.ts` | open panes, tabs and active paths, index, last snapshot | open, navigate, save, mutate; assemble and publish a snapshot | calls the kernel, pushes snapshots to the main process |
| Workspace controller, `workspace-controller.ts`, `workspace-state.ts` | which vault is open, generation of the selection | select, open in the background, close | owns runtimes |
| Editor session, `src/renderer/renderer.ts`, `continuous-autosave.ts` | text, loaded revision, last snapshot, pending disk version, autosave counters, draft identity and timers | edit, save, flush, reconcile a snapshot, restore a draft | IPC with the main process |
| Draft store and flush coordinator, `src/main/file-editor-draft-store.ts`, `renderer-autosave-flush.ts`, `main.ts` | one private draft file for each vault and pane; flushes waiting for an answer | save, clear by identity, load; request, complete, time out | renderer, window close, quit |
| Plugin runtime, `src/runtime/*`, `src/main/electron-plugin-runtime.ts` | isolated process, operation tail, recovery state | load, call, recover after a crash, close | runtime, main process |
| Packages and migration, `src/main/*-package-manager.ts`, `obsidian-migration-transaction.ts` | staged installations, receipts | install, replace, roll back | private state |
| Private state lock, `src/private-state-lock` | one owner of the application data | acquire, verify, release | all of the above |
| Search, links, properties, canvas, previews | derived from one document | pure transformations | runtime, renderer |

What is hard here: the vault has no lock against other programs, so every check of a file is stale
when it is used; the application can stop between any two file operations and has only the journal
and the files to go by; and the editor is an asynchronous client of the kernel, so that snapshots,
save replies, draft writes, timers and flushes cross each other in every order. `PROJECT.json`
(`hazards`) lists each at its line with the properties that cover it.

What makes each component correct:

- *Write transaction*: no version of a note that anybody wrote is lost or overwritten; what was
  staged is brought back; nothing private is left behind; recovery ends.
- *Editor session*: an edit stays in the editor until the writer took it; the stored draft is the
  pending edit and nothing else; a clean editor shows the disk; a flush covers every edit;
  autosave eventually writes.
- *Watcher and index*: when everything noticed has been scanned and applied, the index is the folder;
  no old reading replaces a newer one; it comes to rest.
- *Moves with link repair*: the file is never lost; the links of a note and the name of the file agree
  once everything has settled; what another program wrote stays; a receipt says what is so.
- *Workspace runtime*: a tab is closed by its user or because its file is gone, and by nothing else; the
  memory, the private document and the published layout agree when at rest.
- *Plugin runtime*: a failing plugin disturbs no other; no renderer process is left behind; every call
  is answered; renderers agree on the environment and the layout.
- *Attachments*: the same promises as writes and moves, through descriptors of directories.
- *Controller, lock*: one owner; nothing of an older generation is published; a close is final.

## Modules

| Module | Role |
| --- | --- |
| `KeepBoth` | abstract: the note as a compare-and-swap register that turns a stale save into a copy |
| `VaultWrite` | the portable write transaction of one note, its recovery, other programs, crashes, failing calls |
| `VaultWriteKeeps` | `VaultWrite` with history variables, and the refinement to `KeepBoth` |
| `MCVaultWrite` | symmetry for TLC |
| `VaultWriteProofs` | type correctness and `KernelNeverOverwrites`, proved |
| `VaultWriteDurability` | `NothingLost`, `Surfaced`, `DisplacedKept` and `NoteStays`, proved |
| `VaultWriteRefinement` | the refinement of `KeepBoth`, proved |
| `LinkedMoves` | rename and move-with-writes over several files, rollback and recovery |
| `MCLinkedMoves` | the stories (requests and bounds) for TLC |
| `LinkedMovesProofs` | type correctness, `SourceSafe`, `OthersStay`, `LinksReach` and `ReceiptTrue`, proved |
| `EditorSession` | one editor pane: autosave, recovery draft, snapshots, flush, crash and restore |
| `MCEditorSession` | the stories for TLC, symmetry |
| `EditorSessionProofs` | every safety property of the run `session`, proved |
| `WatchIndex` | notifications, scans, batches, rebuilds, own saves and the startup census, one folder |
| `MCWatchIndex` | the stories for TLC |
| `WatchIndexProofs` | type correctness, `NotesIndexed`, `NoGhostsOnceSeen`, `SnapshotReached` and `IndexForward`, proved |
| `WorkspaceTabs` | open tabs, their private document, absence confirmation, assembly of snapshots |
| `MCWorkspaceTabs` | the stories for TLC |
| `WorkspaceTabsProofs` | type correctness, `TabsFollow`, `StoreAgrees` and `ShownCurrent`, proved |
| `PluginRuntime` | slots, recovering runtimes, renderer processes, the environment bridge |
| `MCPluginRuntime` | the stories for TLC |
| `PluginRuntimeProofs` | type correctness, `RenderersOwned`, `FailuresStayHome` and `EnvironmentAgreed`, proved |

`VaultWrite` implements `KeepBoth`, and `LinkedMoves` uses one note write with exactly the promises of
`KeepBoth`; `EditorSession` and `WatchIndex` use it as one step (`KernelWrite`) or as the steps the
folder shows (`saving`).

### VaultWrite

`saveNote` (`vault-kernel.ts`, `performWriteTransaction`) through the portable, non-strict path of
`durability.ts`. State: `disk`, the content of every name (the note, the staged and rollback file
and the recovery evidence of each transaction, the conflict copy and the claim under work);
`copies` and `residue`, finished conflict copies and claims nobody owns any more; `journal` and
`history`, the private journal files; and the volatile state of the process: `mode`, the program
counter `pc` of the running transaction `cur`, and the file routine `sub` it has called
(`durableCreate`, `installStagedFile`, `removeExpectedFilePortably`), which takes one action for each
file-system call. Contents are revisions; `Torn` is a file that was created and not filled.

Every file-system step of the code is an action, so that other programs (`ExtSave`, `ExtDelete`, and
`ExtLateSave` through a descriptor opened before the note was moved aside), `Crash` and `Fault` (a
call that fails and ends the transaction with its journal pending) fall between any two of them.
`Open` and the actions of `Recovery` are `recoverUnlocked` and `recoverWrite`.

The ghosts `owed`, `latest` and `present` say what the properties need: which versions somebody may
still want, the last external save, and whether the note's name should exist.

Simplified: the path is one note; conflict-copy names are claimed one at a time (`Copy`), so eight
consecutive collisions do not occur; directory checks, symbolic links and the strict
descriptor-relative path are left out; a call that fails has no effect, except where the code
itself makes two calls.

### KeepBoth and VaultWriteKeeps

`KeepBoth` says in nine actions what `saveNote` promises: the note changes by `Swap`, only if it is
exactly what the save had read, or is gone (another program that creates the note and deletes it again while
the kernel has the old one aside is not noticed, and the save takes the free name; with one change by
other programs this does not happen, with two it does); by another program (`External`); by a failure in the middle of a
replacement (`Fail`: the name is free or holds a file without its bytes); or when the name gets back a
version it has held, or the remains of a copy a failure cut off (`Restore`). A save that was accepted
(its proposal is on disk) ends only when its text has been in the note or is in a copy (`Close`).

`VaultWriteKeeps` gives the mapping. While a live save has the note aside, the note counts as being
where it was (`LogicalNote`): a program that ignores the instant of the replacement sees no gap. The
stage of a save is the phase of its journal. The three history variables are the versions the name has
held, the saves their callers took back, and whether other programs left a version there. A save through an
old descriptor (`ExtLateSave`) is outside the promise: it reaches a file that is no longer the note. TLC checks the
refinement (`write_settles`), and `VaultWriteRefinement` proves it.

### LinkedMoves

`moveWithWrites` rewrites each linking note through a write transaction, in order, checks all of
them and the corpus again, and renames the file, each phase of its journal (`mv`) on disk before the
next. `performRename` has its own journal (`rn`) and private files (`aside`: the staged blob, the
recovery copy and the restore copy, for each of the two journals). A contained attachment is copied and its source
retained (`strict`): `Publish` to `AfterPublish`; the native publication keeps its private copy (`NativePublish`,
`PublishInstall`), the portable one removes it. `RenameCheck` to `RenameRetire`, `MoveCheck` to
`MoveRetire` and `RecoverRename` to `UndoCopied` follow the code function by function; `at` is the
program counter, `sub` the write or installation it has called. `Open` runs recovery: the pending note
write, then the rename, then the move (`RecoverJournal`), which finishes or rolls back (`Resume`,
`Rollback`). `Crash` and `Fault` may come at every step, `External` may replace or delete any file.

Simplified: a note write is three steps (stage, swap, close) and a removal that checks the revision is
one, their inner steps being those of `VaultWrite`; recovery reads both names of a move in one step;
bytes are the classes old, new, foreign and torn. Left out: `writeMany` (nothing under `src/` calls it),
the rules for path containment, and the planning of the rewrites in `note-move.ts`.

### EditorSession

The renderer is single threaded: an action is one macrotask with the microtasks it queues, and the
functions of `renderer.ts` (`reconcileEditor`, `replaceEditorDocument`,
`persistCurrentEditorDraft`, ...) are operators from one pane record to the next, composed in the
order the code calls them. `ContinuousAutosave` is kept whole: its two counters, its timer, the
save in flight and the flush loop. The main process contributes the draft store (atomic replacement,
removal by identity), the flush coordinator with its timeout, and window close; the workspace
runtime contributes one save at a time (`KernelWrite`, one step here, then `Publish`) and snapshots
for the watcher (`Notify`). A save's response and its snapshot travel on separate channels and
arrive in either order; the response reaches only the renderer that asked. A crash of the renderer
leaves the save running; a crash of the application leaves it done or not done.

Text is also its revision. Path 0 is the note; the others are the conflict copies the kernel makes
when the revision it was given is not the note's. Ghosts: `done`, the texts the user need not fear
for, and `ui.mine`, that the text comes from the user's own edits.

Left out: the second pane and navigation between notes, the switch of vaults, selection and
line-ending representation, read-only vaults, blur flushes, the ten seconds during which a vanished
note is held in its pane, and re-creation of a deleted note by another program. Opening a note for a
draft that belongs to it (`RestoreElsewhere`) is one step with its snapshot and waits for an empty
inbox.

### WatchIndex

`NodeVaultWatcher` holds four things the model keeps apart: `notice`, a notification on its way;
`watch`, its flags, the armed debounce timer and the number of timers that are `waiting` on the flush
tail; `scan`, the one scan under way, with `seen`, what it has read; and `snap`, the snapshot. A scan is the
`census` (`captureVaultBootstrap`), the `startup` scan that answers what was noticed during the census, or
a `flush`. It lists, then reads note by note (`ListNotes`, `ReadNote`), and `Compare` is the rest of `scanNow`
with `diffVaultSnapshots`. `jobs` is the runtime's index state lock: the head holds it, the others wait; each
job has an owner to answer (`Succeeds`, `Fails`). `ApplyChange` is one refresh or removal of
`VaultIndexReactor.accept`; `ListForRebuild`, `ReadForRebuild` and `Replace` are a rebuild, whole or of a
subtree. `saving` is the application's own save in the kernel, here taken apart only as far as the
folder shows it (aside, installed, put back, copied), and `ReconcileSave` what the runtime then does to the
index. `InstallCensus` and `FinishBufferedStart` end the census, in the runtime and in the watcher.

The state of a path is a stamp and the identity of its file: what the code compares is size, times and
inode, so two states are equal exactly when nothing happened in between. `vault`, `idx`, `snap`, `seen` and
`build.got` are maps from paths to such states, so that "what does the index hold of this note" and "how
old is it" are the same question. The recursive watcher reports every directory once it is ready;
before that only changes in the root are reported (`Noticed`).

Left out: `close`; the ledger of own operations, whose annotations nothing reads; follow-up scans; the
cached census; tabs and transient absences; what the index computes from a note. `WatchSequenceGate` is
left out because batches reach it in order by construction: one flush tail emits them, and the
runtime's lock is first come, first served; the activity flag decides only whether an empty batch is
published. A conflict whose note disappears again between the conflict and the reading of its
revision is left out as well.

### WorkspaceTabs

Nothing orders the actors that change `#panes` (`tabs`). An operation of the user copies the layout, saves the
copy and then adopts it (`Adopt`, `UserSaved`, `UserRefused`: `adoptWorkspaceState`); a batch
(`AcceptChanges`, `AcceptRebuild`), the kernel's moves and trash (`FinishMove`) and its writes (`WriteNote`, then
`FinishWrite`, which opens the saved, created or conflict note as `activatePath` does) change the tabs in place
under the index lock (`lock`) and save afterwards, one after the other (`tail`: `persistWorkspaceStateBestEffort`).
`Call`, `Land` and `SaveFails` are `FileWorkspaceStateStore.save`: each call carries what its caller takes
the document to be, and is refused when it is not. A missing file is given time (`absences`): `Elapse` ends a
window, `WakeFires` is the timer, `Consider`, `Look`, `Decide` and `Settled` are one run of
`settleUnconfirmedAbsences` (`pass`; the one of a batch and those of the timer may overlap, at its one
await: while the run of one timer reads, a snapshot may arm the next). `Timers` names the runs of a timer that may be
under way at once; an idle one and an idle operation are taken by `CHOOSE`, since their names mean nothing.
A run that began without an absence leaves the timer as it is (`arms`). `removed` are the confirmed removals, which `Scrub` takes out of every copy adopted later. `Capture`
and `Present` are `getWorkspaceSnapshot` with `Retry`, `Refresh` a note whose bytes are ahead of the index.

A layout is its set of open paths and one bit for order, pins, panes and selection, so that two layouts can
differ without differing in their tabs. Times are the bit `due`. The index is what the folder was at the last
batch; which batches come when is in `WatchIndex`. A read of a note and what its continuation does are one
step, as are the few statements between two awaits of an empty lock. Whether a write opens a tab is free in
`FinishWrite`: a plugin's creation and a name that exists do not. Of a save in conflict the model removes the missing
name from the index; that the code refreshes a name that is there is left to the next batch. Left out: going back and forward in the
history, canvases and plugin documents, the deferred census, the initial choice of a document.

### PluginRuntime

Three objects for each plugin, kept apart because they disagree while something fails: the slot of
`IsolatedPluginRuntime` (`iso`, `queue`), the `RecoveringPluginRuntime` (`child`: what it believes is
active, failed, its environment, the stage of its call or recovery) and the renderer (`process`: what it
really has loaded, its environment, whether it has been told of the layout). The isolated runtime runs
one call at a time (`Start...` to `Answered`); a call to several slots waits for all of them
(`AsksAll`). A renderer may hang, exit, or break its budget (`Hang`, `Dies`, `Deadline`, `Throws`);
the recovering runtime then opens a replacement, applies the environment, takes a snapshot and loads
the plugin again (`Recovering`, `Recovers`), each of which can fail as well. `Update` is the
environment bridge, `Notice` the snapshot main asks for when it hears of a failed renderer. A deadline crashes its
renderer, and main may hear of that or not (`Deadline`), as the window is destroyed at once. `close` takes its turn in
the queue, but nothing waits for it: what is called while renderers still close is refused then (`RefuseClosing`).

Left out: opening the very first runtime and seeding it with paths; `close` of a recovering runtime from
outside its slot; the trusted single-process topology; commands, suggestions, menus and projections,
which leave the supervisor's state alone, are one kind of call.

## Runs

| Run | Bounds | Shows |
| --- | --- | --- |
| `write_faults` | 1 save, 3 versions, 3 external saves or deletions, 1 late save, 1 crash, 1 failing call; 970 000 states | type correctness, `NothingLost`, `Surfaced`, `DisplacedKept`, `ExternalStays`, `NoteStays`, `KernelNeverOverwrites` |
| `write_pair` | 2 saves, 2 versions, 1 external save, 1 crash, 1 failing call; 2.9 million states | the same note saved again while the journal of a failed save is pending, and both recovered: `NothingLost` |
| `write_settles` | 1 save, 2 versions, 2 external saves or deletions, 1 crash, 1 failing call; 379 000 states, fair | `Settles`: every call returns, every opening ends; `Implements`: refinement of `KeepBoth` |
| `moves` | five stories, 2 names, up to 3 notes; 261 000 states, fair | `SourceSafe`, `LinksReach`, `OthersStay`, `ReceiptTrue`, `MoveSettles` |
| `tabs` | ten stories, 2 notes, 2 operations at once, 2 assemblies of a snapshot, 2 runs of the timer; 488 000 states, fair | type correctness, `TabsFollow`, `StoreAgrees`, `ShownCurrent`, `GoneCloses` |
| `session` | five stories, 1.8 million states | `DraftMirrors`, `ShowsDisk`, `TextKept`, `DraftOwned`, `FlushReachesAlone` |
| `session_settles` | 2 edits, 1 crash; fair | `AutosaveSettles` |
| `session_reset` | violation of `FlushReaches` | finding 1 |
| `index` | ten stories, 3 paths, 680 000 states, fair | type correctness, `NotesIndexed`, `NoGhostsOnceSeen`, `SnapshotReached`, `IndexForward`, `IndexSettles` |
| `index_ghost` | violation of `NoGhosts` | finding 2 |
| `plugins` | five stories, 2 plugins, 4 renderers; 201 000 states, fair | `RenderersOwned`, `EnvironmentAgreed`, `FailuresStayHome`, `CallsAnswered`, `ExitsNoticed` |
| `plugins_environment` | violation of `EnvironmentCurrent` | finding 3 |

*Why the bounds are enough.* Three versions let the base, the proposal and an external save differ,
and three external saves let one fall before the final check, one between the check and the claim,
and one while recovery runs. One crash and one failing call give a transaction that fails, a later
one that is interrupted and a recovery of both. A recovery that is itself interrupted needs a second
crash: the recovery steps are checked against a failing call instead, after which the journal is
pending as after a crash. The stories of the session (`MCEditorSession`) are one budget each:
`Competition` (three edits, two external changes), `Waiting` (three edits around two flushes, their timeouts
and late answers), `Closing` (four edits, and a window that closes after a flush), `Failures` (an external change, a crash, a failing save or draft write) and
`Hasty` (the same with a user who types before his draft was looked up). Three texts are enough for
"saved", "newer" and "foreign" to differ. Symmetry in versions and texts is used in safety runs only.
The stories of the index (`MCWatchIndex`) let two or three kinds of event happen once each, in a folder of
three paths of which one is in the root and at most one has no note at first: a move needs two paths,
an ambiguous one three. A reading may fail three times, which takes a batch through its rebuild and the
rescan to the end. `early` and `any` say when the recursive watcher becomes ready.
The stories of the moves are five requests: a note that links to itself, an attachment with two linking
notes and a corpus, a contained attachment, a plain rename and a contained one; each with one or two
changes by other programs, one or two crashes and one failing call, so that a crash can fall into the
recovery from another, or a change between the failure and the recovery. Two linking notes are the
least for a rollback that succeeds for one and meets a conflict at the other. The stories of the
plugins are environment changes, loading, replacing, views and closing, two or three calls and one or
two faults each. Four renderer identities suffice: two slots, one runtime that is opened or idle, and one
replacement, since one call runs at a time.
The stories of the tabs (`MCWorkspaceTabs`) join one operation, or none, with one or two events of another
kind: outside removals and creations with a failing save, an outside move, a transaction that holds the file,
edits that make a snapshot stale, a restart, reads that give no answer, as many as the limit too, with a second run of
the timer before the first has ended (`overlaps`); two operations at once; and two
tabs with a move between them. Two notes are the least for a move onto a name that was open; a limit of
two assemblies (the code's is in `maximumWorkspaceSnapshotAssemblyAttempts`) lets the first be stale and the
last be given up.
Deadlock is not checked: with the bounds used up and nothing pending the system rests.

*Conditions in properties.* `ExternalStays` and `NoteStays` except a program that wrote through an old
descriptor into a note already moved aside; the first half of `ExternalStays`, that the version is at the
requested path, speaks of behaviours without crash or failure, and the whole of it of one transaction (with two,
see below); `FlushReachesAlone` and the second half of `DraftMirrors` speak of stories in which nobody interferes, because
finding 1 and the forgotten draft identity (below) break them otherwise: the first is about the
first window only, the second about users who wait until their draft was looked up, for the reasons given there; `DraftOwned` leaves out hasty users, whose draft the
restore gives up in favour of what they typed (`renderer.ts:14865`).

`LinksReach` leaves out a move recorded as a manual conflict because its source was changed before the
rename and a crash: recovery archives it without a rollback, and links lead to a name that does not
exist (`vault-kernel.ts:2254`). `EnvironmentAgreed` leaves out runtimes that recovered in the middle of a
change (finding 3), and, as to the layout, renderers that replaced a failed one, which nobody tells
(`recovering-plugin-runtime.ts:498`). The refinement is checked without late writes through an old
descriptor, as `NoteStays` is.

`TabsFollow` speaks of tabs that are owed and of tabs that are gone (`ghost`); numbers refer to the list for the
tabs below. A tab is owed from the moment it is opened by an adopted save or follows its file, if the file is certain
then: no absence of it is noted, no removal marked, no move of it unreported. It is owed no longer when the user
closes it, its file goes or moves, a transaction moves it aside in the instant between the question and the look (4),
reads give no answer until their number is used up (9), a refused save gives up all tabs its copy lacks (3), a copy
that lacks it is saved and adopted once the compare is blind (5), or a restart finds changes unsaved. A tab is gone
when its removal was confirmed with the file in neither folder nor index, until the file is back. `StoreAgrees` ends
when a save fails (`failed`), or writes what the document says already (`blind`, 5); `ShownCurrent` when a snapshot is
given up; `GoneCloses` leaves out a look that saw
a file the index does not list (6).

*Where the index may fall behind.* `NotesIndexed` and `SnapshotReached` hold unless one of a few steps has lost
a change. The model names these steps and remembers that one was taken (`lost`); a property that says
`Intact` is claimed for behaviours without them, of any length. `GivesUp` has five. The watcher becomes ready
between the reading of the census and its installation: what other programs did in the subdirectories by
then nobody reported. The backend reports an error while a scan is reading: its rescan queues beside that
scan, whose batch, read earlier, may follow it (`node-vault-watcher.ts:739`). A rescan after such an error
fails, or the one after a failed batch does, so three failing reads in a row, or a note that never decodes:
the snapshot already counts the batch as reported (`metadata-index.ts:826`). The rescan for an ambiguous
move covers the directory of the move only, and the rest of the diff is dropped (`node-vault-watcher.ts:473`).
A save that found its note gone removes it from the index after another program has brought it back
(`workspace-runtime.ts:4924`). `Misses` is finding 2: a note goes that the index has and the snapshot does not;
`NoGhostsOnceSeen` is `NoGhosts` for behaviours without any of these steps. The stories of the run take the first three steps of `GivesUp`; the
fourth needs four paths, the fifth more events. TLC also checked the properties on wider stories (two deletions with an error and three
failing reads, two renames and a write, a save with a creation and a deletion; up to six million states each).

*Fairness.* `Settles` assumes weak fairness of the kernel's own next step (`Kernel`): the process,
while it runs, executes its code, and file-system calls return. Nothing is assumed about crashes,
other programs or the user. `AutosaveSettles` assumes weak fairness of each timer that is armed, each
message that was sent, the draft store and the runtime's queue, as the event loop and Electron's IPC
provide; nothing about edits, crashes or failures. `IndexSettles` assumes weak fairness of a save that has
begun, the watcher's readiness, the delivery of a notification, the armed timer, the scan on the flush
tail, and the job that holds the index lock; nothing about other programs, failing reads or the backend's
errors. `MoveSettles` assumes that the kernel goes on with its next step and that the vault is opened again
after a crash or a failed call, without which no journal is ever worked off. `CallsAnswered` and
`ExitsNoticed` assume weak fairness of the isolated runtime's next step, of main's answer to a failed
renderer, and for each place of the next step of its recovering runtime, its renderer's reply or its
deadline: a renderer that hangs forever is allowed, the timer that catches it is not. `GoneCloses` assumes
weak fairness of the store, the queue of saves, the watcher's next batch, the armed timer, the passage of time,
the pass under way, snapshots and the return of a file held aside; nothing about users, other programs or failures.

## Findings

1. `session_reset`: `replaceEditorDocument` resets the autosave counters while a save is in flight; the
   save's completion then counts later edits as persisted and a flush skips them.
2. `index_ghost`: a note the application saved (or a rebuild read) and another program deleted before the
   next scan is in no snapshot, so no scan reports its removal and the index keeps it.
3. `plugins_environment`: a renderer that fails while it should take a new environment is replaced by one
   with the previous environment, and the change counts as acknowledged by all.

### Seen while modelling, and not runs of their own

In the write transaction: the target of an install is created and then filled under its own name
(`durability.ts:831`), so another program can read an empty note, which `docs/architecture.md:1143-1145` excludes;
a crash inside the creation of the staged file leaves an empty one, which recovery promotes to an empty
conflict copy, where the document (1137-1138) says an empty note is never invented; of two pending creates
of one new note, recovery installs the older and makes the newer a conflict copy (`vault-kernel.ts:1469`);
with a crash between the claim of a file and its return, the bytes stay under the hidden claim name; and
a crash while the rollback copy is being created, followed by a deletion of the note, makes recovery
restore an empty note.
A create that failed leaves its journal pending while the vault stays open, since only opening a vault
recovers journals (`vault-kernel.ts:420`). When a later save then moves another program's version aside and the
application stops before putting it back, recovery may take the older journal first and install its staged file
under the free name; the other program's version is then neither at the note nor in a conflict copy, but
only in the recovery evidence. With two transactions and three versions TLC finds this as a violation of
`ExternalStays`; `NothingLost` and `DisplacedKept` hold.

In moves: a crash while a portable installation fills the new name leaves a torn file there, and the move is
rolled back with `rename-target-exists`; a crash while the recovery copy is written leaves the file under
both names; a note that another program changed before its turn in a rollback gets a conflict copy of its
old bytes; a live move whose source another program has replaced rolls the links back to that replacement, which the
comment on the recovery of the same state rules out (`vault-kernel.ts:2255-2257`); a crash between the publication of a contained attachment and its receipt ends in a manual
conflict with the copy left in place.

In the editor: a user who types in a replacement window before the draft has been looked up loses that draft
(`renderer.ts:14865`); when the snapshots of a save and of another program's later save both arrive before
the save's reply, `replaceEditorDocument` forgets the draft's identity, the saved draft is never cleared,
and the next start offers it over the newer note (`renderer.ts:14681`).
This and finding 1 can also happen without another program. A window that closes while a save is still in the runtime's queue leaves the next
window a draft whose base revision the save then replaces: the restored draft is in conflict with the user's own
save. If he types the old text again, the document is replaced while its save is in flight, and a flush is answered
over a later edit as in finding 1; that takes four edits and two flushes. And a user who types in the new window
before his draft was looked up has a draft identity forgotten in the same way. `FlushReachesAlone` and the second
half of `DraftMirrors`, as they first stood, did not exclude these: the attempt to prove them led to both behaviours,
and TLC confirmed them with larger budgets than those of the run. Hence `budget.close`, which bounds the windows that are closed.

In the index: when the recursive watcher becomes ready after the census has read a directory and before its
index is installed, a change in between is neither notified nor scanned for (`node-vault-watcher.ts:605`).

In the tabs (`workspace-runtime.ts`):

1. a save of the user's that is in flight while a batch or the kernel moves a tab adopts the copy from before the
   move: the tab is back under the old name, and is later closed as missing (3754-3757);
2. a file moved onto a name whose removal was confirmed loses its tab to the next save, because only a
   snapshot or an opening takes the mark away (3709, 5320);
3. a refused save that holds a confirmed removal is adopted without comparing anything, over a tab that another
   operation opened meanwhile (3764-3771);
4. whether a transaction holds the file is asked before the read and not after it (5233, 5249);
5. the store compares contents, so an operation that restores the layout an earlier save began with lets a save
   that was queued behind it pass; the document, and the layout that is adopted, end up without a tab opened in
   between (`file-workspace-state-store.ts:40-51`);
6. a file that is back for one read only, and which no scan lists, ends its absence: the tab stays open on nothing
   until the next snapshot (5260);
7. with two overlapping passes an absence may be read a fifth time, and once more for each further run of the timer
   (`MaxTries`), where the comment says at most four (5206, 5243);
8. going through the history copies the layout, then waits for the inventory, the index lock and the plugins, and
   adopts the copy: what a batch did to the tabs meanwhile is undone (3947-4035);
9. an absence is given up after four reads even when none of them had an answer (235-239, 5278): a file that a
   transaction moved aside and that is back since loses its tab if the folder cannot be asked, which the code
   chooses so that no folder keeps a deleted tab open.

The main process does not put operations in order; the renderer's busy state makes most of these rare.

In the plugin runtime: when a recovery fails too, the slot keeps its closed runtime, and every snapshot and
environment change of the application fails until the plugin is unloaded (`isolated-plugin-runtime.ts:715`),
where `docs/architecture.md:22-23` confines the failure to its plugin; recovery loads plugins again by
itself, where lines 23-27 of that document say it does not; an unload that times out is answered with the plugin
loaded again, while the isolated runtime closes the slot; the checks of `closed` inside `recover` never
fire when the runtime is in a slot.

## Proofs

`VaultWriteProofs` proves, for any sets of transactions and versions and any bounds (assumptions:
`Marks`, the special values are not versions or transactions; `Bounds`, the bounds are natural
numbers and a promotion, which has eight attempts, sees at most seven failures):

- `TypeCorrect`: `Spec => []TypeOK`. The type invariant is inductive; one lemma for each group of actions
  (`RoutineTyped`, `LiveTyped`, `RecoveryTyped`, `FailureTyped`, `ExternalTyped`, `BeginTyped`), one step for each
  action below it.
- `NeverOverwrites`: `Spec => KernelNeverOverwrites`. A step of the kernel that changes the note either
  fills a free or torn name, which is clear from the exclusive create, or takes the name away, which
  only the claiming rename does. That this rename hits the note in a live transaction only is not
  visible in one step: the routine that removes a file does not know who called it. The inductive
  invariant `ClaimsInOpenVault` records it: as long as the routine works on the note, the vault is open,
  and the two labels from which a removal of the note starts belong to live saves. `NamesApart` and
  `SlotNames` give the facts about file names.

`VaultWriteDurability` proves, from the same assumptions and for any number of transactions, with every
crash, failing call and write of another program the model has:

- `NothingEverLost`: `Spec => []NothingLost`, `AlwaysSurfaced`: `Spec => []Surfaced`, `AlwaysDisplacedKept`:
  `Spec => []DisplacedKept`, and `NoteAlwaysStays`: `Spec => []NoteStays`.

None of the four is inductive: that a version survives the next removal depends on where else its bytes
are, and the code never looks; it knows from the label it has reached and the phase of the journal. The
inductive invariant `Durable` writes that knowledge down. `Works`, `Task` and `Holds` say which routine runs
on which files at each label and what those hold while it runs, with the bytes under the hidden claim name at
its inner steps. `Files`, `Displaced` and `Retired` say which private files a transaction has at each label, while
it waits for recovery, and when it is over. `RevKept` names, for each removal, the second place that holds the bytes
(the evidence for a rollback copy, the target for a staged file, the rollback copy for the note); only the note
can lose them behind the kernel's back, and then an external program has deleted or replaced them and they are
no longer owed. `Relied` joins these with the property: every version owed is in a file that will not be
overwritten. `NoteHeld` says who will put back a note that is missing though nobody deleted it. TLC checked
`Durable` on the instance of `write_faults` and with two transactions before the proof. The proof has one lemma
for the removal and installation routines (`RoutineKeeps`), one for each label of the live transaction
(`LiveKeeps`) and of recovery (`RecoveryKeeps`), and one each for failing calls, other programs and the start of a save.

`VaultWriteRefinement` proves, from the same assumptions, that the write transaction implements its abstract
specification:

- `Refinement`: `MaxLate = 0 => (HistorySpec => Implements)`. For any bounds on saves, crashes, failing calls and
  changes by other programs, the initial states of `VaultWrite` are initial states of `KeepBoth`, and every step is a step of
  `KeepBoth` under the mapping of `VaultWriteKeeps`, or none (`StepImplemented`). `MaxLate = 0` because a write
  through an old descriptor reaches a file that is no longer the note, as for `NoteStays`. `KeepBoth` states no
  fairness, so the proof needs none.

`TypeOK` and `Durable` are not enough: that a step is allowed in `KeepBoth` depends on what the name has held and on
where the proposal has been. The invariant `Faithful` adds it. `Known`: what is at the name has been recorded as held.
`Stores`: rollback copies are of versions the name has held, and a proposal whose staged file is gone, of a
save that was accepted, has reached its place. `Sights`: a live save that has not moved the note aside
has a version there, or another program left none. `Moves`: what the claim and the rollback file hold while the
note is aside, which is why giving it back is `Restore` and filling the name is `Swap`. `Stages`: each label of
the save goes with a phase of its journal. `Reaches`: the staged file is removed only when its text has been
in the note or is in a copy, which is what `Close` asks. The note that counts (`LogicalNote`) is defined by the
files that exist; `NoteIs` shows that under the invariant it is `NoteSeen`, which reads off the label of the save whether
the note is aside, and in which file. The proof then has one lemma for each step of `KeepBoth` (`MapSwap`, `MapCopy`, `MapRestore`, `MapFail`,
`MapExternal`, `MapStage`, `MapNothing`), which says what a step of the files has to show to be that step, and
one for each action, or group of actions, of `VaultWrite`. TLC checked `Faithful` on the instance of
`write_settles` before the proof.

`WatchIndexProofs` proves, for any set of paths, any choice of root paths and any stories (assumptions:
`Folders`, the root's paths are paths; `Bounds`, the bounds are natural numbers):

- `TypeCorrect`: `Spec => []TypeOK`, inductive as it stands.
- `GoesForward`: `Spec => IndexForward`. A refresh reads the folder as it is, and cannot bring the index back
  as long as the index is not ahead of the folder. A rebuild replaces the index by what it read some time
  ago. That this is harmless rests on the lock, and is not visible in one step; the inductive invariant
  `Ordered` (theorem `StaysOrdered`) says it in four parts. `Readings`: nothing that was read is newer than
  the folder. `RebuildAhead`: what the running rebuild has read is at least as new as the index. `OneReader`:
  no job behind the one that holds the lock has read anything. `CensusFirst`: at most one installation of a
  census is queued, and while it is, no scan has sent a batch.
- `AlwaysIndexed`: `Spec => []NotesIndexed`, `NeverGhosts`: `Spec => []NoGhostsOnceSeen`, and `SnapshotAlwaysReached`:
  `Spec => []SnapshotReached`, all from the invariant `Kept`.

Nobody keeps a list of what is out of date. That no change is lost is spread over the notification, the timers, the
scan, the jobs and the running rebuild, and each step hands it from one to another. `Kept` says where it can be.
`Tracked`: for every note of the folder somebody is still due to look (`Alert`: a notification, an armed or
elapsed timer, a flag of the startup), or a scan is looking (`Scanning`), or the snapshot has the note as it is, or a
job will read it again (`Reread`), or what the index has, or is about to get from the running rebuild
(`Prospect`), is what is in the folder. `Reported` is the other half: what the snapshot has will be read again or has
reached the index, so a note the watcher believes reported is not forgotten with its batch. `Gone` is `Tracked` for
notes that are gone, which only the snapshot can tell of. `Fresh`: what a scan has read, and the batch it has
sent, is in the folder or somebody is alert. `AllPast`: nothing was read that was not in the folder, so what is
not older than the folder is what is there. `Placed` is the bookkeeping: `Owned` and `OneScan` say that a scan waits for its
one job, which is why the end of that job may end the scan; `Flags` says which flags of the watcher go with which
state of the census, for instance that a watcher that is not ready will catch up. The folder's steps make somebody alert (`FolderNoticed`), the
watcher's end one reason to look only for another (`StillAlert`, `ComparePosts`), and after a step of the jobs each
note will be read again, or is as it was, or the index has what the folder has (`JobsServe`). Each of the five
steps in `GivesUp` is where one of these lemmas needs it; that is how the list was found to be complete. TLC
checked `Kept` on the instance of `index` before the proof.

`WorkspaceTabsProofs` proves, for any notes and users, any finite number of overlapping runs of the timer, any
stories and any limit on the assembly of a
snapshot (assumptions: `Apart`, the names of savers, runs and the special values are different; `Bounds`, the limit
is a positive number and the stories are stories):

- `TypeCorrect`: `Spec => []TypeOK`. It is not inductive: an absence has been read at most as often as the limit
  and the reads of it that are under way allow (`Tried`), a pass reads only while it runs (`Resting`), each
  caller of the store has one call at most, which is in the queue until it is answered (`Queued`), and only an
  operation that publishes waits for a snapshot (`Publishes`). `Sound` joins them with the types.
- `ShownAlwaysCurrent`: `Spec => []ShownCurrent`. Nobody publishes the layout when changing it; a snapshot is
  assembled later, and a later change makes it stale. `Announced` says that nothing is forgotten: the layout
  published last is the current one, or a snapshot was given up, or somebody still owes one (`Upcoming`: a
  snapshot is wanted or taken, or an operation or a pass has changed the layout and has not asked for one yet).
- `NeverApart`: `Spec => StoreAgrees` at every state. The document, what the runtime takes it to be and the
  layout in memory drift apart and meet again while several callers compare and save; that they are the same
  when nothing is under way rests on two facts. `Compared`: at most one save has been made that its caller has
  not heard of, and then everyone in the queue compares with something else and is refused; otherwise those
  who would be refused wait before those who would not. `Promised`: the layout in memory is what the document
  says or the best-effort save under way will make it say, or somebody is still due to save it: a pass that
  has closed a tab, a caller about to adopt what was saved, or a best-effort save behind the one under way.
  `Compared` holds as long as no save changed nothing (`ghost.blind`), `Promised` as long as none failed either
  (`ghost.failed`), as `StoreAgrees` itself.
- `TabsAlwaysFollow`: `Spec => []TabsFollow`. For the tabs that are gone, `Leaving` suffices: the mark of a
  confirmed removal stays until the file is back, and every copy is rid of the marked tabs before it is adopted.
  A tab that is owed may be lost in three ways: by a pass, by a move, by another caller's copy. `Sighted`: no
  look has missed its file, nor will the one under way. `Untold`: no move or removal that is still to be told
  names it. `Copied`: a copy that the store has accepted, or would accept now, has the tab; this one rests on
  `Compared`, since a caller whose copy is older is refused as long as the compare notices it. `Standing` adds
  that the file of an owed tab is in the folder or held by a transaction and not marked, and needs `StoreAgrees` for
  a restart. TLC checked the four and `Leaving` before the proof, on stories of up to three operations and ten million
  states. The attempt showed that the property had been true of the stories chosen before and not of all: a
  held file whose reads are not answered (9), and a third operation that makes the compare blind (5) each lose an owed
  tab. Both are behaviours of the code, which TLC confirmed; the ghosts name them now, and the first is a story.

`LinkedMovesProofs` proves, for any vault, any list of notes whose links are rewritten, and any number of crashes,
failing calls and changes by other programs (assumptions: `StoriesOK`, the links of a request are different
notes or the source, and a contained file, which is an attachment, has no links of its own to rewrite; `Names`,
the two names are different and not those of other notes):

- `TypeCorrect`: `Spec => []TypeOK`. A file is written or installed by a routine that does not know who called
  it; that what it writes, and the entry whose status is recorded, are those of the move needs `Placed`.
  `Journalled`: at each label of the move and of the rename the journal that the step updates is there.
  `Indexed`: the entry worked on is one of the list. `Called`: the routine writes old or rewritten bytes, and
  the recovery copy is installed only under the old name, after the old name was removed. There is one step
  for each action and below it one for each part of the invariant.
- `SourceAlwaysSafe`: `Spec => []SourceSafe`. The bytes of the moved file are checked some steps before a name is
  taken away. `Secured` says what still holds then, if nobody else has changed the name since: from the first check to
  the removal the old name has its bytes (`Before`), at the removal the new one has them too, and the recovery
  copy is complete (`HasEvidence`); so the step that removes the old name leaves the copy and the new name, and
  every step that removes the new name leaves the old one.
- `OthersAlwaysStay`: `Spec => OthersStay`. Every step that changes a file (`Overwrites`) has compared it in the same
  step with bytes of the program's own, or creates the name exclusively. `Called` gives that for the note
  write, whose expected bytes come from its caller.
- `LinksAlwaysReach`: `Spec => []LinksReach`, and `ReceiptsTrue`: `Spec => ReceiptTrue`, from the invariant `Linking`.

A move goes over its notes one by one, and may be stopped, fail or be disturbed between any two, before, in or
after the rename; what the notes hold is then known only through the journal. `Linking` says what it is known
by, for the files nobody else has changed. `Phases`: in which phase of the journal each label works, which of them belong to
a contained attachment, and that a rename on its own has no journal of a move. `Entries` (`EntryTrue`): what the status of
a note says of its bytes in each phase; a pending note may hold either, an applied one is rewritten as long
as no rollback runs, a conflict has a copy. `Passed`: which notes the loop has behind it. `Targets` and `Written`: the write
that runs is the entry's, and it goes well if nobody else changed that entry. `Standing`: while links are rewritten the
file stays under its old name, a published copy stays, and what a committed journal stands for. `Named`: at each
label of the rename, of its recovery and of the copying back, what the two names hold, and what the result of the rename
says to the move that waits for it. `Finished`: a move that may be archived has ended all rewritten (`Forward`), all
as before (`Backward`), or, when somebody interfered, with every name own bytes of either kind (`Halfway`); `LinksReach`
is what the three have in common. `RenamesKeep` shows that the steps of the rename leave everything but `Named` alone,
`GoesOn`, `RollbackBegins`, `CommitLinks` and `ReceiptLinks` say when a step of the move may do what it does, `Disturbed` why a
publication may give up, and there is one step for each action. TLC checked the eight parts before the proof, on eight stories with
up to three changes by others, three crashes and two faults (5 056 000 states), which is more than the instance of `moves` has.

`PluginRuntimeProofs` proves, for any plugins, any supply of renderers and any stories (assumptions: `Apart`, the
special places and values are not plugins or renderers; `Bounds`, the stories are stories; `Enough`, there are
enough renderers for the runtimes a story begins with):

- `TypeCorrect`: `Spec => []TypeOK`, `RenderersAlwaysOwned`: `Spec => []RenderersOwned`, and
  `FailuresAlwaysStayHome`: `Spec => FailuresStayHome`, all from the invariant `Supervised`.
- `EnvironmentAlwaysAgreed`: `Spec => []EnvironmentAgreed`, from the invariants `Supervised` and `Agreeing`.

Nothing in the code records which renderers run: a process belongs to the runtime that holds its port, and that
runtime is moved between places, retried, closed and forgotten. `Owned` says that no two runtimes hold one
process (`OnePlace`), that a runtime with a process has a place (`Housed`) and that every process has a
runtime (`Kept`). That it is kept when a runtime is forgotten needs to know that its renderer is gone by then:
`Sound` says, for each step of a recovering runtime, whether it has a renderer, and `Renewed` that a new runtime whose
opening failed has none. `Served` says for whom the isolated runtime works, so that the place a new runtime is moved to
is empty; `Closings` and `Unloads` say that only the runtime it waits for is closing or unloading, which also gives
`FailuresStayHome`: the other plugins' runtimes are asked for nothing that takes their plugin away. `Ended`
gives the last clause of `RenderersOwned`. TLC checked `Supervised` on the instance of `plugins` before the
proof. The proof has one lemma for each way of passing a renderer on (`OwnedStays`, `OwnedMoves`, `OwnedEnds`,
`OwnedSpawns`), one for each kind of step, and one for each action.

A renderer can be lost at any moment, and its replacement starts with neither environment nor plugin; what a
runtime counts as active and acknowledged is then true again only if the recovery has gone through or has
given up. `Agreeing` says what is known meanwhile. `Believing`: at each step of a recovering runtime, what it
remembers (`Minds`: during a recovery nothing is active, and a recovery in the middle of a change is marked) and what it
may take for granted of its renderer (`Knows`: with every answer the renderer has the environment the runtime has
recorded, and an active plugin is loaded). `Blanks`: the idle runtime, and one that is opened, never had a plugin, so one
that is taken for a plugin cannot recover somebody else's. `Telling`: every loaded plugin has been told of the layout,
unless its renderer replaced another or it is just being loaded (`Settling`). `Loads`, `Waiting` and `Changes`: which
runtimes may be at work for the running call and what they were asked, so that an answer is one to that call.
`Updating`: one environment at a time is under way, and it is the bridge's last. `Dressing`: once the bridge has its
acknowledgement every runtime has that environment or is marked, which rests on the acknowledgement being taken only
when every slot, and the idle runtime before them, has answered in order. A runtime that recovers in the middle of a
change restores the environment before it and answers the call all the same: hence the mark, and the run
`plugins_environment` shows what happens without it. TLC checked `Agreeing` on the instance of `plugins` and on six wider stories (718 000 states)
before the proof.

`EditorSessionProofs` proves, for any texts, any number of conflict copies and any stories (assumptions: `Marks`, the
value for a missing file is neither a text nor a number; `Bounds`, the bounds are natural numbers and the
stories are stories):

- `TypeCorrect`: `Spec => []TypeOK`, `TextAlwaysKept`: `Spec => TextKept`, and `AlwaysShowsDisk`: `Spec => []ShowsDisk`, all
  from the invariant `Inv`;
- `DraftsAlwaysOwned`: `Spec => DraftOwned`, from `Inv`, `StoredLast` and `Patient`;
- `DraftsAlwaysMirror`: `Spec => []DraftMirrors`, from these and `Undisturbed`;
- `FlushAlwaysReaches`: `Spec => FlushReachesAlone`, from `Inv` and `Solo`.

The pane's functions pass its record on through up to five calls in one task, and none of the first three properties
holds of a pane in the middle. So the proof first says of each function what it makes of any pane in order:
those that save, schedule and clear leave the document alone (`Same`); a snapshot reconciled with a pane that
may be out of date leaves it true to that snapshot and a dirty text untouched (`ReconcileSound`); an edit that
undoes the last difference takes the pending disk version, and only then is the pane right again
(`TypedSound`); a recovered draft passes through a pane whose note has a missing text (`RecoveredSound`). `Fit` is
what a pane needs to be written back: a dirty pane shows a note, a save under way has a text and a base
revision, and a queued draft is complete, which is why the revision compared by the kernel is never that of no
note. `Clean` and `Agrees` relate the text, the loaded note and the snapshot last taken. `Current` relates the snapshot
to the runtime: the last message that shows a note shows what was published last, or none is under way and
the pane has taken it, although a reply and a push of one save may come in either order. `ShowsDisk` is `Clean`,
`Agrees` and `Current` for an empty inbox. Two lemmas show that the model's choices have a value: there is always a fresh
draft identity (`FreshIds`, by the pigeonhole principle) and a first free copy (`CopyPaths`). TLC checked `Inv`, with
draft identities up to 9, on the instance of `session` before the proof.

The drafts and the flushes need more of each function than that a pane stays in order: what it does with the
queue of draft operations, with the identity of the draft and with the two counters (`StartSaveFields`,
`TypedFields`, `ReconcileFields` and the like). From these every step is of one of eight kinds (`StepKinds`), which say
what becomes of draft, queue and text. `StoredLast`: a dirty text's draft is scheduled, or the last operation of the
queue, or in the file; that is the first half of `DraftMirrors`. `Patient`: every draft that is stored or queued is of
a text that is done with or still in the editor, and a window that looks its draft up has nothing else under way;
that is why a draft is replaced or removed only when its text is safe.

The second half of `DraftMirrors` needs `Undisturbed`. Every stored or queued draft other than that of the pane is
removed by an operation behind it in the queue, and a clean pane that has a draft still waits for its save
(`Accounted`). That this is kept when a snapshot arrives depends on what the messages under way show, and so on the
stage of the save: before it is sent they show one text; once it is sent nothing but the saved text follows
the saved text, and the runtime answers once (`Coherent`); the vault holds what was published unless a save is about to
publish (`Published`). A snapshot of another text than the saved one cannot come in between, which is where a
draft would be forgotten.

`FlushReachesAlone` needs `Solo`: an edit is counted as not yet written, and a save that carries the last count
carries the last text (`Counted`); the save is with the pane, in the queue of the runtime or written, and in each
case the vault, the last view and the messages are those of the loaded revision or of the saved text (`Stage`). So
the document is never replaced, the counters are never reset, and a flush that is answered leaves no count, hence no
edit, behind. TLC checked `Undisturbed`, `Patient`, `StoredLast` and `Solo` on the instance of `session` before the
proofs.

Only model-checked: `ExternalStays` of `VaultWrite`, and the liveness properties (liveness under fairness is out of the
proof system's reach).

## Not modelled, and the plan

In order of importance; each becomes a module and a row above.

1. Proofs: `ExternalStays` of `VaultWrite`, for one transaction.
2. Workspace runtime: going through the history, the deferred and cached census.
3. Attachment transactions, whose strict path differs in how names are claimed.
4. Workspace controller, private state lock, migration and package transactions.

Left aside: the Obsidian compatibility surface, live preview and the rest of the presentation, the command
line's parsing, cryptographic trust checks, generated catalogues and the corpus tools. They are pure
functions, adapters or data, without protocol state of their own; `PROJECT.json` gives the reason for each.
