---------------------------- MODULE WorkspaceTabs ----------------------------
(***************************************************************************)
(* The open tabs of a workspace (src/application/workspace-runtime.ts) and *)
(* the private document that keeps them                                    *)
(* (src/main/file-workspace-state-store.ts).                               *)
(*                                                                         *)
(* Three kinds of actors change the tabs, and none waits for another: the  *)
(* user's operations, which save a changed copy of the layout and then     *)
(* adopt the copy; the watcher's batches and the kernel's moves and trash, *)
(* under the index lock; and the timer that confirms absences.  What the   *)
(* index does with a batch is in WatchIndex, a write transaction in        *)
(* VaultWrite: here a batch makes the index what the folder is, and a      *)
(* transaction holds a file aside and gives it back.                       *)
(*                                                                         *)
(* An action is the code between two awaits.  A layout is the set of open  *)
(* paths with a bit for all the rest: order, pins, panes and selection,    *)
(* which the operations called Arrange change.  Going back and forward in  *)
(* the history is left out.                                                *)
(***************************************************************************)
EXTENDS Naturals, Sequences, FiniteSets

CONSTANTS
  Path,         \* the notes
  User,         \* operations that may be under way at once
  Timers,       \* runs of settleAbsencesFromWake that may be under way at once
  NoPath,       \* no note
  Free,         \* nobody holds the index lock
  MaxAssembly,  \* maximumWorkspaceSnapshotAssemblyAttempts
  Stories       \* bounds: what may happen

Layout == [open : SUBSET Path, look : BOOLEAN]
Passes == {"batch"} \cup Timers     \* who runs settleUnconfirmedAbsences
Savers == User \cup {"tail"}      \* who calls the store: an operation, or the best-effort tail
Readers == User \cup Passes       \* who publishes a snapshot when done
MaybePath == Path \cup {NoPath}

\* confirmedAbsenceObservations, maximumAbsenceConfirmationAttempts
Confirmed == 2
MaxAttempts == 4

Story == [tabs : SUBSET Path, files : SUBSET Path,
          ops : Nat, moves : Nat, external : Nat, holds : Nat,
          unknown : Nat, faults : Nat, edits : Nat, restarts : Nat, overlaps : Nat]
ASSUME Apart ==
  /\ NoPath \notin Path /\ Free \notin User /\ IsFiniteSet(Timers)
  /\ User \cap ({"tail", "batch"} \cup Timers) = {} /\ Timers \cap {"tail", "batch"} = {}
ASSUME Bounds == MaxAssembly \in Nat \ {0} /\ Stories \subseteq Story

VARIABLES
  files,      \* the notes that are in the folder
  held,       \* notes a write transaction holds aside
  index,      \* the notes the index lists
  moved,      \* a move that neither the watcher nor its caller has reported
  tabs,       \* #panes: the layout in memory
  absences,   \* #unconfirmedAbsences
  removed,    \* #confirmedRemovalPaths
  wake,       \* #absenceWake is set
  persisted,  \* #workspacePersistedState
  tail,       \* #workspacePersistenceTail: whose best-effort saves are due
  stored,     \* the document of the store
  queue,      \* #writeTail of the store
  save,       \* the calls of the store
  lock,       \* who holds the index lock
  pass,       \* the runs of settleUnconfirmedAbsences
  op,         \* the operations of the user
  snap,       \* the snapshots that are being assembled
  shown,      \* the layout published last
  left,       \* what is left of the bounds
  ghost       \* what the properties remember

folder == <<files, held, index, moved>>
store == <<stored, queue, save, persisted>>
absent == <<absences, wake>>
rest == <<left, ghost>>
vars == <<files, held, index, moved, tabs, absences, removed, wake, persisted, tail, stored,
          queue, save, lock, pass, op, snap, shown, left, ghost>>
-----------------------------------------------------------------------------
(* Layouts.                                                                *)

Without(s, P) == [s EXCEPT !.open = @ \ P]

\* moveOpenPath
Moved(s, p, q) == IF p \in s.open THEN [s EXCEPT !.open = (@ \ {p}) \cup {q}] ELSE s

\* Mutant: the saved copy is adopted as it is.
ScrubNothing(s) == s

\* scrubConfirmedRemovals: what applyWorkspaceState makes of a layout.
Scrub(s) == Without(s, removed)
-----------------------------------------------------------------------------
(* Absences.  A file that is missing is given time; due says that the next *)
(* look at it may come.                                                    *)

NoAbsence == [known |-> FALSE, due |-> FALSE, seen |-> 0, tries |-> 0]
NewAbsence == [NoAbsence EXCEPT !.known = TRUE]
Missing == {p \in Path : absences[p].known}

\* recordUnconfirmedAbsence
Recorded(known, P) ==
  [p \in Path |-> IF p \in P /\ ~known[p].known THEN NewAbsence ELSE known[p]]
Forgotten(known, P) == [p \in Path |-> IF p \in P THEN NoAbsence ELSE known[p]]

\* Mutant: a pass goes on with the entries it began with.
OutdatedAt(P, r) == [r EXCEPT !.live = @ /\ r.at \notin P]

\* An entry that was deleted is not the one a pass still holds: the pass
\* finds another object under the path, or none, and leaves it alone.
Outdated(P, r) == [r EXCEPT !.todo = @ \ P, !.live = @ /\ r.at \notin P]

\* Only a pass that had an absence before it arms the timer at its end.
NoPass == [pc |-> "idle", todo |-> {}, at |-> NoPath, saw |-> "none", live |-> TRUE,
           changed |-> FALSE, arms |-> FALSE]
-----------------------------------------------------------------------------
(* The bounds and the ghosts.  ghost.owed: the tabs whose files have been  *)
(* there ever since they were opened and that nobody has closed; a refused *)
(* save that drops a removed tab gives up all tabs its copy does not have, *)
(* and so does a saved copy once the compare is blind; an absence whose    *)
(* reads give no answer gives up its tab.                                  *)
(* ghost.gone: confirmed removals whose file has not come back.            *)
(* ghost.blind: a save wrote what the document said already, so that the   *)
(* compare of the save behind it notices nothing.  ghost.failed: a save    *)
(* failed.                                                                 *)
(* ghost.blink: a look found a file that the index does not list.          *)
(* ghost.missed: a snapshot was given up.                                  *)

Spend(what) == left[what] > 0 /\ left' = [left EXCEPT ![what] = @ - 1]
Keep(P) == ghost' = [ghost EXCEPT !.owed = @ \ P]
Saving == \E u \in User : save[u].phase # "none"

\* A file whose tab may begin to be owed: nothing that is still to be told or
\* answered says that it has gone or moved.
Certain(p) ==
  /\ p \in files \ removed /\ ~absences[p].known /\ p # moved.from
  /\ \A r \in Passes : pass[r].at # p
  /\ \A u \in User : op[u].pc = "moving" => op[u].from # p
-----------------------------------------------------------------------------
(* Saving a layout.  The store compares the document with what its caller  *)
(* takes it to be, and writes it whole.                                    *)

NoSave == [phase |-> "none", state |-> [open |-> {}, look |-> FALSE],
           expected |-> [open |-> {}, look |-> FALSE]]
NoOp == [pc |-> "idle", from |-> NoPath, to |-> NoPath]
NoSnap == [pc |-> "none", tabs |-> [open |-> {}, look |-> FALSE], current |-> FALSE, tries |-> 0]
NoMove == [from |-> NoPath, to |-> NoPath]

Call(w, s) ==
  /\ queue' = Append(queue, w)
  /\ save' = [save EXCEPT ![w] = [phase |-> "queued", state |-> s, expected |-> persisted]]

Wanted(S) == [w \in Readers |-> IF w \in S THEN [NoSnap EXCEPT !.pc = "wanted"] ELSE snap[w]]
Stale(sn) == [w \in Readers |-> [sn[w] EXCEPT !.current = FALSE]]
Waits(w) == \E i \in DOMAIN tail : tail[i] = w

\* adoptWorkspaceState, as far as its save.
Adopt(u, s, p) ==
  IF s = tabs
  THEN /\ op' = [op EXCEPT ![u].pc = "publishing"] /\ snap' = Wanted({u})
       /\ UNCHANGED <<queue, save>>
  ELSE /\ Call(u, s) /\ op' = [op EXCEPT ![u] = [pc |-> "saving", from |-> NoPath, to |-> p]]
       /\ UNCHANGED snap

\* Mutant: the store does not compare.
LandUnchecked ==
  /\ queue # << >>
  /\ LET w == Head(queue) IN
       /\ stored' = save[w].state /\ save' = [save EXCEPT ![w].phase = "ok"]
       /\ ghost' = [ghost EXCEPT !.blind = @ \/ save[w].state = stored]
  /\ queue' = Tail(queue)
  /\ UNCHANGED <<folder, tabs, absent, removed, persisted, tail, lock, pass, op, snap, shown, left>>

\* The head of the queue reaches the disk, or is refused.
Land ==
  /\ queue # << >>
  /\ LET w == Head(queue)
         agrees == stored = save[w].expected
     IN /\ stored' = IF agrees THEN save[w].state ELSE stored
        /\ save' = [save EXCEPT ![w].phase = IF agrees THEN "ok" ELSE "no"]
        /\ ghost' = [ghost EXCEPT !.blind = @ \/ save[w].state = stored]
  /\ queue' = Tail(queue)
  /\ UNCHANGED <<folder, tabs, absent, removed, persisted, tail, lock, pass, op, snap, shown, left>>

\* The document cannot be read or written.
SaveFails ==
  /\ queue # << >> /\ Spend("faults")
  /\ save' = [save EXCEPT ![Head(queue)].phase = "no"]
  /\ queue' = Tail(queue)
  /\ ghost' = [ghost EXCEPT !.failed = TRUE]
  /\ UNCHANGED <<folder, tabs, absent, removed, persisted, tail, stored, lock, pass, op, snap, shown>>

\* persistWorkspaceStateBestEffort: one after the other, the layout of that time.
TailRun ==
  /\ tail # << >> /\ save["tail"].phase = "none"
  /\ IF persisted = tabs
     THEN tail' = Tail(tail) /\ UNCHANGED <<queue, save>>
     ELSE Call("tail", tabs) /\ UNCHANGED tail
  /\ UNCHANGED <<folder, tabs, absent, removed, persisted, stored, lock, pass, op, snap, shown, rest>>

TailAnswered ==
  /\ save["tail"].phase \in {"ok", "no"}
  /\ persisted' = IF save["tail"].phase = "ok" THEN save["tail"].state ELSE persisted
  /\ save' = [save EXCEPT !["tail"] = NoSave] /\ tail' = Tail(tail)
  /\ UNCHANGED <<folder, tabs, absent, removed, stored, queue, lock, pass, op, snap, shown, rest>>
\* No layout is being saved and no change waits to be.
Saved ==
  /\ queue = << >> /\ tail = << >> /\ \A w \in Savers : save[w].phase = "none"
  /\ \A r \in Passes : ~pass[r].changed
-----------------------------------------------------------------------------
(* The user's operations.                                                  *)

\* The names of the operations mean nothing: an idle one begins.
Starts(u) ==
  op[u].pc = "idle" /\ u = (CHOOSE v \in User : op[v].pc = "idle") /\ Spend("ops")
Unmoved == UNCHANGED <<folder, tabs, absent, persisted, tail, stored, lock, pass, shown>>

\* selectNote: the note must be in the index, and then it is read.  A tab whose
\* file is missing is only selected (Arrange).
Select(u) ==
  /\ Starts(u) /\ lock = Free
  /\ \E p \in index :
       /\ p \notin tabs.open \/ ~absences[p].known
       /\ op' = [op EXCEPT ![u] = [pc |-> "opening", from |-> NoPath, to |-> p]]
  /\ Unmoved /\ UNCHANGED <<removed, queue, save, snap, ghost>>
OpenTab(u) ==
  /\ op[u].pc = "opening"
  /\ LET p == op[u].to IN
       /\ p \in files /\ removed' = removed \ {p}
       /\ \E look \in BOOLEAN : Adopt(u, [open |-> tabs.open \cup {p}, look |-> look], p)
  /\ Unmoved /\ UNCHANGED rest
OpenUnread(u) ==
  /\ op[u].pc = "opening" /\ op[u].to \notin files
  /\ op' = [op EXCEPT ![u] = NoOp]
  /\ Unmoved /\ UNCHANGED <<removed, queue, save, snap, rest>>

\* closeNoteThroughWorkspace
CloseTab(u) ==
  /\ Starts(u)
  /\ \E p \in tabs.open : Adopt(u, Without(tabs, {p}), NoPath) /\ Keep({p})
  /\ Unmoved /\ UNCHANGED removed

\* Selecting a tab whose file is missing, pinning, reordering, splitting,
\* focusing and closing a pane, moving a tab to the other pane.
Arrange(u) ==
  /\ Starts(u) /\ tabs.open # {}
  /\ Adopt(u, [tabs EXCEPT !.look = ~@], NoPath)
  /\ Unmoved /\ UNCHANGED <<removed, ghost>>

\* adoptWorkspaceState after its save: the saved layout is adopted without the
\* tabs whose removal was confirmed meanwhile, and then the document repaired.
UserSaved(u) ==
  /\ save[u].phase = "ok"
  /\ LET s == Scrub(save[u].state) IN
       /\ tabs' = s
       /\ ghost' = [ghost EXCEPT !.owed = (IF ghost.blind THEN @ \cap s.open ELSE @)
                                         \cup {p \in {op[u].to} \cap s.open : Certain(p)}]
       /\ IF s = save[u].state
          THEN /\ op' = [op EXCEPT ![u] = [NoOp EXCEPT !.pc = "publishing"]]
               /\ snap' = Wanted({u}) /\ UNCHANGED tail
          ELSE /\ op' = [op EXCEPT ![u] = [NoOp EXCEPT !.pc = "repairing"]]
               /\ tail' = Append(tail, u) /\ UNCHANGED snap
  /\ persisted' = save[u].state
  /\ save' = [save EXCEPT ![u] = NoSave]
  /\ UNCHANGED <<folder, absent, removed, stored, queue, lock, pass, shown, left>>

\* A refused save fails the operation, unless a removal has been confirmed
\* meanwhile: the copy without it is adopted, over what the store has.
UserRefused(u) ==
  /\ save[u].phase = "no"
  /\ LET s == Scrub(save[u].state) IN
       IF s = save[u].state
       THEN op' = [op EXCEPT ![u] = NoOp] /\ UNCHANGED <<tabs, tail, ghost>>
       ELSE /\ tabs' = s /\ tail' = Append(tail, u)
            /\ op' = [op EXCEPT ![u] = [NoOp EXCEPT !.pc = "repairing"]]
            /\ ghost' = [ghost EXCEPT !.owed = @ \cap s.open]
  /\ save' = [save EXCEPT ![u] = NoSave]
  /\ UNCHANGED <<folder, absent, removed, persisted, stored, queue, lock, pass, snap, shown, left>>

Repaired(u) ==
  /\ op[u].pc = "repairing" /\ ~Waits(u)
  /\ op' = [op EXCEPT ![u].pc = "publishing"] /\ snap' = Wanted({u})
  /\ UNCHANGED <<folder, tabs, absent, removed, tail, store, lock, pass, shown, rest>>
-----------------------------------------------------------------------------
(* Moves and trash.  The kernel has changed the folder before the index    *)
(* and the tabs follow, under the index lock.                              *)

Renames(p, q) ==
  /\ files' = (files \ {p}) \cup {q} /\ moved' = [from |-> p, to |-> q]
  /\ ghost' = [ghost EXCEPT !.owed = @ \ {p}, !.gone = @ \ {q}]
  /\ UNCHANGED <<held, index>>

\* A tab that follows its file is owed from then on, unless a layout is being
\* saved or the new name still carries the mark of a removal.
Owing(q) ==
  IF Certain(q) /\ ~Saving THEN [ghost EXCEPT !.owed = @ \cup {q}] ELSE ghost
Follow(p, q) == IF p \in tabs.open THEN Owing(q) ELSE ghost

\* withIndexMutation: a changed layout is saved before the lock is given back.
Integrate(u) ==
  IF tabs' # tabs
  THEN /\ tail' = Append(tail, u) /\ lock' = u
       /\ op' = [op EXCEPT ![u].pc = "reconciling"] /\ snap' = Stale(snap)
  ELSE /\ op' = [op EXCEPT ![u].pc = "publishing"] /\ snap' = Stale(Wanted({u}))
       /\ UNCHANGED <<tail, lock>>

MoveNote(u) ==
  /\ Starts(u) /\ moved = NoMove
  /\ \E p \in files, q \in Path \ (files \cup held) :
       /\ Renames(p, q)
       /\ op' = [op EXCEPT ![u] = [pc |-> "moving", from |-> p, to |-> q]]
  /\ UNCHANGED <<tabs, absent, removed, tail, store, lock, pass, snap, shown>>

TrashNote(u) ==
  /\ Starts(u) /\ moved = NoMove
  /\ \E p \in files :
       /\ files' = files \ {p} /\ Keep({p})
       /\ op' = [op EXCEPT ![u] = [pc |-> "moving", from |-> p, to |-> NoPath]]
  /\ UNCHANGED <<held, index, moved, tabs, absent, removed, tail, store, lock, pass, snap, shown>>

\* moveNoteThroughKernel, deleteNoteThroughKernel after the kernel's part.
FinishMove(u) ==
  /\ op[u].pc = "moving" /\ lock = Free
  /\ LET p == op[u].from
         q == op[u].to
     IN /\ q \in files \cup {NoPath}
        /\ index' = (index \ {p}) \cup ({q} \ {NoPath})
        /\ moved' = IF moved = [from |-> p, to |-> q] THEN NoMove ELSE moved
        /\ tabs' = IF q = NoPath THEN Without(tabs, {p}) ELSE Moved(tabs, p, q)
        /\ ghost' = IF q = NoPath THEN ghost ELSE Follow(p, q)
  /\ Integrate(u)
  /\ UNCHANGED <<files, held, absent, removed, store, pass, shown, left>>

\* A note is saved, created, or found by the name it was to have.  In a conflict
\* it gets another name, and the name it was to have may be missing.
WriteNote(u) ==
  /\ Starts(u)
  /\ \E p \in Path \ held, o \in MaybePath \ (files \cup held) :
       /\ o # p /\ (o # NoPath => p \notin files)
       /\ files' = files \cup {p} /\ ghost' = [ghost EXCEPT !.gone = @ \ {p}]
       /\ moved' = IF p = moved.from THEN NoMove ELSE moved
       /\ op' = [op EXCEPT ![u] = [pc |-> "writing", from |-> o, to |-> p]]
  /\ UNCHANGED <<held, index, tabs, absent, removed, tail, store, lock, pass, snap, shown>>

\* reconcileNoteWrite, integrateNoteCreateOutcome: the tab is opened in place,
\* but for a note that a plugin creates or that exists already.
FinishWrite(u) ==
  /\ op[u].pc = "writing" /\ lock = Free
  /\ LET p == op[u].to
     IN /\ p \in files
        /\ index' = (index \ {op[u].from}) \cup {p}
        /\ tabs' \in {tabs} \cup [open : {tabs.open \cup {p}}, look : BOOLEAN]
        /\ ghost' = IF p \in tabs'.open THEN Owing(p) ELSE ghost
  /\ Integrate(u)
  /\ UNCHANGED <<files, held, moved, absent, removed, store, pass, shown, left>>

\* The note cannot be read: the operation fails, the watcher will tell.
NoteUnread(u) ==
  /\ op[u].pc \in {"moving", "writing"} /\ op[u].to \in Path \ files
  /\ op' = [op EXCEPT ![u] = NoOp]
  /\ UNCHANGED <<folder, tabs, absent, removed, tail, store, lock, pass, snap, shown, rest>>

Reconciled(u) ==
  /\ op[u].pc = "reconciling" /\ ~Waits(u)
  /\ lock' = Free
  /\ op' = [op EXCEPT ![u].pc = "publishing"] /\ snap' = Wanted({u})
  /\ UNCHANGED <<folder, tabs, absent, removed, tail, store, pass, shown, rest>>
-----------------------------------------------------------------------------
(* The watcher's batches, and the confirmation of absences.                *)

Start(r, known, changed) == [pass EXCEPT ![r] =
  [NoPass EXCEPT !.pc = "running", !.todo = {p \in Path : known[p].known},
                 !.changed = changed, !.arms = \E p \in Path : known[p].known]]
Forget(P) ==
  /\ absences' = Forgotten(absences, P)
  /\ pass' = [r \in Passes |-> Outdated(P, pass[r])]

Batch ==
  /\ lock = Free /\ pass["batch"].pc = "idle" /\ snap["batch"].pc = "none" /\ index # files
  /\ lock' = "batch" /\ index' = files /\ moved' = NoMove /\ snap' = Stale(snap)
  /\ UNCHANGED <<files, held, removed, wake, tail, store, op, shown, left>>

\* acceptWatchBatch, incremental: tabs follow a move, a deletion is only noted.
AcceptChanges ==
  /\ Batch
  /\ tabs' = Moved(tabs, moved.from, moved.to)
  /\ ghost' = IF moved = NoMove THEN ghost ELSE Follow(moved.from, moved.to)
  /\ absences' = Recorded(absences, index \ (files \cup {moved.from}))
  /\ pass' = Start("batch", absences', tabs' # tabs)

\* acceptWatchBatch after a rebuild: it names no paths.
AcceptRebuild ==
  /\ Batch
  /\ pass' = Start("batch", absences, FALSE)
  /\ UNCHANGED <<tabs, absences, ghost>>

\* settleAbsencesFromWake, at the end of the earliest window: it waits neither
\* for the run of an earlier timer nor for a batch.
WakeFires ==
  LET idle == {r \in Timers : pass[r].pc = "idle" /\ snap[r].pc = "none"}
  IN /\ wake /\ wake' = FALSE
     /\ Missing = {} \/ \E p \in Missing : absences[p].due
     /\ idle # {} /\ pass' = Start(CHOOSE r \in idle : TRUE, absences, FALSE)
     /\ IF idle = Timers THEN UNCHANGED left ELSE Spend("overlaps")
     /\ UNCHANGED <<folder, tabs, absences, removed, tail, store, lock, op, snap, shown, ghost>>

\* settleUntil or nextConfirmationAt of an absence has come.
Elapse ==
  /\ \E p \in Missing : ~absences[p].due /\ absences' = [absences EXCEPT ![p].due = TRUE]
  /\ UNCHANGED <<folder, tabs, removed, wake, tail, store, lock, pass, op, snap, shown, rest>>

\* settleUnconfirmedAbsences, up to the read: one turn of its loop.
Consider(r) ==
  /\ pass[r].pc = "running" /\ pass[r].at = NoPath
  /\ \E p \in pass[r].todo :
       LET skipped == [pass EXCEPT ![r].todo = @ \ {p}] IN
       \/ p \notin tabs.open /\ Forget({p})
       \/ p \in tabs.open /\ ~absences[p].due /\ pass' = skipped /\ UNCHANGED absences
       \/ /\ p \in tabs.open /\ absences[p].due /\ p \in held
          /\ absences' = [absences EXCEPT ![p].due = FALSE] /\ pass' = skipped
       \/ /\ p \in tabs.open /\ absences[p].due /\ p \notin held
          /\ absences' = [absences EXCEPT ![p].due = FALSE, ![p].tries = @ + 1]
          /\ pass' = [skipped EXCEPT ![r].at = p, ![r].saw = "none", ![r].live = TRUE]
  /\ UNCHANGED <<folder, tabs, removed, wake, tail, store, lock, op, snap, shown, rest>>

\* vaultPathExists
Look(r) ==
  /\ pass[r].at # NoPath /\ pass[r].saw = "none"
  /\ \/ pass' = [pass EXCEPT ![r].saw = IF pass[r].at \in files THEN "present" ELSE "absent"]
        /\ UNCHANGED left
     \/ pass' = [pass EXCEPT ![r].saw = "unknown"] /\ Spend("unknown")
  /\ UNCHANGED <<folder, tabs, absent, removed, tail, store, lock, op, snap, shown, ghost>>

\* settleUnconfirmedAbsences after the read
Decide(r) ==
  LET p == pass[r].at
      seen == absences[p].seen + (IF pass[r].saw = "absent" THEN 1 ELSE 0)
      done == [pass EXCEPT ![r].at = NoPath, ![r].saw = "none", ![r].live = TRUE]
      forgotten == [q \in Passes |-> Outdated({p}, done[q])]
  IN
  /\ pass[r].saw # "none"
  /\ \/ ~pass[r].live /\ pass' = done /\ UNCHANGED <<absences, removed, tabs, ghost>>
     \/ /\ pass[r].live /\ pass[r].saw = "present"
        /\ absences' = Forgotten(absences, {p}) /\ pass' = forgotten
        /\ ghost' = [ghost EXCEPT !.blink = @ \/ p \notin index]
        /\ UNCHANGED <<removed, tabs>>
     \/ /\ pass[r].live /\ pass[r].saw # "present"
        /\ seen < Confirmed /\ absences[p].tries < MaxAttempts
        /\ absences' = [absences EXCEPT ![p].seen = seen] /\ pass' = done
        /\ UNCHANGED <<removed, tabs, ghost>>
     \/ /\ pass[r].live /\ pass[r].saw # "present"
        /\ (seen >= Confirmed /\ absences[p].tries >= Confirmed) \/ absences[p].tries >= MaxAttempts
        /\ absences' = Forgotten(absences, {p}) /\ removed' = removed \cup {p}
        /\ tabs' = Without(tabs, {p})
        /\ pass' = [forgotten EXCEPT ![r].changed = @ \/ p \in tabs.open]
        /\ ghost' = [ghost EXCEPT !.gone = @ \cup ({p} \ (files \cup held \cup index)),
                                  !.owed = IF seen < Confirmed THEN @ \ {p} ELSE @]
  /\ UNCHANGED <<folder, wake, tail, store, lock, op, snap, shown, left>>

\* Mutant: the end of the loop leaves the timer alone.
SettledUnarmed(r) ==
  /\ pass[r].pc = "running" /\ pass[r].at = NoPath /\ pass[r].todo = {}
  /\ IF pass[r].changed
     THEN /\ tail' = Append(tail, r) /\ pass' = [pass EXCEPT ![r].pc = "saving"]
          /\ UNCHANGED <<lock, snap>>
     ELSE /\ pass' = [pass EXCEPT ![r] = NoPass] /\ UNCHANGED tail
          /\ IF r = "batch" THEN lock' = Free /\ snap' = Wanted({r}) ELSE UNCHANGED <<lock, snap>>
  /\ UNCHANGED <<folder, tabs, absences, wake, removed, store, op, shown, rest>>

\* The end of the loop arms the timer; what changed is saved, then published.
Settled(r) ==
  /\ pass[r].pc = "running" /\ pass[r].at = NoPath /\ pass[r].todo = {}
  /\ wake' = IF pass[r].arms THEN Missing # {} ELSE wake
  /\ IF pass[r].changed
     THEN /\ tail' = Append(tail, r) /\ pass' = [pass EXCEPT ![r].pc = "saving"]
          /\ UNCHANGED <<lock, snap>>
     ELSE /\ pass' = [pass EXCEPT ![r] = NoPass] /\ UNCHANGED tail
          /\ IF r = "batch" THEN lock' = Free /\ snap' = Wanted({r}) ELSE UNCHANGED <<lock, snap>>
  /\ UNCHANGED <<folder, tabs, absences, removed, store, op, shown, rest>>

PassSaved(r) ==
  /\ pass[r].pc = "saving" /\ ~Waits(r)
  /\ pass' = [pass EXCEPT ![r] = NoPass] /\ snap' = Wanted({r})
  /\ lock' = IF r = "batch" THEN Free ELSE lock
  /\ UNCHANGED <<folder, tabs, absent, removed, tail, store, op, shown, rest>>
-----------------------------------------------------------------------------
(* Snapshots: a capture under the index lock, the notes read without it,   *)
(* and a last look whether the capture still holds.                        *)

\* getWorkspaceSnapshot, retainTrackedPaths: no tab is dropped here.
Capture(w) ==
  /\ snap[w].pc = "wanted" /\ lock = Free
  /\ LET back == tabs.open \cap index IN
       /\ absences' = Recorded(Forgotten(absences, back), tabs.open \ index)
       /\ pass' = [r \in Passes |-> Outdated(back, pass[r])]
  /\ removed' = removed \ index
  /\ wake' = \E p \in Path : absences'[p].known
  /\ snap' = [snap EXCEPT ![w].pc = "taken", ![w].tabs = tabs, ![w].current = TRUE]
  /\ UNCHANGED <<folder, tabs, tail, store, lock, op, shown, rest>>

Ends(w) == op' = [u \in User |-> IF u = w THEN NoOp ELSE op[u]]
Retry(w, sn) ==
  IF snap[w].tries + 1 < MaxAssembly
  THEN /\ snap' = [sn EXCEPT ![w] = [NoSnap EXCEPT !.pc = "wanted", !.tries = snap[w].tries + 1]]
       /\ UNCHANGED <<op, ghost>>
  ELSE /\ snap' = [sn EXCEPT ![w] = NoSnap] /\ Ends(w)
       /\ ghost' = [ghost EXCEPT !.missed = TRUE]

\* Mutant: only the index is compared.
HoldsIndex(w) == snap[w].current

\* workspaceSnapshotCaptureIsCurrent, publishSnapshot
Holds(w) == snap[w].current /\ snap[w].tabs = tabs
Present(w) ==
  /\ snap[w].pc = "taken" /\ lock = Free
  /\ \/ /\ Holds(w)
        /\ shown' = snap[w].tabs /\ snap' = [snap EXCEPT ![w] = NoSnap] /\ Ends(w)
        /\ ghost' = [ghost EXCEPT !.missed = FALSE]
     \/ ~Holds(w) /\ Retry(w, snap) /\ UNCHANGED shown
  /\ UNCHANGED <<folder, tabs, absent, removed, tail, store, lock, pass, left>>

\* The bytes of a note are ahead of the index: it is refreshed, then once more.
Refresh(w) ==
  /\ snap[w].pc = "taken" /\ lock = Free /\ Spend("edits")
  /\ Retry(w, Stale(snap))
  /\ UNCHANGED <<folder, tabs, absent, removed, tail, store, lock, pass, shown>>
-----------------------------------------------------------------------------
(* Around the application: other programs, transactions, a restart.        *)

Outside == UNCHANGED <<index, tabs, absent, removed, tail, store, lock, pass, op, snap, shown>>

\* Another program; a file it disturbs is no longer the end of a move.
ExtRemove ==
  /\ Spend("external")
  /\ \E p \in files : /\ files' = files \ {p} /\ Keep({p})
                      /\ moved' = IF p = moved.to THEN NoMove ELSE moved
  /\ UNCHANGED held /\ Outside
ExtCreate ==
  /\ Spend("external")
  /\ \E p \in Path \ (files \cup held) :
       /\ files' = files \cup {p} /\ ghost' = [ghost EXCEPT !.gone = @ \ {p}]
       /\ moved' = IF p = moved.from THEN NoMove ELSE moved
  /\ UNCHANGED held /\ Outside
ExtMove ==
  /\ Spend("moves") /\ moved = NoMove
  /\ \E p \in files, q \in Path \ (files \cup held) : Renames(p, q)
  /\ Outside

\* A write transaction moves a note aside for the time of a replacement.  The
\* look that is just about to read the name is not warned.
Hold ==
  /\ Spend("holds")
  /\ \E p \in files :
       /\ files' = files \ {p} /\ held' = held \cup {p}
       /\ IF \E r \in Passes : pass[r].at = p /\ pass[r].saw = "none"
          THEN Keep({p}) ELSE UNCHANGED ghost
  /\ UNCHANGED moved /\ Outside
Release ==
  /\ \E p \in held : /\ held' = held \ {p} /\ files' = files \cup {p}
                     /\ ghost' = [ghost EXCEPT !.gone = @ \ {p}]
  /\ UNCHANGED <<moved, left>> /\ Outside

\* The application ends anywhere and opens again: recovery gives back what was
\* held, the layout is the document's, and what is missing is kept for a while.
Restart ==
  /\ Spend("restarts")
  /\ files' = files \cup held /\ held' = {} /\ index' = files' /\ moved' = NoMove
  /\ tabs' = stored /\ persisted' = stored /\ shown' = stored /\ removed' = {}
  /\ absences' = Recorded([p \in Path |-> NoAbsence], stored.open \ files')
  /\ wake' = (stored.open \ files' # {})
  /\ tail' = << >> /\ queue' = << >> /\ save' = [w \in Savers |-> NoSave]
  /\ lock' = Free /\ pass' = [r \in Passes |-> NoPass]
  /\ op' = [u \in User |-> NoOp] /\ snap' = [w \in Readers |-> NoSnap]
  /\ ghost' = [owed |-> IF Saved /\ ~ghost.blind /\ ~ghost.failed THEN ghost.owed ELSE {},
               gone |-> {}, blind |-> FALSE, failed |-> FALSE, blink |-> FALSE, missed |-> FALSE]
  /\ UNCHANGED stored
-----------------------------------------------------------------------------
Init ==
  /\ \E s \in Stories :
       /\ files = s.files /\ left = [what \in DOMAIN s \ {"tabs", "files"} |-> s[what]]
       /\ tabs = [open |-> s.tabs, look |-> FALSE]
       /\ ghost = [owed |-> s.tabs \cap s.files, gone |-> {}, blind |-> FALSE, failed |-> FALSE,
                   blink |-> FALSE, missed |-> FALSE]
  /\ held = {} /\ index = files /\ moved = NoMove
  /\ absences = Recorded([p \in Path |-> NoAbsence], tabs.open \ files)
  /\ wake = (tabs.open \ files # {}) /\ removed = {}
  /\ persisted = tabs /\ stored = tabs /\ shown = tabs
  /\ tail = << >> /\ queue = << >> /\ save = [w \in Savers |-> NoSave]
  /\ lock = Free /\ pass = [r \in Passes |-> NoPass]
  /\ op = [u \in User |-> NoOp] /\ snap = [w \in Readers |-> NoSnap]

Operations == \E u \in User :
  \/ Select(u) \/ CloseTab(u) \/ Arrange(u) \/ MoveNote(u) \/ TrashNote(u)
  \/ WriteNote(u)
Continuations == \E u \in User :
  \/ OpenTab(u) \/ OpenUnread(u) \/ UserSaved(u) \/ UserRefused(u) \/ Repaired(u)
  \/ FinishMove(u) \/ FinishWrite(u) \/ NoteUnread(u) \/ Reconciled(u)
Settling == \E r \in Passes : Consider(r) \/ Look(r) \/ Decide(r) \/ Settled(r) \/ PassSaved(r)
Publishing == \E w \in Readers : Capture(w) \/ Present(w)
Accepting == AcceptChanges \/ AcceptRebuild
Others == ExtRemove \/ ExtCreate \/ ExtMove \/ Hold \/ Restart
Next ==
  \/ Operations \/ Continuations \/ Land \/ SaveFails \/ TailRun \/ TailAnswered
  \/ Accepting \/ WakeFires \/ Elapse \/ Settling \/ Publishing
  \/ (\E w \in Readers : Refresh(w)) \/ Others \/ Release

Spec == Init /\ [][Next]_vars
FairSpec ==
  /\ Spec
  /\ WF_vars(Continuations) /\ WF_vars(Land) /\ WF_vars(TailRun) /\ WF_vars(TailAnswered)
  /\ WF_vars(Accepting) /\ WF_vars(WakeFires) /\ WF_vars(Elapse) /\ WF_vars(Settling)
  /\ WF_vars(Publishing) /\ WF_vars(Release)
-----------------------------------------------------------------------------
(* Properties.                                                             *)

\* Each pass that reads a path while another confirms it may add one.
MaxTries == MaxAttempts + Cardinality(Timers)
Absence == [known : BOOLEAN, due : BOOLEAN, seen : 0..Confirmed - 1, tries : 0..MaxTries]
Save == [phase : {"none", "queued", "ok", "no"}, state : Layout, expected : Layout]
Pass == [pc : {"idle", "running", "saving"}, todo : SUBSET Path, at : MaybePath,
         saw : {"none", "present", "absent", "unknown"}, live : BOOLEAN, changed : BOOLEAN,
         arms : BOOLEAN]
Op == [pc : {"idle", "opening", "saving", "repairing", "moving", "writing",
              "reconciling", "publishing"},
       from : MaybePath, to : MaybePath]
Snap == [pc : {"none", "wanted", "taken"}, tabs : Layout, current : BOOLEAN, tries : 0..MaxAssembly - 1]
Ghost == [owed : SUBSET Path, gone : SUBSET Path, blind : BOOLEAN, failed : BOOLEAN,
          blink : BOOLEAN, missed : BOOLEAN]

\* The type invariant; and a pass has only absences before it that are known.
TypeOK ==
  /\ files \subseteq Path /\ held \subseteq Path \ files /\ index \subseteq Path
  /\ moved \in [from : Path, to : Path] \cup {NoMove}
  /\ tabs \in Layout /\ persisted \in Layout /\ stored \in Layout /\ shown \in Layout
  /\ removed \subseteq Path /\ absences \in [Path -> Absence] /\ wake \in BOOLEAN
  /\ lock \in User \cup {"batch", Free}
  /\ tail \in Seq(Readers) /\ queue \in Seq(Savers) /\ save \in [Savers -> Save]
  /\ pass \in [Passes -> Pass] /\ \A r \in Passes : pass[r].todo \subseteq Missing
  /\ op \in [User -> Op] /\ snap \in [Readers -> Snap] /\ ghost \in Ghost

\* A tab is closed by its user, or because its file is missing or no read of it
\* gives an answer, and by nothing else: not by a batch, a rebuild, a
\* replacement, another operation's save, a snapshot or a restart.
TabKept == ghost.owed \subseteq tabs.open

\* A tab that was closed because its file is gone does not come back before
\* the file does, whatever was being saved at that time.
NotResurrected == ghost.gone \cap tabs.open = {}

\* Tabs follow the files, in both senses.
TabsFollow == TabKept /\ NotResurrected

\* When nothing is being saved, no save has failed and each has changed the
\* document, the store has the layout of the memory: two writers never leave
\* them apart.
StoreAgrees == Saved /\ ~ghost.blind /\ ~ghost.failed => stored = tabs /\ persisted = stored

\* When everything is at rest, the layout published last is the current one,
\* unless the last snapshot was given up after too many attempts.
ShownCurrent ==
  (/\ Saved /\ ~ghost.missed /\ \A u \in User : op[u].pc = "idle"
   /\ \A r \in Passes : pass[r].pc = "idle" /\ \A w \in Readers : snap[w].pc = "none")
  => shown = tabs

\* The tab of a file that stays away is closed, even if no other change in the
\* vault ever asks for another look.
GoneCloses == \A p \in Path : <>[](p \notin files /\ ~ghost.blink) => <>[](p \notin tabs.open)
=============================================================================
