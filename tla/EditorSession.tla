---------------------------- MODULE EditorSession ----------------------------
(***************************************************************************)
(* One editor pane and everything that stands between a keystroke and the  *)
(* vault: the CodeMirror document of src/renderer/renderer.ts with its     *)
(* ContinuousAutosave (continuous-autosave.ts) and its private recovery    *)
(* draft, the main process' draft store and flush coordinator, and the     *)
(* workspace runtime that saves through the kernel and publishes snapshots *)
(* back.                                                                   *)
(*                                                                         *)
(* The renderer is single threaded: one action is one macrotask with the   *)
(* microtasks it queues.                                                   *)
(* The state of the pane is the record ui, and the functions of the        *)
(* renderer are operators from one such record to the next.                *)
(*                                                                         *)
(* A document's text is a member of Text and is also its revision; path 0  *)
(* is the note the pane opened with, the others are the conflict copies    *)
(* the kernel makes.  The kernel's write is one step here: VaultWrite has  *)
(* its inside.                                                             *)
(***************************************************************************)
EXTENDS Naturals, Sequences, FiniteSets

CONSTANTS
  Text,         \* document texts
  Absent,       \* no file, no note, no draft
  MaxCopy,      \* bound: conflict copies
  Budgets       \* bounds: what may happen, one record for each kind of story

\* eager: the user may type before the recovery draft was looked up; the
\* others count his edits, the saves and deletions by other programs, the
\* crashes of renderer or application, the saves and draft writes that fail,
\* the flushes the main process asks for, and the windows it closes after one
\* (another may be opened).
Budget == [eager : BOOLEAN, edit : Nat, external : Nat, crash : Nat, fault : Nat,
           flush : Nat, close : Nat]

ASSUME Marks == Absent \notin Text \cup Nat
ASSUME Bounds == MaxCopy \in Nat /\ Budgets \subseteq Budget

Path     == 0 .. MaxCopy
Flush    == Nat \ {0}
DraftId  == Nat \ {0}                         \* 0: the pane has no draft identity
MaybeText == Text \cup {Absent}
MaybePath == Path \cup {Absent}

View  == [path : MaybePath, content : MaybeText]                    \* activeNote of a snapshot
Loaded == [path : MaybePath, content : MaybeText, rev : MaybeText]  \* loadedNote
Draft == [id : DraftId \cup {0}, path : MaybePath, base : MaybeText, text : MaybeText]
DraftOp == [op : {"save", "clear"}, draft : Draft]
Save  == [step : {"none", "draft", "sent"}, path : MaybePath, content : MaybeText,
          rev : MaybeText, version : Nat, ahead : Nat]
Job   == [step : {"none", "write", "publish"}, path : MaybePath, content : MaybeText,
          rev : MaybeText]
Message == [kind : {"push", "reply", "failed", "flush"}, view : View, flush : Flush \cup {0}]

NoView  == [path |-> Absent, content |-> Absent]
NoNote  == [path |-> Absent, content |-> Absent, rev |-> Absent]
NoDraft == [id |-> 0, path |-> Absent, base |-> Absent, text |-> Absent]
NoSave  == [step |-> "none", path |-> Absent, content |-> Absent, rev |-> Absent,
            version |-> 0, ahead |-> 0]
NoJob   == [step |-> "none", path |-> Absent, content |-> Absent, rev |-> Absent]

VARIABLES
  disk,     \* Path -> MaybeText: the vault
  draft,    \* the draft file of this vault and pane
  active,   \* active path of the pane in the workspace runtime
  sent,     \* the last view published to the renderer
  job,      \* the save the runtime is working on
  inbox,    \* messages on their way to the renderer
  request,  \* flush the main process waits for before it closes the window; 0: none
  answers,  \* completed flushes on their way to the main process
  alive,    \* the renderer runs
  ui,       \* the pane
  done,     \* ghost: texts the user need not fear for: the writer took them, the
            \*   vault has shown them, or the user has typed over them since
  budget,   \* the bounds of this behaviour
  spent     \* what it has used of them

main == <<disk, draft, active, sent, job>>
moving == <<main, inbox, request, answers, alive, ui, done, spent>>
vars == <<moving, budget>>

Pane == [text : MaybeText, loaded : Loaded, snap : View, dirty : BOOLEAN,
         pending : Loaded, changed : BOOLEAN,
         draftId : DraftId \cup {0}, draftTimer : BOOLEAN, queue : Seq(DraftOp),
         version : Nat, persisted : Nat, timer : BOOLEAN, save : Save,
         flushes : SUBSET Flush, restore : {"none", "asked", "found"}, found : Draft,
         mine : BOOLEAN]   \* mine is a ghost: the text comes from the user's own edits

Blank == [text |-> Absent, loaded |-> NoNote, snap |-> NoView, dirty |-> FALSE,
          pending |-> NoNote, changed |-> FALSE,
          draftId |-> 0, draftTimer |-> FALSE, queue |-> <<>>,
          version |-> 0, persisted |-> 0, timer |-> FALSE, save |-> NoSave,
          flushes |-> {}, restore |-> "none", found |-> NoDraft, mine |-> FALSE]

Larger(a, b) == IF a > b THEN a ELSE b
Note(v) == [path |-> v.path, content |-> v.content, rev |-> v.content]
HasNote(u) == u.loaded.path # Absent
Saving(u) == u.save.step # "none"
-----------------------------------------------------------------------------
(* ContinuousAutosave.                                                     *)

Unpersisted(u) == u.persisted < u.version     \* its getter "pending"

Changed(u) == [u EXCEPT !.version = @ + 1, !.timer = TRUE]
Synchronized(u) == [u EXCEPT !.timer = FALSE, !.persisted = u.version]
ResetAutosave(u) == [u EXCEPT !.timer = FALSE, !.version = 0, !.persisted = 0]
-----------------------------------------------------------------------------
(* The private draft.                                                      *)

ScheduleDraft(u) == [u EXCEPT !.draftTimer = u.dirty /\ HasNote(u)]

FreshId(u) ==     \* stands for randomUUID: an identity nothing refers to
  CHOOSE i \in 1 .. Len(u.queue) + 3 : /\ i # draft.id /\ i # u.found.id
                         /\ \A k \in 1 .. Len(u.queue) : i # u.queue[k].draft.id

\* persistCurrentEditorDraft: capture now, store in turn.
PersistDraft(u) ==
  IF u.dirty /\ HasNote(u)
    THEN LET id == IF u.draftId = 0 THEN FreshId(u) ELSE u.draftId
             d  == [id |-> id, path |-> u.loaded.path, base |-> u.loaded.rev, text |-> u.text]
         IN [u EXCEPT !.draftTimer = FALSE, !.draftId = id,
                      !.queue = Append(@, [op |-> "save", draft |-> d])]
    ELSE [u EXCEPT !.draftTimer = FALSE]

ClearPersisted(u, id) ==
  [u EXCEPT !.queue = Append(@, [op |-> "clear", draft |-> [NoDraft EXCEPT !.id = id]])]

ClearDraft(u) ==
  LET off == [u EXCEPT !.draftTimer = FALSE, !.draftId = 0]
  IN IF u.draftId # 0 /\ HasNote(u) THEN ClearPersisted(off, u.draftId) ELSE off
-----------------------------------------------------------------------------
(* Documents and snapshots.                                                *)

\* replaceEditorDocument.
Replace(u, note) ==
  ResetAutosave([u EXCEPT !.text = note.content, !.loaded = note, !.dirty = FALSE,
                          !.pending = NoNote, !.changed = FALSE, !.draftId = 0,
                          !.mine = FALSE])

\* Mutant: the draft keeps the base revision it was made with.
AdoptUnscheduled(u, note) ==
  LET a == [u EXCEPT !.loaded = note, !.pending = NoNote, !.changed = FALSE,
                     !.dirty = u.text # note.content]
  IN IF a.dirty THEN Changed(a) ELSE Synchronized(a)

\* The snapshot shows what this pane is saving: adopt its revision and keep
\* the text, which may have moved on.
Adopt(u, note) ==
  LET a == [u EXCEPT !.loaded = note, !.pending = NoNote, !.changed = FALSE,
                     !.dirty = u.text # note.content]
  IN IF a.dirty THEN Changed(ScheduleDraft(a)) ELSE Synchronized(a)

KeepsNever(u) == FALSE                      \* mutant: snapshots replace a dirty editor
Keeps(u) == u.dirty /\ HasNote(u)

Reconcile(u, v) ==
  CASE v.path = Absent ->
         IF Keeps(u) THEN [u EXCEPT !.pending = NoNote, !.changed = TRUE]
                     ELSE Replace(u, NoNote)
    [] v.path # Absent /\ ~HasNote(u) -> Replace(u, Note(v))
    [] v.path # Absent /\ HasNote(u) ->
         IF u.loaded.path = v.path /\ u.loaded.rev = v.content
           THEN [u EXCEPT !.loaded = Note(v)]
         ELSE IF Saving(u) /\ u.save.content = v.content
           THEN Adopt(u, Note(v))
         ELSE IF Keeps(u)
           THEN [u EXCEPT !.pending = Note(v), !.changed = TRUE]
         ELSE Replace(u, Note(v))

Render(u, v) == Reconcile([u EXCEPT !.snap = v], v)

\* Mutant: without the final render.
AcceptDiskOnly(u) ==
  IF ~u.dirty /\ u.changed
    THEN Replace(u, IF u.pending # NoNote THEN u.pending ELSE Note(u.snap))
    ELSE u

\* schedulePendingDiskAcceptance: a microtask after the edit that undid the
\* last difference.
AcceptDisk(u) ==
  IF ~u.dirty /\ u.changed
    THEN LET note == IF u.pending # NoNote THEN u.pending ELSE Note(u.snap)
         IN Render(Replace(u, note), u.snap)
    ELSE u

\* The update listener.
Typed(u, t) ==
  LET a == Changed([u EXCEPT !.text = t, !.dirty = t # u.loaded.content, !.mine = TRUE])
      c == ClearDraft(a)
  IN IF a.dirty THEN ScheduleDraft(a)
     ELSE IF u.dirty THEN AcceptDisk(IF Saving(u) THEN c ELSE Synchronized(c))
     ELSE a
-----------------------------------------------------------------------------
(* Saves and flushes.                                                      *)

\* #saveNext when nothing is in flight, up to the first await of
\* persistPendingNoteAutosave.
StartSave(u) ==
  IF ~Unpersisted(u) THEN u
  ELSE IF ~u.dirty \/ ~HasNote(u) THEN [u EXCEPT !.persisted = u.version]
  ELSE LET p == IF u.draftTimer THEN PersistDraft(u) ELSE u IN
       [p EXCEPT !.timer = FALSE,
                 !.save = [step |-> "draft", path |-> u.loaded.path, content |-> u.text,
                           rev |-> u.loaded.rev, version |-> u.version,
                           ahead |-> Len(p.queue)]]

\* Mutants: edits made during the write count as written; nothing arms the
\* timer for them.
FinishLatest(u) == [u EXCEPT !.persisted = u.version, !.save = NoSave]
FinishUnscheduled(u) ==
  [u EXCEPT !.persisted = Larger(@, u.save.version), !.save = NoSave]

\* What #saveNext does once the write is known to have succeeded.
Finish(u) ==
  LET f == [u EXCEPT !.persisted = Larger(@, u.save.version), !.save = NoSave]
  IN [f EXCEPT !.timer = @ \/ Unpersisted(f)]

\* flush, from the start or after the save it waited for: save until nothing
\* is pending.
Continue(u) == IF Saving(u) \/ u.flushes = {} THEN u ELSE StartSave(u)

\* Flushes that are through when the task ends are answered by it.
Settle(u, ok) ==
  /\ ui' = IF Saving(u) THEN u ELSE [u EXCEPT !.flushes = {}]
  /\ answers' = IF Saving(u) THEN answers
                ELSE answers \cup {[flush |-> f, ok |-> ok] : f \in u.flushes}
-----------------------------------------------------------------------------
(* Tasks of the renderer.                                                  *)

Edit(t) ==
  /\ alive /\ HasNote(ui) /\ t # ui.text
  /\ budget.eager \/ ui.restore = "none"
  /\ spent.edit < budget.edit
  /\ ui' = Typed(ui, t)
  /\ LET typedOver == IF ui.dirty THEN done \cup {ui.text} ELSE done
     IN done' = IF t = ui.loaded.content THEN typedOver \cup {t} ELSE typedOver \ {t}
  /\ spent' = [spent EXCEPT !.edit = @ + 1]
  /\ UNCHANGED <<main, inbox, request, answers, alive>>

AutosaveTimer ==
  /\ alive /\ ui.timer
  /\ LET u == [ui EXCEPT !.timer = FALSE]
     IN ui' = IF Saving(u) THEN u ELSE StartSave(u)
  /\ UNCHANGED <<main, inbox, request, answers, alive, done, spent>>

DraftTimer ==
  /\ alive /\ ui.draftTimer
  /\ ui' = PersistDraft(ui)
  /\ UNCHANGED <<main, inbox, request, answers, alive, done, spent>>

\* FileEditorDraftStore: an atomic replacement, or a removal that looks at
\* the identity first.
Stored(op) ==
  CASE op.op = "save" -> op.draft
    [] op.op = "clear" -> IF draft.id = op.draft.id THEN NoDraft ELSE draft

AheadUnchecked(n) == n - 1           \* mutant: waits for operations it never counted
Ahead(n) == IF n > 0 THEN n - 1 ELSE 0

DraftOperation(fails) ==
  /\ alive /\ ui.queue # <<>>
  /\ draft' = IF fails THEN draft ELSE Stored(Head(ui.queue))
  /\ ui' = [ui EXCEPT !.queue = Tail(@),
                      !.save.ahead = Ahead(@)]
  /\ UNCHANGED <<disk, active, sent, job, inbox, request, answers, alive, done>>

\* The draft reached its store; hand the save to the runtime.
SendSave ==
  /\ alive /\ ui.save.step = "draft" /\ ui.save.ahead = 0
  /\ job.step = "none"
  /\ ui' = [ui EXCEPT !.save.step = "sent"]
  /\ job' = [step |-> "write", path |-> ui.save.path, content |-> ui.save.content,
             rev |-> ui.save.rev]
  /\ UNCHANGED <<disk, draft, active, sent, inbox, request, answers, alive, done, spent>>

Receive(kind) ==
  /\ alive /\ inbox # <<>> /\ Head(inbox).kind = kind
  /\ inbox' = Tail(inbox)
  /\ done' = done \cup ({ui.text} \cap ({Head(inbox).view.content} \ {Absent}))
  /\ UNCHANGED <<main, request, alive, spent>>

ReceivePush ==
  /\ Receive("push")
  /\ ui' = Render(ui, Head(inbox).view)
  /\ UNCHANGED answers

AfterReplyAlways(u) == ClearDraft(u)     \* mutant: clears the draft of a newer edit
AfterReply(u) == IF u.dirty THEN u ELSE ClearDraft(u)

ReceiveReply ==
  /\ Receive("reply")
  /\ Settle(Continue(Finish(AfterReply(Render(ui, Head(inbox).view)))), TRUE)

ReceiveFailure ==
  /\ Receive("failed")
  /\ Settle([ui EXCEPT !.save = NoSave], FALSE)

ReceiveFlush ==
  /\ Receive("flush")
  /\ LET u == [ui EXCEPT !.timer = FALSE, !.flushes = @ \cup {Head(inbox).flush}]
     IN Settle(Continue(u), TRUE)
-----------------------------------------------------------------------------
(* The main process.                                                       *)

Push(v)  == [kind |-> "push", view |-> v, flush |-> 0]
Reply(v) == [kind |-> "reply", view |-> v, flush |-> 0]
Failure  == [kind |-> "failed", view |-> NoView, flush |-> 0]

Tell(ms) == inbox' = IF alive THEN inbox \o ms ELSE inbox
Response(m) == IF ui.save.step = "sent" THEN <<m>> ELSE <<>>   \* its caller may be gone

\* What the pane shows once path a is active: if its file is gone, another
\* open file, if there is one.
Views(a) ==
  LET here == {p \in Path : disk[p] # Absent}
      pick == IF a \in here THEN {a} ELSE here
  IN IF a = Absent \/ pick = {} THEN {NoView}
     ELSE {[path |-> p, content |-> disk[p]] : p \in pick}

\* writeText: an unchanged note is replaced, anything else diverts the
\* proposal to a new conflict copy.
CopyPath == CHOOSE p \in Path : /\ p > 0 /\ disk[p] = Absent
                                /\ \A q \in 1 .. p - 1 : disk[q] # Absent
Destination(j) == IF disk[j.path] = j.rev THEN j.path ELSE CopyPath
Room(j) == disk[j.path] = j.rev \/ \E p \in Path \ {0} : disk[p] = Absent

Wrote(j) ==
  /\ Room(j)
  /\ disk' = [disk EXCEPT ![Destination(j)] = j.content]
  /\ done' = done \cup {j.content}

KernelWrite ==
  /\ job.step = "write"
  /\ Wrote(job)
  /\ job' = [job EXCEPT !.step = "publish", !.path = Destination(job)]
  /\ UNCHANGED <<draft, active, sent, inbox, request, answers, alive, ui, spent>>

\* The save throws, before the write took effect or after it.
KernelFails ==
  /\ job.step = "write" /\ spent.fault < budget.fault
  /\ Wrote(job) \/ UNCHANGED <<disk, done>>
  /\ job' = NoJob
  /\ Tell(Response(Failure))
  /\ spent' = [spent EXCEPT !.fault = @ + 1]
  /\ UNCHANGED <<draft, active, sent, request, answers, alive, ui>>

\* reconcileNoteWrite, publishSnapshot and the response to the renderer, which
\* travels on a channel of its own.
Publish(v) ==
  /\ job.step = "publish"
  /\ v \in Views(job.path)
  /\ active' = v.path /\ sent' = v
  /\ job' = NoJob
  /\ \/ Tell(<<Push(v)>> \o Response(Reply(v)))
     \/ Tell(Response(Reply(v)) \o <<Push(v)>>)
  /\ UNCHANGED <<disk, draft, request, answers, alive, ui, done, spent>>

\* A snapshot published for the vault watcher.
Notify(v) ==
  /\ alive /\ v \in Views(active) /\ v # sent
  /\ active' = v.path /\ sent' = v
  /\ Tell(<<Push(v)>>)
  /\ UNCHANGED <<disk, draft, job, request, answers, alive, ui, done, spent>>

\* The close handler and RendererAutosaveFlushCoordinator.
AskFlush ==
  /\ alive /\ request = 0 /\ spent.flush < budget.flush
  /\ request' = spent.flush + 1
  /\ spent' = [spent EXCEPT !.flush = @ + 1]
  /\ inbox' = Append(inbox, [kind |-> "flush", view |-> NoView, flush |-> request'])
  /\ UNCHANGED <<main, answers, alive, ui, done>>

FlushTimeout ==
  /\ request # 0
  /\ request' = 0
  /\ UNCHANGED <<main, inbox, answers, alive, ui, done, spent>>

\* The draft operation under way is completed or lost.
LastOperation ==
  \/ UNCHANGED draft
  \/ ui.queue # <<>> /\ draft' = Stored(Head(ui.queue))

\* What dies with the renderer.
RendererGone ==
  /\ alive' = FALSE /\ ui' = Blank
  /\ inbox' = <<>> /\ answers' = {} /\ request' = 0

\* complete: an answer that comes after the timeout is ignored.
TakeAnswer(a) ==
  /\ a \in answers
  /\ IF a.flush = request /\ a.ok
       THEN /\ spent.close < budget.close
            /\ RendererGone /\ LastOperation
            /\ spent' = [spent EXCEPT !.close = @ + 1]
       ELSE /\ request' = IF a.flush = request THEN 0 ELSE request
            /\ answers' = answers \ {a}
            /\ UNCHANGED <<draft, inbox, alive, ui, spent>>
  /\ UNCHANGED <<disk, active, sent, job, done>>
-----------------------------------------------------------------------------
(* Crashes and recovery.                                                   *)

RendererCrash ==
  /\ alive /\ spent.crash < budget.crash
  /\ RendererGone /\ LastOperation
  /\ spent' = [spent EXCEPT !.crash = @ + 1]
  /\ UNCHANGED <<disk, active, sent, job, done>>

\* The main process too: a write it was working on took effect or not.
ApplicationCrash ==
  /\ alive /\ spent.crash < budget.crash
  /\ RendererGone /\ LastOperation
  /\ job' = NoJob
  /\ \/ UNCHANGED <<disk, done>>
     \/ job.step = "write" /\ Wrote(job)
  /\ spent' = [spent EXCEPT !.crash = @ + 1]
  /\ UNCHANGED <<active, sent>>

\* A new renderer renders its first snapshot and asks for the draft.
Boot(v) ==
  /\ ~alive
  /\ v \in Views(active)
  /\ alive' = TRUE
  /\ active' = v.path /\ sent' = v
  /\ ui' = [Render(Blank, v) EXCEPT !.restore = "asked"]
  /\ UNCHANGED <<disk, draft, job, inbox, request, answers, done, spent>>

\* The draft store answers.
LoadDraft ==
  /\ alive /\ ui.restore = "asked"
  /\ ui' = [ui EXCEPT !.restore = IF draft = NoDraft THEN "none" ELSE "found",
                      !.found = draft]
  /\ UNCHANGED <<main, inbox, request, answers, alive, done, spent>>

\* restoreEditorDraft from the point where the note it belongs to is shown,
\* or known to be missing: disk text v, draft d.
Recovered(u, d, v) ==
  LET off  == [u EXCEPT !.restore = "none", !.found = NoDraft]
      note == [path |-> d.path, content |-> v.content, rev |-> d.base]
      open == [Changed([Replace(off, note) EXCEPT !.text = d.text, !.dirty = TRUE])
                 EXCEPT !.draftTimer = TRUE, !.draftId = d.id, !.mine = TRUE,
                        !.pending = IF v = NoView THEN NoNote ELSE Note(v),
                        !.changed = v.content # d.base]
  IN IF v # NoView /\ v.content = d.text
       THEN ClearPersisted(off, d.id)
       ELSE Render(open, u.snap)

Restorable == alive /\ ui.restore = "found" /\ ~ui.dirty
DraftSettled(v) ==
  LET d == ui.found
  IN done' = IF v.content = d.text THEN done \cup {d.text} ELSE done \ {d.text}

GiveUpRestore ==
  /\ alive /\ ui.restore = "found" /\ ui.dirty
  /\ ui' = [ui EXCEPT !.restore = "none", !.found = NoDraft]
  /\ UNCHANGED <<main, inbox, request, answers, alive, done, spent>>

RestoreHere ==
  LET v == IF ui.snap.path = ui.found.path THEN ui.snap ELSE NoView IN
  /\ Restorable
  /\ v # NoView \/ disk[ui.found.path] = Absent
  /\ ui' = Recovered(ui, ui.found, v)
  /\ DraftSettled(v)
  /\ UNCHANGED <<main, inbox, request, answers, alive, spent>>

\* The draft belongs to another note of the vault, which is opened first.
RestoreElsewhere ==
  LET p == ui.found.path
      v == [path |-> p, content |-> disk[p]] IN
  /\ Restorable /\ inbox = <<>>
  /\ ui.snap.path # p /\ v.content # Absent
  /\ active' = p /\ sent' = v
  /\ ui' = Recovered(Render(ui, v), ui.found, v)
  /\ DraftSettled(v)
  /\ UNCHANGED <<disk, draft, job, inbox, request, answers, alive, spent>>
-----------------------------------------------------------------------------
(* Other programs.                                                         *)

External ==
  /\ spent.external < budget.external
  /\ spent' = [spent EXCEPT !.external = @ + 1]
  /\ UNCHANGED <<draft, active, sent, job, inbox, request, answers, alive, ui, done>>

ExternalSave(p, t) ==
  /\ External
  /\ disk[p] \notin {Absent, t}
  /\ disk' = [disk EXCEPT ![p] = t]

ExternalDelete ==
  /\ External
  /\ disk[0] # Absent
  /\ disk' = [disk EXCEPT ![0] = Absent]
-----------------------------------------------------------------------------
Init ==
  \E t \in Text :
    /\ disk = [p \in Path |-> IF p = 0 THEN t ELSE Absent]
    /\ draft = NoDraft
    /\ active = 0 /\ sent = [path |-> 0, content |-> t]
    /\ job = NoJob /\ inbox = <<>> /\ request = 0 /\ answers = {}
    /\ alive = TRUE
    /\ ui = Render(Blank, sent)
    /\ done = {}
    /\ budget \in Budgets
    /\ spent = [edit |-> 0, external |-> 0, crash |-> 0, fault |-> 0, flush |-> 0,
                close |-> 0]

DraftStored == DraftOperation(FALSE) /\ UNCHANGED spent
DraftFails == /\ DraftOperation(TRUE)
              /\ spent.fault < budget.fault /\ spent' = [spent EXCEPT !.fault = @ + 1]

Tasks == \/ AutosaveTimer \/ DraftTimer \/ DraftStored \/ SendSave
         \/ ReceivePush \/ ReceiveReply \/ ReceiveFailure \/ ReceiveFlush
         \/ LoadDraft \/ GiveUpRestore \/ RestoreHere \/ RestoreElsewhere
Service == \/ KernelWrite
           \/ \E v \in View : Publish(v) \/ Notify(v) \/ Boot(v)
           \/ \E a \in answers : TakeAnswer(a)
World == \/ \E t \in Text : Edit(t)
         \/ DraftFails \/ KernelFails
         \/ AskFlush \/ FlushTimeout \/ RendererCrash \/ ApplicationCrash
         \/ \E p \in Path, t \in Text : ExternalSave(p, t)
         \/ ExternalDelete

Next == (Tasks \/ Service \/ World) /\ UNCHANGED budget
Spec == Init /\ [][Next]_vars

Fairness ==
  /\ WF_moving(AutosaveTimer) /\ WF_moving(DraftTimer) /\ WF_moving(DraftStored)
  /\ WF_moving(SendSave) /\ WF_moving(ReceivePush \/ ReceiveReply \/ ReceiveFailure \/ ReceiveFlush)
  /\ WF_moving(LoadDraft) /\ WF_moving(GiveUpRestore \/ RestoreHere \/ RestoreElsewhere)
  /\ WF_moving(KernelWrite) /\ WF_moving(\E v \in View : Publish(v))
  /\ WF_moving(\E v \in View : Notify(v)) /\ WF_moving(\E v \in View : Boot(v))
FairSpec == Spec /\ Fairness
-----------------------------------------------------------------------------
(* Properties.                                                             *)

TypeOK ==
  /\ disk \in [Path -> MaybeText]
  /\ draft \in Draft
  /\ active \in MaybePath /\ sent \in View
  /\ job \in Job
  /\ inbox \in Seq(Message)
  /\ request \in Flush \cup {0}
  /\ answers \subseteq [flush : Flush, ok : BOOLEAN]
  /\ alive \in BOOLEAN
  /\ ui \in Pane
  /\ done \subseteq Text
  /\ budget \in Budgets
  /\ spent \in [{"edit", "external", "crash", "fault", "flush", "close"} -> Nat]

Quiet == alive /\ ~ui.dirty /\ ~Saving(ui) /\ ui.restore = "none" /\ inbox = <<>>
         /\ ~ui.draftTimer /\ ui.queue = <<>>

\* Nobody and nothing interferes with the user.
Alone == budget.external + budget.crash + budget.fault = 0

\* The recovery draft is the pending edit: once the debounce is over and the
\* store has answered, the draft file holds exactly the text, the note and
\* the base revision the editor would save; and a clean editor leaves no draft
\* behind that a later start would put over the note.  (A save by another
\* program that is shown before the reply to the own one can leave one, and so
\* can a user who types before the draft was looked up.)
DraftMirrors ==
  /\ alive /\ ui.dirty /\ ui.mine /\ ~ui.draftTimer /\ ui.queue = <<>> /\ spent.fault = 0
       => draft = [id |-> ui.draftId, path |-> ui.loaded.path, base |-> ui.loaded.rev,
                   text |-> ui.text]
  /\ Alone /\ ~budget.eager /\ Quiet => draft = NoDraft

\* A clean editor shows what the runtime last published; a stale pending
\* disk version or a late snapshot never stays on the screen.
ShowsDisk == Quiet => ui.text = sent.content /\ ui.loaded.path = sent.path

\* An edit disappears from the editor only by the user's own typing or
\* after the writer took it: no snapshot, recovery or save reply replaces it.
TextKept ==
  [][alive /\ alive' /\ ui.dirty /\ ui.mine /\ ui'.text # ui.text => ui.text \in done']_vars

\* A flush is answered "flushed" only when every edit in the editor has
\* reached the writer.
FlushCovers ==
  (\E a \in answers' \ answers : a.ok) /\ ui'.dirty /\ ui'.mine => ui'.text \in done'
FlushReaches == [][FlushCovers]_vars

\* The same while no other program writes, in the first window: whatever edits,
\* timers, saves and timeouts of earlier flushes fall between the request and
\* the answer.  (A window closed over a save leaves the next one a conflict, as
\* another program would.)
FlushReachesAlone == [][Alone /\ budget.close = 0 => FlushCovers]_vars

\* The draft of the text in the editor has yet to reach the store.
Coming(t) ==
  t = ui.text /\ (ui.draftTimer \/ \E k \in 1 .. Len(ui.queue) :
                     ui.queue[k].op = "save" /\ ui.queue[k].draft.text = t)

\* A draft is replaced by another edit's draft, or removed, only when its
\* text is in the vault or was typed over by the user, or a draft of it is
\* under way.
DraftOwned ==
  [][draft # NoDraft /\ draft'.id # draft.id /\ ~budget.eager
       => draft.text \in done' \/ Coming(draft.text)]_vars

\* Left alone, the autosave brings every edit to the writer.
AutosaveSettles == <>[](alive /\ ui.dirty /\ ui.mine => ui.text \in done)
=============================================================================
