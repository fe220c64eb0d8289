----------------------------- MODULE LinkedMoves -----------------------------
(***************************************************************************)
(* Moving a file together with the links to it: moveWithWrites rewrites    *)
(* every note that links to the file and then renames the file (or, for a  *)
(* contained attachment, publishes a copy first and keeps the source);     *)
(* renameFile only renames.  Both keep a journal, and both are finished or *)
(* undone by recoverUnlocked when the vault is opened again                *)
(* (performMoveWithWrites, performRename, recoverMoveWithWrites and        *)
(* recoverRename of src/kernel/vault-kernel.ts).                           *)
(*                                                                         *)
(* A file holds "old" bytes, "new" bytes (its rewrite), those of another   *)
(* program ("foreign"), "torn" ones (created, not yet written), or is      *)
(* "absent".  What the destination holds is named after the source.        *)
(*                                                                         *)
(* The rewrite of one note is a write transaction of its own.  Here it     *)
(* keeps what module KeepBoth promises of one; its inner steps are module  *)
(* VaultWrite's.  A removal that checks the revision is one step, for the  *)
(* same reason.                                                            *)
(***************************************************************************)
EXTENDS Naturals, Sequences, FiniteSets

CONSTANTS
  Src, Dst,   \* the file's two names
  Notes,      \* notes of the vault, linking to the file or not
  Stories     \* the requests, with bounds on what else happens

(* links: the files whose links are rewritten, in order; corpus: the notes *)
(* that must not change meanwhile; strict: contained, source retained.     *)
(* What is contained is an attachment, and only notes are rewritten.       *)
(* Without links to rewrite the request is renameFile, not moveWithWrites. *)
ASSUME StoriesOK == \A s \in Stories :
  /\ s.links \in Seq(Notes \cup {Src}) /\ s.corpus \subseteq Notes
  /\ s.strict \in BOOLEAN
  /\ \A m, n \in DOMAIN s.links : s.links[m] = s.links[n] => m = n
  /\ s.strict => Src \notin {s.links[k] : k \in DOMAIN s.links}
  /\ {s.ext, s.crash, s.fault} \subseteq Nat

ASSUME Names == Src # Dst /\ Src \notin Notes /\ Dst \notin Notes

File == Notes \cup {Src, Dst}
Content == {"old", "new", "foreign", "torn", "absent"}
Private == {"absent", "torn", "ok"}

MovePhase == {"none", "intent", "publishing", "published", "applying", "renaming",
              "rolling-back", "committed"}
Status == {"pending", "applied", "conflict", "rolled-back"}
Outcome == {"none", "rejected", "committed", "published-source-retained", "rolled-back",
            "conflict-copy", "manual-conflict"}
Label == {"down", "idle", "recover", "m-check", "continue", "publish", "publish-install",
  "publish-verify", "published", "apply", "entry", "entry-wrote", "diverged", "spoilt",
  "verify", "corpus", "final", "committed", "renamed", "resume", "resume-restored",
  "rollback", "rollback-wrote", "m-retire", "r-check", "r-final", "r-blob", "r-evidence",
  "r-staged", "r-publish", "r-installed", "r-linked", "r-published", "r-remove", "r-claim", "r-removed", "r-restored",
  "r-retire", "rec-rename", "rec-publish", "rec-published", "rec-undone", "rec-stage", "rec-blob", "rec-installed",
  "rec-evidence", "rec-evidence-made", "rec-remove", "rec-removed", "undo", "undo-stage",
  "undo-install", "undo-copied"}
Published == "published-source-retained"
Aside == {"rn", "mv"} \X {"blob", "evidence", "undo"}

VARIABLES
  story,    \* the request
  disk,     \* File -> Content
  copies,   \* conflict copies in the vault: file and bytes
  draft,    \* journal of the running note write: file and bytes, or none
  mv,       \* the move's journal
  rn,       \* the phase in the rename's journal, "none" without one
  aside,    \* private files of the two journals
  kept,     \* a complete recovery copy of an earlier rename exists
  receipt,  \* outcome recorded for the move and for the last rename
  mode, at, \* the kernel: down, recovering or open; its next step
  i, first, \* entry being worked on; the corpus is still to be checked
  sub, ok,  \* running write or installation; result of the last one
  ret,      \* where the rename goes on to
  touched,  \* ghost: files another program has changed
  spent     \* uses of the bounds

local == <<at, i, first, sub, ok, ret>>
journals == <<draft, mv, rn, aside, kept, receipt>>
vars == <<story, disk, copies, journals, mode, local, touched, spent>>
-----------------------------------------------------------------------------
NoDraft == [file |-> Src, next |-> "absent"]
NoSub == [step |-> "none", file |-> Src, base |-> "absent", next |-> "absent",
          from |-> <<"rn", "blob">>]
Linked == {story.links[k] : k \in DOMAIN story.links}
Entry == story.links[i]
NoMove == [phase |-> "none", status |-> << >>, manual |-> FALSE]

\* The revision that is renamed: the source's own rewrite comes first.
Rev == IF Src \in Linked THEN "new" ELSE "old"
Exists(f) == disk[f] # "absent"
Holds(f, c) == disk[f] = c
Own(f) == disk[f] \in {"old", "new"}

\* verifyMarkdownCorpus: the same notes with the expected revisions; a
\* conflict copy is one note too many.
CorpusHolds(rewritten) == story.corpus # {} =>
  /\ \A f \in story.corpus : disk[f] = IF rewritten /\ f \in Linked THEN "new" ELSE "old"
  /\ copies = {}

Pending == draft # NoDraft \/ mv.phase # "none" \/ rn # "none"
Settled == mode = "open" /\ at = "idle" /\ ~Pending

At(l) == at = l /\ sub.step = "none"
Go(l) == at' = l
Write(f, base, next, l) ==
  /\ sub' = [NoSub EXCEPT !.step = "write", !.file = f, !.base = base, !.next = next]
  /\ Go(l)
Install(from, f, l) ==
  /\ sub' = [NoSub EXCEPT !.step = "make", !.file = f, !.from = from]
  /\ Go(l)
Return(b) == sub' = NoSub /\ ok' = b

Frame == UNCHANGED <<story, mode, touched, spent>>
FilesStay == UNCHANGED <<disk, copies, draft>>
MoveStays == UNCHANGED <<mv, i, first>>
RenameStays == UNCHANGED <<rn, aside, kept>>
-----------------------------------------------------------------------------
(* The write of one note and the installation of a private copy.           *)

\* The note is not what the caller read: the bytes go to a conflict copy.
\* Otherwise they are staged under a journal.
WriteStage ==
  /\ sub.step = "write"
  /\ IF Holds(sub.file, sub.base)
       THEN /\ draft' = [file |-> sub.file, next |-> sub.next]
            /\ sub' = [sub EXCEPT !.step = "swap"] /\ UNCHANGED <<copies, ok>>
       ELSE copies' = copies \cup {<<sub.file, sub.next>>} /\ Return(FALSE) /\ UNCHANGED draft
  /\ UNCHANGED <<disk, receipt, at, ret>> /\ MoveStays /\ RenameStays /\ Frame

WriteSwap ==
  /\ sub.step = "swap"
  /\ IF Holds(sub.file, sub.base)
       THEN /\ disk' = [disk EXCEPT ![sub.file] = sub.next]
            /\ sub' = [sub EXCEPT !.step = "close"] /\ UNCHANGED <<copies, draft, ok>>
       ELSE /\ copies' = copies \cup {<<sub.file, sub.next>>} /\ draft' = NoDraft
            /\ Return(FALSE) /\ UNCHANGED disk
  /\ UNCHANGED <<receipt, at, ret>> /\ MoveStays /\ RenameStays /\ Frame

\* The installed bytes are read back before the journal is archived.
WriteClose ==
  /\ sub.step = "close"
  /\ copies' = IF Holds(sub.file, sub.next) THEN copies
                 ELSE copies \cup {<<sub.file, sub.next>>}
  /\ draft' = NoDraft /\ Return(Holds(sub.file, sub.next))
  /\ UNCHANGED <<disk, receipt, at, ret>> /\ MoveStays /\ RenameStays /\ Frame

\* installStagedFile: create the name exclusively, write, read back, and drop
\* the private copy.
InstallMake ==
  /\ sub.step = "make"
  /\ IF Exists(sub.file)
       THEN Return(FALSE) /\ UNCHANGED disk
       ELSE /\ disk' = [disk EXCEPT ![sub.file] = "torn"]
            /\ sub' = [sub EXCEPT !.step = "fill"] /\ UNCHANGED ok
  /\ UNCHANGED <<copies, draft, receipt, at, ret>> /\ MoveStays /\ RenameStays /\ Frame

InstallFill ==
  /\ sub.step = "fill"
  /\ IF Holds(sub.file, "torn")
       THEN /\ disk' = [disk EXCEPT ![sub.file] = Rev]
            /\ aside' = [aside EXCEPT ![sub.from] = "absent"]
            /\ Return(TRUE)
       ELSE Return(FALSE) /\ UNCHANGED <<disk, aside>>
  /\ UNCHANGED <<copies, draft, rn, kept, receipt, at, ret>> /\ MoveStays /\ Frame
-----------------------------------------------------------------------------
(* The move.  Every action reads what the code reads next, then changes    *)
(* the journal or calls a write, an installation or the rename.            *)

Receipt(o) == receipt' = [receipt EXCEPT !.move = o] /\ Go("m-retire")
Phase(p) == mv' = [mv EXCEPT !.phase = p]
Mark(s) == mv' = [mv EXCEPT !.status[i] = s]
NextEntry == i' = i + 1 /\ Go("entry")

\* Mutant: the rollback starts before the last entry.
BeginRollbackShort ==
  /\ mv' = [mv EXCEPT !.phase = "rolling-back", !.manual = FALSE]
  /\ i' = IF Len(story.links) = 0 THEN 0 ELSE Len(story.links) - 1
  /\ Go("rollback")

BeginRollback ==
  /\ mv' = [mv EXCEPT !.phase = "rolling-back", !.manual = FALSE]
  /\ i' = Len(story.links)
  /\ Go("rollback")

\* performMoveWithWrites: nothing is journalled unless everything is as the
\* caller planned.  The private copies come before the journal.
MoveCheck ==
  /\ At("m-check")
  /\ IF /\ CorpusHolds(FALSE) /\ Holds(Src, "old") /\ ~Exists(Dst)
        /\ \A f \in Linked : Holds(f, "old")
       THEN /\ mv' = [phase |-> IF story.strict THEN "publishing" ELSE "intent",
                      status |-> [k \in DOMAIN story.links |-> "pending"], manual |-> FALSE]
            /\ aside' = IF story.strict
                          THEN [aside EXCEPT ![<<"mv", "blob">>] = "ok",
                                             ![<<"mv", "evidence">>] = "ok"]
                          ELSE aside
            /\ Go("continue") /\ UNCHANGED receipt
       ELSE /\ receipt' = [receipt EXCEPT !.move = "rejected"]
            /\ Go("idle") /\ UNCHANGED <<mv, aside>>
  /\ FilesStay /\ UNCHANGED <<rn, kept, i, first, sub, ok, ret>> /\ Frame

\* continueMoveWithWrites, for a new move and for one found by recovery.
Continue ==
  /\ At("continue")
  /\ CASE mv.phase = "rolling-back" -> Go("rollback") /\ i' = Len(story.links)
       [] mv.phase = "renaming" -> Go("resume") /\ UNCHANGED i
       [] mv.phase = "committed" /\ ~story.strict -> Go("committed") /\ UNCHANGED i
       [] story.strict /\ mv.phase \notin {"rolling-back", "renaming"} -> Go("publish") /\ UNCHANGED i
       [] OTHER -> Go("apply") /\ UNCHANGED i
  /\ FilesStay /\ RenameStays /\ UNCHANGED <<mv, receipt, first, sub, ok, ret>> /\ Frame

BothOld == Holds(Src, "old") /\ Holds(Dst, "old")

\* ensurePublishedAttachment: a destination with the right bytes is our own
\* only once the journal says that it was published.
Publish ==
  LET copy == \/ aside[<<"mv", "blob">>] = "ok" \/ aside[<<"mv", "evidence">>] = "ok" IN
  /\ At("publish")
  /\ \/ /\ BothOld /\ mv.phase # "publishing"
        /\ Go("published") /\ UNCHANGED receipt
     \/ /\ Holds(Src, "old") /\ ~Exists(Dst) /\ mv.phase # "committed" /\ copy
        /\ Go("publish-install") /\ UNCHANGED receipt
     \/ /\ ~(BothOld /\ mv.phase # "publishing")
        /\ ~(Holds(Src, "old") /\ ~Exists(Dst) /\ mv.phase # "committed" /\ copy)
        /\ Receipt("manual-conflict")
  /\ FilesStay /\ RenameStays /\ MoveStays /\ UNCHANGED <<sub, ok, ret>> /\ Frame

\* The native publication creates the name with its bytes in one step, and
\* keeps the private copy they came from.
PublishInstall ==
  /\ At("publish-install")
  /\ IF Exists(Dst)
       THEN Receipt("manual-conflict") /\ UNCHANGED disk
       ELSE /\ disk' = [disk EXCEPT ![Dst] = "old"]
            /\ Go("publish-verify") /\ UNCHANGED receipt
  /\ UNCHANGED <<copies, draft, sub, ok, ret>> /\ MoveStays /\ RenameStays /\ Frame

PublishVerify ==
  /\ At("publish-verify")
  /\ IF BothOld
       THEN Phase("published") /\ Go("published") /\ UNCHANGED receipt
       ELSE Receipt("manual-conflict") /\ UNCHANGED mv
  /\ FilesStay /\ RenameStays /\ UNCHANGED <<i, first, sub, ok, ret>> /\ Frame

AfterPublish ==
  /\ At("published")
  /\ IF BothOld
       THEN Go(IF mv.phase = "committed" THEN "committed" ELSE "apply") /\ UNCHANGED receipt
       ELSE Receipt("manual-conflict")
  /\ FilesStay /\ RenameStays /\ MoveStays /\ UNCHANGED <<sub, ok, ret>> /\ Frame

Apply ==
  /\ At("apply")
  /\ Phase("applying") /\ i' = 1 /\ Go("entry")
  /\ first' = \A k \in DOMAIN mv.status : mv.status[k] = "pending"
  /\ FilesStay /\ RenameStays /\ UNCHANGED <<receipt, sub, ok, ret>> /\ Frame

\* An entry another attempt gave up.
EntrySpoilt ==
  /\ At("entry") /\ i <= Len(story.links) /\ mv.status[i] \in {"conflict", "rolled-back"}
  /\ BeginRollback
  /\ FilesStay /\ RenameStays /\ UNCHANGED <<receipt, first, sub, ok, ret>> /\ Frame

\* An entry written before the last stop.
EntryApplied ==
  /\ At("entry") /\ i <= Len(story.links) /\ mv.status[i] = "applied"
  /\ IF Holds(Entry, "new")
       THEN NextEntry /\ UNCHANGED sub
       ELSE Write(Entry, "new", "new", "diverged") /\ UNCHANGED i
  /\ FilesStay /\ RenameStays /\ UNCHANGED <<mv, receipt, first, ok, ret>> /\ Frame

\* An entry still to be written; the corpus is compared before the first.
EntryPending ==
  /\ At("entry") /\ i <= Len(story.links) /\ mv.status[i] = "pending"
  /\ \/ /\ Holds(Entry, "new")
        /\ Mark("applied") /\ NextEntry /\ UNCHANGED <<first, sub>>
     \/ /\ ~Holds(Entry, "new") /\ first /\ ~CorpusHolds(FALSE)
        /\ BeginRollback /\ UNCHANGED <<first, sub>>
     \/ /\ ~Holds(Entry, "new") /\ (first => CorpusHolds(FALSE))
        /\ Write(Entry, "old", "new", "entry-wrote") /\ first' = FALSE /\ UNCHANGED <<mv, i>>
  /\ FilesStay /\ RenameStays /\ UNCHANGED <<receipt, ok, ret>> /\ Frame

EntryWrote ==
  /\ At("entry-wrote")
  /\ IF ok THEN Mark("applied") /\ NextEntry
           ELSE Mark("conflict") /\ Go("spoilt") /\ UNCHANGED i
  /\ FilesStay /\ RenameStays /\ UNCHANGED <<receipt, first, sub, ok, ret>> /\ Frame

\* recordMoveWithWritesConflict: the rewrite that is no longer there was
\* written once more, expecting itself.
Diverged ==
  /\ At("diverged")
  /\ Mark(IF ok THEN "applied" ELSE "conflict") /\ Go("spoilt")
  /\ FilesStay /\ RenameStays /\ UNCHANGED <<receipt, i, first, sub, ok, ret>> /\ Frame

Spoilt ==
  /\ At("spoilt")
  /\ BeginRollback
  /\ FilesStay /\ RenameStays /\ UNCHANGED <<receipt, first, sub, ok, ret>> /\ Frame

EntriesDone ==
  /\ At("entry") /\ i > Len(story.links)
  /\ i' = 1 /\ Go("verify")
  /\ FilesStay /\ RenameStays /\ UNCHANGED <<mv, receipt, first, sub, ok, ret>> /\ Frame

Verify ==
  /\ At("verify")
  /\ \/ /\ i > Len(story.links)
        /\ Go("corpus") /\ UNCHANGED <<i, sub>>
     \/ /\ i <= Len(story.links) /\ Holds(Entry, "new")
        /\ i' = i + 1 /\ UNCHANGED <<at, sub>>
     \/ /\ i <= Len(story.links) /\ ~Holds(Entry, "new")
        /\ Write(Entry, "new", "new", "diverged") /\ UNCHANGED i
  /\ FilesStay /\ RenameStays /\ UNCHANGED <<mv, receipt, first, ok, ret>> /\ Frame

CheckCorpus ==
  /\ At("corpus")
  /\ \/ ~CorpusHolds(TRUE) /\ BeginRollback /\ UNCHANGED ret
     \/ CorpusHolds(TRUE) /\ story.strict /\ Go("final") /\ UNCHANGED <<mv, i, ret>>
     \/ /\ CorpusHolds(TRUE) /\ ~story.strict
        /\ Phase("renaming") /\ Go("r-check") /\ ret' = "renamed" /\ UNCHANGED i
  /\ FilesStay /\ RenameStays /\ UNCHANGED <<receipt, first, sub, ok>> /\ Frame

Commit == Phase("committed") /\ Go("committed") /\ UNCHANGED i

\* A published copy is verified once more under both names.
FinalCheck ==
  /\ At("final")
  /\ IF BothOld THEN Commit ELSE BeginRollback
  /\ FilesStay /\ RenameStays /\ UNCHANGED <<receipt, first, sub, ok, ret>> /\ Frame

\* Mutant: the result of the rename is not looked at.
RenamedBlindly ==
  /\ At("renamed")
  /\ Commit
  /\ FilesStay /\ RenameStays /\ UNCHANGED <<receipt, first, sub, ok, ret>> /\ Frame

Renamed ==
  /\ At("renamed")
  /\ IF ok THEN Commit ELSE BeginRollback
  /\ FilesStay /\ RenameStays /\ UNCHANGED <<receipt, first, sub, ok, ret>> /\ Frame

Committed ==
  /\ At("committed")
  /\ Receipt(IF story.strict THEN Published ELSE "committed")
  /\ FilesStay /\ RenameStays /\ MoveStays /\ UNCHANGED <<sub, ok, ret>> /\ Frame

\* resumeMoveWithWritesRename: recovery has settled the rename; the two names
\* tell how.
Resume ==
  LET s == disk[Src]  d == disk[Dst] IN
  /\ At("resume")
  /\ \/ /\ s \notin {"absent", Rev} \/ (s = "absent" /\ d # Rev)
        /\ Receipt("manual-conflict") /\ UNCHANGED <<mv, i>>
     \/ /\ s = "absent" /\ d = Rev /\ CorpusHolds(TRUE)
        /\ Commit /\ UNCHANGED receipt
     \/ /\ s = "absent" /\ d = Rev /\ ~CorpusHolds(TRUE)
        /\ Go("undo") /\ UNCHANGED <<mv, i, receipt>>
     \/ s = Rev /\ d # "absent" /\ BeginRollback /\ UNCHANGED receipt
     \/ s = Rev /\ d = "absent" /\ Go("apply") /\ UNCHANGED <<mv, i, receipt>>
  /\ FilesStay /\ RenameStays /\ UNCHANGED <<first, sub, ok, ret>> /\ Frame

ResumeRestored ==
  /\ At("resume-restored")
  /\ IF ok THEN BeginRollback /\ UNCHANGED receipt
           ELSE Receipt("manual-conflict") /\ UNCHANGED <<mv, i>>
  /\ FilesStay /\ RenameStays /\ UNCHANGED <<first, sub, ok, ret>> /\ Frame

\* rollbackMoveWithWrites, from the last entry to the first.
Rollback ==
  /\ At("rollback") /\ i > 0
  /\ \/ /\ mv.status[i] \in {"rolled-back", "conflict"}
        /\ i' = i - 1 /\ UNCHANGED <<at, mv, sub>>
     \/ /\ mv.status[i] \notin {"rolled-back", "conflict"} /\ Holds(Entry, "old")
        /\ Mark("rolled-back") /\ i' = i - 1 /\ UNCHANGED <<at, sub>>
     \/ /\ mv.status[i] \notin {"rolled-back", "conflict"} /\ ~Holds(Entry, "old")
        /\ Write(Entry, "new", "old", "rollback-wrote") /\ UNCHANGED <<mv, i>>
  /\ FilesStay /\ RenameStays /\ UNCHANGED <<receipt, first, ok, ret>> /\ Frame

\* Mutant: an entry is skipped after every one that was written.
RollbackWroteSkipping ==
  /\ At("rollback-wrote")
  /\ mv' = [mv EXCEPT !.status[i] = IF ok THEN "rolled-back" ELSE "conflict",
                      !.manual = @ \/ ~ok]
  /\ i' = i - 2 /\ Go("rollback")
  /\ FilesStay /\ RenameStays /\ UNCHANGED <<receipt, first, sub, ok, ret>> /\ Frame

RollbackWrote ==
  /\ At("rollback-wrote")
  /\ mv' = [mv EXCEPT !.status[i] = IF ok THEN "rolled-back" ELSE "conflict",
                      !.manual = @ \/ ~ok]
  /\ i' = i - 1 /\ Go("rollback")
  /\ FilesStay /\ RenameStays /\ UNCHANGED <<receipt, first, sub, ok, ret>> /\ Frame

RolledBack ==
  /\ At("rollback") /\ i = 0
  /\ Receipt(IF mv.manual THEN "manual-conflict"
             ELSE IF \E k \in DOMAIN mv.status : mv.status[k] = "conflict" THEN "conflict-copy"
             ELSE "rolled-back")
  /\ FilesStay /\ RenameStays /\ MoveStays /\ UNCHANGED <<sub, ok, ret>> /\ Frame

\* Mutant: the journal stays behind its receipt.
MoveRetireNothing ==
  /\ At("m-retire")
  /\ Go(IF mode = "recovering" THEN "recover" ELSE "idle")
  /\ FilesStay /\ RenameStays /\ MoveStays /\ UNCHANGED <<receipt, sub, ok, ret>> /\ Frame

\* archiveJournal: the receipt is written, then the journal goes.
MoveRetire ==
  /\ At("m-retire")
  /\ mv' = NoMove /\ Go(IF mode = "recovering" THEN "recover" ELSE "idle")
  /\ FilesStay /\ RenameStays /\ UNCHANGED <<receipt, i, first, sub, ok, ret>> /\ Frame
-----------------------------------------------------------------------------
(* The rename: copy to the new name, then remove the old one.              *)

RenameEnds(o) ==
  /\ receipt' = [receipt EXCEPT !.rename = o] /\ ok' = (o # "manual-conflict")
  /\ Go("r-retire")
RenameConflict == RenameEnds("manual-conflict")
Ready == Holds(Src, Rev) /\ ~Exists(Dst)
Doubled == Holds(Src, Rev) /\ Holds(Dst, Rev)

\* performRename up to the journal.
RenameCheck ==
  /\ At("r-check")
  /\ IF CorpusHolds(TRUE) /\ Ready
       THEN rn' = "intent" /\ Go("r-final") /\ UNCHANGED <<receipt, ok>>
       ELSE /\ receipt' = [receipt EXCEPT !.rename = "rejected"]
            /\ ok' = FALSE /\ Go(ret) /\ UNCHANGED rn
  /\ FilesStay /\ MoveStays /\ UNCHANGED <<aside, kept, sub, ret>> /\ Frame

RenameFinal ==
  /\ At("r-final")
  /\ IF Ready /\ CorpusHolds(TRUE)
       THEN /\ aside' = [aside EXCEPT ![<<"rn", "blob">>] = "torn"]
            /\ Go("r-blob") /\ UNCHANGED <<receipt, ok>>
       ELSE RenameConflict /\ UNCHANGED aside
  /\ FilesStay /\ MoveStays /\ UNCHANGED <<rn, kept, sub, ret>> /\ Frame

RenameBlob ==
  /\ At("r-blob")
  /\ aside' = [aside EXCEPT ![<<"rn", "blob">>] = "ok", ![<<"rn", "evidence">>] = "torn"]
  /\ Go("r-evidence")
  /\ FilesStay /\ MoveStays /\ UNCHANGED <<rn, kept, receipt, sub, ok, ret>> /\ Frame

RenameEvidence ==
  /\ At("r-evidence")
  /\ aside' = [aside EXCEPT ![<<"rn", "evidence">>] = "ok"]
  /\ rn' = "staged" /\ Go("r-staged")
  /\ FilesStay /\ MoveStays /\ UNCHANGED <<kept, receipt, sub, ok, ret>> /\ Frame

RenameStaged ==
  /\ At("r-staged")
  /\ \/ ~Ready /\ RenameConflict /\ UNCHANGED sub
     \/ /\ Ready /\ ~story.strict
        /\ Install(<<"rn", "blob">>, Dst, "r-installed") /\ UNCHANGED <<receipt, ok>>
     \/ Ready /\ story.strict /\ Go("r-publish") /\ UNCHANGED <<sub, receipt, ok>>
  /\ FilesStay /\ MoveStays /\ RenameStays /\ UNCHANGED ret /\ Frame

\* The native publication of a contained file, new or found by recovery: its
\* bytes are those of the private copy, which stays.
NativePublish(l) ==
  IF Exists(Dst)
    THEN RenameConflict /\ UNCHANGED disk
    ELSE disk' = [disk EXCEPT ![Dst] = "old"] /\ ok' = TRUE /\ Go(l) /\ UNCHANGED receipt

RenamePublish ==
  /\ At("r-publish") /\ NativePublish("r-installed")
  /\ UNCHANGED <<copies, draft, sub, ret>> /\ MoveStays /\ RenameStays /\ Frame

RenameInstalled ==
  /\ At("r-installed")
  /\ IF ok /\ Doubled
       THEN rn' = "linked" /\ Go("r-linked") /\ UNCHANGED <<receipt, ok>>
       ELSE RenameConflict /\ UNCHANGED rn
  /\ FilesStay /\ MoveStays /\ UNCHANGED <<aside, kept, sub, ret>> /\ Frame

\* A contained file is published, not renamed: its old name stays.  The
\* journal says so before the last look at both names.
RenameLinkedStrict ==
  /\ At("r-linked") /\ story.strict
  /\ IF CorpusHolds(TRUE)
       THEN rn' = "published" /\ Go("r-published") /\ UNCHANGED <<receipt, ok>>
       ELSE RenameConflict /\ UNCHANGED rn
  /\ FilesStay /\ MoveStays /\ UNCHANGED <<aside, kept, sub, ret>> /\ Frame

RenamePublished ==
  /\ At("r-published")
  /\ IF Doubled THEN rn' = "committed" /\ RenameEnds(Published)
                ELSE RenameConflict /\ UNCHANGED rn
  /\ FilesStay /\ MoveStays /\ UNCHANGED <<aside, kept, sub, ret>> /\ Frame

\* The notes changed: the new name is taken back.
RenameLinked ==
  /\ At("r-linked") /\ ~story.strict
  /\ IF CorpusHolds(TRUE)
       THEN Go("r-remove") /\ UNCHANGED <<disk, receipt, ok>>
       ELSE /\ disk' = IF Holds(Dst, Rev) THEN [disk EXCEPT ![Dst] = "absent"] ELSE disk
            /\ RenameConflict
  /\ UNCHANGED <<copies, draft, sub, ret>> /\ MoveStays /\ RenameStays /\ Frame

RenameRemove ==
  /\ At("r-remove")
  /\ IF Doubled THEN Go("r-claim") /\ UNCHANGED <<receipt, ok>> ELSE RenameConflict
  /\ FilesStay /\ MoveStays /\ RenameStays /\ UNCHANGED <<sub, ret>> /\ Frame

\* Mutant: the old name is removed whatever it holds.
RenameClaimBlindly ==
  /\ At("r-claim")
  /\ disk' = [disk EXCEPT ![Src] = "absent"] /\ Go("r-removed")
  /\ UNCHANGED <<copies, draft, receipt, sub, ok, ret>> /\ MoveStays /\ RenameStays /\ Frame

\* removeExpectedFile claims the name, compares, and gives it back if the
\* bytes are not the expected ones.
RenameClaim ==
  /\ At("r-claim")
  /\ IF Holds(Src, Rev)
       THEN disk' = [disk EXCEPT ![Src] = "absent"] /\ Go("r-removed") /\ UNCHANGED <<receipt, ok>>
       ELSE RenameConflict /\ UNCHANGED disk
  /\ UNCHANGED <<copies, draft, sub, ret>> /\ MoveStays /\ RenameStays /\ Frame

\* Somebody took the old name, or changed the new one after all.
RenameRemoved ==
  LET evidence == aside[<<"rn", "evidence">>] = "ok" IN
  /\ At("r-removed")
  /\ \/ /\ Exists(Src) \/ (~Holds(Dst, Rev) /\ ~evidence)
        /\ RenameConflict /\ UNCHANGED <<rn, sub>>
     \/ /\ ~Exists(Src) /\ Holds(Dst, Rev)
        /\ rn' = "committed" /\ RenameEnds("committed") /\ UNCHANGED sub
     \/ /\ ~Exists(Src) /\ ~Holds(Dst, Rev) /\ evidence
        /\ Install(<<"rn", "evidence">>, Src, "r-restored") /\ UNCHANGED <<rn, receipt, ok>>
  /\ FilesStay /\ MoveStays /\ UNCHANGED <<aside, kept, ret>> /\ Frame

RenameRestored ==
  /\ At("r-restored")
  /\ RenameConflict
  /\ FilesStay /\ MoveStays /\ RenameStays /\ UNCHANGED <<sub, ret>> /\ Frame

RenameRetire ==
  /\ At("r-retire")
  /\ rn' = "none" /\ Go(ret)
  /\ kept' = (kept \/ aside[<<"rn", "evidence">>] = "ok")
  /\ aside' = [a \in Aside |-> IF a[1] = "rn" THEN "absent" ELSE aside[a]]
  /\ FilesStay /\ MoveStays /\ UNCHANGED <<receipt, sub, ok, ret>> /\ Frame
-----------------------------------------------------------------------------
(* Recovery of the rename.                                                 *)

\* Mutant: a destination left alone by the rename is removed like a double.
RecoverRenameDropping ==
  LET s == disk[Src]  d == disk[Dst] IN
  /\ At("rec-rename") /\ ~story.strict
  /\ \/ /\ (s \notin {"absent", Rev} \/ d \notin {"absent", Rev}
              \/ (CorpusHolds(TRUE) /\ s = "absent" /\ d = "absent"))
        /\ RenameConflict /\ UNCHANGED disk
     \/ /\ s \in {"absent", Rev} /\ d \in {"absent", Rev} /\ ~CorpusHolds(TRUE)
        /\ disk' = [disk EXCEPT ![Dst] = "absent"] /\ RenameConflict
     \/ /\ CorpusHolds(TRUE) /\ s = Rev /\ d \in {"absent", Rev}
        /\ Go(IF d = Rev THEN "rec-evidence" ELSE "rec-stage") /\ UNCHANGED <<disk, receipt, ok>>
     \/ /\ CorpusHolds(TRUE) /\ s = "absent" /\ d = Rev
        /\ RenameEnds("committed") /\ UNCHANGED disk
  /\ UNCHANGED <<copies, draft, sub, ret>> /\ MoveStays /\ RenameStays /\ Frame

\* recoverRename: go on from what the two names hold, or take the move of the
\* name back when the notes have changed.
RecoverRename ==
  LET s == disk[Src]  d == disk[Dst]  usual == {"absent", Rev} IN
  /\ At("rec-rename") /\ ~story.strict
  /\ \/ /\ s \notin usual \/ d \notin usual \/ (s = "absent" /\ d = "absent")
        /\ RenameConflict /\ UNCHANGED disk
     \/ /\ ~CorpusHolds(TRUE) /\ s = "absent" /\ d = Rev
        /\ Go("undo") /\ UNCHANGED <<disk, receipt, ok>>
     \/ /\ ~CorpusHolds(TRUE) /\ s = Rev /\ d \in usual
        /\ disk' = [disk EXCEPT ![Dst] = "absent"] /\ RenameConflict
     \/ /\ CorpusHolds(TRUE) /\ s = Rev /\ d \in usual
        /\ Go(IF d = Rev THEN "rec-evidence" ELSE "rec-stage") /\ UNCHANGED <<disk, receipt, ok>>
     \/ /\ CorpusHolds(TRUE) /\ s = "absent" /\ d = Rev
        /\ RenameEnds("committed") /\ UNCHANGED disk
  /\ UNCHANGED <<copies, draft, sub, ret>> /\ MoveStays /\ RenameStays /\ Frame

\* recoverPublishedRename: the destination is our own only if the journal says
\* that it was published, and once that was the end it is not made again.
RecoverPublished ==
  LET blob == aside[<<"rn", "blob">>]  evidence == aside[<<"rn", "evidence">>]
      owned == rn \in {"published", "committed"}
      copy == blob = "ok" \/ (blob = "absent" /\ evidence = "ok") IN
  /\ At("rec-rename") /\ story.strict
  /\ \/ /\ CorpusHolds(TRUE) /\ Doubled /\ owned
        /\ Go("rec-published") /\ UNCHANGED <<receipt, ok>>
     \/ /\ CorpusHolds(TRUE) /\ Ready /\ rn # "committed" /\ copy
        /\ Go("rec-publish") /\ UNCHANGED <<receipt, ok>>
     \/ /\ \/ ~CorpusHolds(TRUE) \/ ~(Doubled \/ Ready) \/ (Doubled /\ ~owned)
           \/ (Ready /\ (rn = "committed" \/ ~copy))
        /\ RenameConflict
  /\ FilesStay /\ MoveStays /\ RenameStays /\ UNCHANGED <<sub, ret>> /\ Frame

RecoverPublish ==
  /\ At("rec-publish")
  /\ NativePublish("rec-published")
  /\ UNCHANGED <<copies, draft, sub, ret>> /\ MoveStays /\ RenameStays /\ Frame

RecoverPublishedEnd ==
  /\ At("rec-published")
  /\ IF Doubled THEN RenameEnds(Published) ELSE RenameConflict
  /\ FilesStay /\ MoveStays /\ RenameStays /\ UNCHANGED <<sub, ret>> /\ Frame

RecoverUndone ==
  /\ At("rec-undone")
  /\ RenameConflict
  /\ FilesStay /\ MoveStays /\ RenameStays /\ UNCHANGED <<sub, ret>> /\ Frame

\* The new name is missing: install it from the private copy.
RecoverStage ==
  LET blob == aside[<<"rn", "blob">>] IN
  /\ At("rec-stage")
  /\ \/ blob = "torn" /\ RenameConflict /\ UNCHANGED <<aside, rn, sub>>
     \/ /\ blob = "absent" /\ Go("rec-blob")
        /\ aside' = [aside EXCEPT ![<<"rn", "blob">>] = "torn"]
        /\ UNCHANGED <<rn, receipt, sub, ok>>
     \/ /\ blob = "ok" /\ rn' = "staged"
        /\ Install(<<"rn", "blob">>, Dst, "rec-installed") /\ UNCHANGED <<aside, receipt, ok>>
  /\ FilesStay /\ MoveStays /\ UNCHANGED <<kept, ret>> /\ Frame

RecoverBlob ==
  /\ At("rec-blob")
  /\ aside' = [aside EXCEPT ![<<"rn", "blob">>] = "ok"] /\ Go("rec-stage")
  /\ FilesStay /\ MoveStays /\ UNCHANGED <<rn, kept, receipt, sub, ok, ret>> /\ Frame

RecoverInstalled ==
  /\ At("rec-installed")
  /\ IF ok /\ Doubled THEN Go("rec-evidence") /\ UNCHANGED <<receipt, ok>> ELSE RenameConflict
  /\ FilesStay /\ MoveStays /\ RenameStays /\ UNCHANGED <<sub, ret>> /\ Frame

\* Before the old name goes there is a recovery copy.
RecoverEvidence ==
  LET evidence == aside[<<"rn", "evidence">>] IN
  /\ At("rec-evidence")
  /\ \/ evidence = "torn" /\ RenameConflict /\ UNCHANGED aside
     \/ /\ evidence = "absent" /\ Go("rec-evidence-made")
        /\ aside' = [aside EXCEPT ![<<"rn", "evidence">>] = "torn"] /\ UNCHANGED <<receipt, ok>>
     \/ evidence = "ok" /\ Go("rec-remove") /\ UNCHANGED <<aside, receipt, ok>>
  /\ FilesStay /\ MoveStays /\ UNCHANGED <<rn, kept, sub, ret>> /\ Frame

RecoverEvidenceMade ==
  /\ At("rec-evidence-made")
  /\ aside' = [aside EXCEPT ![<<"rn", "evidence">>] = "ok"] /\ Go("rec-remove")
  /\ FilesStay /\ MoveStays /\ UNCHANGED <<rn, kept, receipt, sub, ok, ret>> /\ Frame

RecoverRemove ==
  /\ At("rec-remove")
  /\ IF Holds(Src, Rev)
       THEN disk' = [disk EXCEPT ![Src] = "absent"] /\ Go("rec-removed") /\ UNCHANGED <<receipt, ok>>
       ELSE RenameConflict /\ UNCHANGED disk
  /\ UNCHANGED <<copies, draft, sub, ret>> /\ MoveStays /\ RenameStays /\ Frame

RecoverRemoved ==
  /\ At("rec-removed")
  /\ \/ Holds(Dst, Rev) /\ RenameEnds("committed") /\ UNCHANGED sub
     \/ /\ ~Holds(Dst, Rev) /\ aside[<<"rn", "evidence">>] = "ok"
        /\ Install(<<"rn", "evidence">>, Src, "r-restored") /\ UNCHANGED <<receipt, ok>>
     \/ /\ ~Holds(Dst, Rev) /\ aside[<<"rn", "evidence">>] # "ok"
        /\ RenameConflict /\ UNCHANGED sub
  /\ FilesStay /\ MoveStays /\ RenameStays /\ UNCHANGED ret /\ Frame
-----------------------------------------------------------------------------
(* restoreRenameSource: copy the new name back to the old one, for the     *)
(* rename's recovery or for the move's.                                    *)

UndoFor == IF rn # "none" THEN "rn" ELSE "mv"
UndoEnds(b) == ok' = b /\ Go(IF rn # "none" THEN "rec-undone" ELSE "resume-restored")

UndoCheck ==
  LET undo == aside[<<UndoFor, "undo">>] IN
  /\ At("undo")
  /\ IF ~Exists(Src) /\ Holds(Dst, Rev) /\ undo # "torn"
       THEN /\ Go(IF undo = "ok" THEN "undo-install" ELSE "undo-stage")
            /\ aside' = IF undo = "ok" THEN aside
                          ELSE [aside EXCEPT ![<<UndoFor, "undo">>] = "torn"]
            /\ UNCHANGED ok
       ELSE UndoEnds(FALSE) /\ UNCHANGED aside
  /\ FilesStay /\ MoveStays /\ UNCHANGED <<rn, kept, receipt, sub, ret>> /\ Frame

UndoStage ==
  /\ At("undo-stage")
  /\ aside' = [aside EXCEPT ![<<UndoFor, "undo">>] = "ok"] /\ Go("undo-install")
  /\ FilesStay /\ MoveStays /\ UNCHANGED <<rn, kept, receipt, sub, ok, ret>> /\ Frame

UndoInstall ==
  /\ At("undo-install")
  /\ Install(<<UndoFor, "undo">>, Src, "undo-copied")
  /\ FilesStay /\ MoveStays /\ RenameStays /\ UNCHANGED <<receipt, ok, ret>> /\ Frame

UndoCopied ==
  /\ At("undo-copied")
  /\ IF ok /\ Doubled
       THEN disk' = [disk EXCEPT ![Dst] = "absent"] /\ UndoEnds(TRUE)
       ELSE UndoEnds(FALSE) /\ UNCHANGED disk
  /\ UNCHANGED <<copies, draft, receipt, sub, ret>> /\ MoveStays /\ RenameStays /\ Frame
-----------------------------------------------------------------------------
(* Opening the vault: note writes are recovered first, then the rename,    *)
(* then the move.                                                          *)

Open ==
  /\ mode = "down"
  /\ mode' = "recovering" /\ Go("recover")
  /\ UNCHANGED <<story, disk, copies, journals, i, first, sub, ok, ret, touched, spent>>

\* recoverWrite, as in KeepBoth: a staged rewrite that is not in its note
\* becomes a conflict copy.
RecoverWrite ==
  /\ At("recover") /\ draft # NoDraft
  /\ copies' = IF Holds(draft.file, draft.next) THEN copies
                 ELSE copies \cup {<<draft.file, draft.next>>}
  /\ draft' = NoDraft
  /\ UNCHANGED <<disk, receipt, local>> /\ UNCHANGED mv /\ RenameStays /\ Frame

RecoverJournal ==
  /\ At("recover") /\ draft = NoDraft /\ (rn # "none" \/ mv.phase # "none")
  /\ Go(IF rn # "none" THEN "rec-rename" ELSE "continue") /\ ret' = "recover"
  /\ FilesStay /\ MoveStays /\ RenameStays /\ UNCHANGED <<receipt, sub, ok>> /\ Frame

Opened ==
  /\ At("recover") /\ ~Pending
  /\ mode' = "open" /\ Go("idle")
  /\ UNCHANGED <<story, disk, copies, journals, i, first, sub, ok, ret, touched, spent>>

\* A journal a failed call has left waits for the next start.
Quit ==
  /\ mode = "open" /\ at = "idle" /\ Pending
  /\ mode' = "down" /\ Go("down")
  /\ UNCHANGED <<story, disk, copies, journals, i, first, sub, ok, ret, touched, spent>>
-----------------------------------------------------------------------------
(* What goes wrong.                                                        *)

Busy == at \notin {"idle", "down"}
Spend(what) == spent[what] < story[what] /\ spent' = [spent EXCEPT ![what] = @ + 1]
Forget == sub' = NoSub /\ ok' = FALSE /\ i' = 0 /\ first' = FALSE /\ ret' = "idle"

Crash ==
  /\ mode # "down" /\ Spend("crash")
  /\ mode' = "down" /\ Go("down") /\ Forget
  /\ UNCHANGED <<story, disk, copies, journals, touched>>

\* A file-system call fails.  The copying back of the source, publications and
\* recovery's installation of the new name answer "no" (a live publication may
\* also throw, and either may have published all the same); anything else gives up, and so does the opening of the vault.
Undoing == at \in {"undo", "undo-stage", "undo-install", "undo-copied"}
Refusable == \/ at \in {"publish-install", "r-publish", "rec-publish"}
             \/ at = "rec-installed" /\ sub.step # "none"
Fault ==
  /\ Busy /\ Spend("fault")
  /\ \/ /\ Undoing /\ UndoEnds(FALSE) /\ sub' = NoSub
        /\ UNCHANGED <<disk, mode, i, first, ret, receipt>>
     \/ /\ Refusable
        /\ \/ disk' = disk
           \/ at # "rec-installed" /\ ~Exists(Dst) /\ disk' = [disk EXCEPT ![Dst] = "old"]
        /\ \/ at = "rec-installed" /\ Return(FALSE) /\ UNCHANGED <<at, receipt>>
           \/ at = "publish-install" /\ Receipt("manual-conflict") /\ UNCHANGED <<sub, ok>>
           \/ at \in {"r-publish", "rec-publish"} /\ RenameConflict /\ UNCHANGED sub
        /\ UNCHANGED <<mode, i, first, ret>>
     \/ /\ ~Undoing /\ (Refusable => at = "r-publish")
        /\ Forget /\ mode' = IF mode = "recovering" THEN "down" ELSE mode
        /\ Go(IF mode = "recovering" THEN "down" ELSE "idle")
        /\ UNCHANGED <<disk, receipt>>
  /\ UNCHANGED <<story, copies, draft, mv, rn, aside, kept, touched>>

\* The bytes are installed, but the private copy cannot be dropped: "no".
InstallUncleaned ==
  /\ sub.step = "fill" /\ Holds(sub.file, "torn") /\ Spend("fault")
  /\ disk' = [disk EXCEPT ![sub.file] = Rev] /\ Return(FALSE)
  /\ UNCHANGED <<story, copies, journals, mode, at, i, first, ret, touched>>

\* Another program replaces, deletes or creates a file; it may happen to
\* write the bytes the file had.
External ==
  /\ Spend("ext")
  /\ \E f \in File, c \in {"foreign", "absent", "old"} :
       /\ disk[f] # c
       /\ disk' = [disk EXCEPT ![f] = c]
       /\ touched' = touched \cup {f}
  /\ UNCHANGED <<story, copies, journals, mode, local>>
-----------------------------------------------------------------------------
Init ==
  /\ story \in Stories
  /\ disk = [f \in File |-> IF f = Dst THEN "absent" ELSE "old"]
  /\ copies = {} /\ draft = NoDraft /\ mv = NoMove /\ rn = "none"
  /\ aside = [a \in Aside |-> "absent"] /\ kept = FALSE
  /\ receipt = [move |-> "none", rename |-> "none"]
  /\ mode = "open" /\ at = IF story.links = << >> THEN "r-check" ELSE "m-check"
  /\ i = 0 /\ first = FALSE /\ sub = NoSub /\ ok = FALSE /\ ret = "idle"
  /\ touched = {} /\ spent = [ext |-> 0, crash |-> 0, fault |-> 0]

Writing == WriteStage \/ WriteSwap \/ WriteClose \/ InstallMake \/ InstallFill
Moving ==
  \/ MoveCheck \/ Continue \/ Publish \/ PublishInstall \/ PublishVerify \/ AfterPublish
  \/ Apply \/ EntrySpoilt \/ EntryApplied \/ EntryPending \/ EntryWrote \/ Diverged \/ Spoilt
  \/ EntriesDone \/ Verify \/ CheckCorpus \/ FinalCheck \/ Renamed \/ Committed
  \/ Resume \/ ResumeRestored \/ Rollback \/ RollbackWrote \/ RolledBack \/ MoveRetire
Renaming ==
  \/ RenameCheck \/ RenameFinal \/ RenameBlob \/ RenameEvidence \/ RenameStaged
  \/ RenamePublish \/ RenameInstalled \/ RenameLinkedStrict \/ RenamePublished \/ RenameLinked \/ RenameRemove
  \/ RenameClaim \/ RenameRemoved \/ RenameRestored \/ RenameRetire
Recovering ==
  \/ RecoverWrite \/ RecoverJournal \/ RecoverRename \/ RecoverPublished \/ RecoverPublish
  \/ RecoverPublishedEnd \/ RecoverUndone \/ RecoverStage
  \/ RecoverBlob \/ RecoverInstalled \/ RecoverEvidence \/ RecoverEvidenceMade
  \/ RecoverRemove \/ RecoverRemoved \/ UndoCheck \/ UndoStage \/ UndoInstall \/ UndoCopied
Program == Writing \/ Moving \/ Renaming \/ Recovering \/ Open \/ Opened \/ Quit
Next == Program \/ Crash \/ Fault \/ InstallUncleaned \/ External

Spec == Init /\ [][Next]_vars

\* The kernel goes on with what it does, and the vault is opened again.
FairSpec == Spec /\ WF_vars(Program)
-----------------------------------------------------------------------------
Statuses == [DOMAIN story.links -> Status]
Moves == [phase : MovePhase, status : Statuses \cup {<< >>}, manual : BOOLEAN]
Calls == [step : {"none", "write", "swap", "close", "make", "fill"}, file : File,
          base : {"old", "new", "absent"}, next : {"old", "new", "absent"}, from : Aside]
TypeOK ==
  /\ story \in Stories /\ disk \in [File -> Content] /\ copies \subseteq File \X {"old", "new"}
  /\ draft \in [file : File, next : {"old", "new"}] \cup {NoDraft}
  /\ mv \in Moves /\ (mv.phase = "none" \/ mv.status \in Statuses)
  /\ rn \in {"none", "intent", "staged", "linked", "published", "committed"}
  /\ aside \in [Aside -> Private] /\ kept \in BOOLEAN
  /\ receipt \in [move : Outcome, rename : Outcome]
  /\ mode \in {"down", "recovering", "open"} /\ at \in Label /\ ret \in Label
  /\ i \in 0 .. Len(story.links) + 1 /\ first \in BOOLEAN /\ ok \in BOOLEAN /\ sub \in Calls
  /\ touched \subseteq File /\ spent \in [{"ext", "crash", "fault"} -> Nat]

\* No step of the program, of its recovery or of its rollback replaces or
\* removes what another program has put under a name.
OthersStay ==
  [][~External => \A f \in File : disk[f] = "foreign" => disk'[f] = "foreign"]_vars

\* The moved file is there, at every moment and whatever fails: under the old
\* or the new name as long as nobody else changed either, and in a recovery
\* copy at least as long as nobody changed the old one.
SourceSafe ==
  /\ touched \cap {Src, Dst} = {} => Own(Src) \/ Own(Dst)
  /\ Src \notin touched => Own(Src) \/ Own(Dst) \/ kept \/ aside[<<"rn", "evidence">>] = "ok"

\* Once everything is settled, a note that nobody else changed links to a
\* name under which the file is, or which somebody else changed; and if
\* nobody changed anything, the notes agree.  One exception is recorded as a
\* manual conflict: the source was changed before the rename and a restart.
LinksReach == Settled =>
  /\ \A f \in Linked \ (touched \cup {Src}) :
       \/ disk[f] = "new" /\ (Own(Dst) \/ Dst \in touched)
       \/ disk[f] = "new" /\ Src \in touched /\ receipt.move = "manual-conflict"
       \/ disk[f] = "old" /\ (Own(Src) \/ Src \in touched)
  /\ touched = {} => \A f, g \in Linked \ {Src} : disk[f] = disk[g]

\* What a receipt, of a move or a rename, says is so when it is written, for
\* every file nobody else changed.
Says(o) ==
  LET are(c) == \A f \in Linked \ touched : disk[f] = c IN
  CASE o = "committed" ->
         /\ \A f \in Linked \ (touched \cup {Src}) : disk[f] = "new"
         /\ Src \in touched \/ ~Exists(Src)
         /\ Dst \in touched \/ Holds(Dst, Rev)
    [] o = Published ->
         /\ are("new")
         /\ \A f \in {Src, Dst} \ touched : Holds(f, "old")
    [] o = "rolled-back" -> are("old") /\ (Src \in touched \/ Holds(Src, "old"))
    [] o = "conflict-copy" -> copies # {}
    [] OTHER -> TRUE
ReceiptTrue ==
  [][/\ receipt'.move # receipt.move => Says(receipt'.move)
     /\ receipt'.rename # receipt.rename => Says(receipt'.rename)]_vars

\* A move ends: however often the application stops, the journals are worked
\* off and the vault opens.
MoveSettles == []<>Settled
=============================================================================
