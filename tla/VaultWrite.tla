----------------------------- MODULE VaultWrite -----------------------------
(***************************************************************************)
(* The vault kernel's single-file write transaction and its recovery, on   *)
(* the portable (not descriptor-contained) path that every note and JSON   *)
(* write takes: performWrite / performWriteTransaction, recoverWrite and   *)
(* archiveJournal of src/kernel/vault-kernel.ts over the primitives of     *)
(* src/kernel/durability.ts.                                               *)
(*                                                                         *)
(* One note is written by the kernel and, at any moment, by an external    *)
(* editor.  The kernel can crash between any two file-system calls, during *)
(* recovery too, and any call can fail without a crash, which leaves the   *)
(* journal pending until the vault is next opened.                         *)
(*                                                                         *)
(* A file's bytes are a member of Version; Torn stands for the bytes of a  *)
(* file that has been created exclusively but not yet written and synced.  *)
(* The private names of a transaction (temp, roll, before, and the target  *)
(* of a keep-both copy, side) carry its random id, so nobody else writes   *)
(* them; the same holds of a claim's quarantine name and of a fresh        *)
(* conflict name.  A claim or a conflict copy that is no longer being      *)
(* worked on moves to the set residue or copies.                           *)
(***************************************************************************)
EXTENDS Naturals, FiniteSets

CONSTANTS
  Tx,        \* transaction ids
  Version,   \* revisions of complete file contents
  Absent,    \* no file has the name
  Torn,      \* created, but empty or partly written
  Shared,    \* tags the file names that belong to no transaction
  MaxSave,   \* bound: saves and deletions by the external editor
  MaxLate,   \* bound: its saves into a note already claimed by the kernel
  MaxCrash,  \* bound: crashes of the kernel
  MaxFault   \* bound: file-system calls that fail

ASSUME Marks == /\ Absent \notin Version /\ Torn \notin Version
                /\ Absent # Torn /\ Shared \notin Tx
ASSUME Bounds == MaxSave \in Nat /\ MaxLate \in Nat /\ MaxCrash \in Nat
                 /\ MaxFault \in 0 .. 7   \* promotion has eight attempts

Content == Version \cup {Absent, Torn}

Note  == <<"note", Shared>>    \* the note both sides write
Copy  == <<"copy", Shared>>    \* the conflict copy being promoted
Claim == <<"claim", Shared>>   \* the quarantine name of a running removal
Temp(t)   == <<"temp", t>>     \* .threadleaf-write-<id>.tmp
Roll(t)   == <<"roll", t>>     \* .threadleaf-rollback-<id>.tmp
Before(t) == <<"before", t>>   \* recovery/<id>.before, outside the vault
Side(t)   == <<"side", t>>     \* target of createConflictCopy's own write

Slot == ({"note", "copy", "claim"} \X {Shared})
          \cup ({"temp", "roll", "before", "side"} \X Tx)

Phase == {"none", "intent", "staged", "backed-up", "prepared", "installed", "committed"}
Outcome == {"none", "committed", "conflict-copy", "rolled-back", "manual-conflict",
            "committed-with-conflict-copy"}

(* A journal file; phase "none" when the transaction has no journal file.  *)
Journal == [phase : Phase, dest : Slot, before : Content, next : Content]

(* The routine of durability.ts that runs now, with its local state.       *)
SubStep == {"none", "create", "fill", "check", "validate", "claim", "inspect",
            "reinspect", "putback", "putfill", "settle", "settle-failed"}
Sub == [op : {"create", "install", "remove"}, step : SubStep, file : Slot, to : Slot,
        rev : Content, bytes : Content]

Keeps == {"keep-promote", "keep-commit", "rec-keep-temp", "rec-keep-extra"}
Label == Keeps \cup
  {"down", "idle", "staged", "backup", "backed-up", "final", "prepare", "authorize",
   "retire-temp", "aside", "aside-made", "moved", "verify", "restored", "rethrow",
   "install-done", "log-installed", "log-committed", "promote", "promoted", "archive",
   "retire", "recover", "rec-read", "rec-temp", "rec-temp-removed", "rec-installed",
   "rec-restore", "rec-restored", "rec-extra", "rec-outcome"}

VARIABLES
  disk,      \* Slot -> Content
  copies,    \* contents of the settled conflict copies, visible in the vault
  residue,   \* contents of abandoned .threadleaf-claim-*.tmp names
  journal,   \* Tx -> Journal
  history,   \* Tx -> Outcome: the receipt in history/<id>.json
  mode,      \* "down" | "recovering" | "open"
  pc, cur,   \* next step of the transaction code, and its transaction
  sub, ok,   \* running file-system routine, result of the last one
  outcome,   \* argument of the coming archiveJournal
  owed,      \* ghost: versions somebody relies on being kept
  latest,    \* ghost: last external save no transaction has read as its base
  present,   \* ghost: the note was put in place and nobody deleted it since
  spent      \* uses of the bounds

durable  == <<disk, copies, residue, journal, history>>
volatile == <<mode, pc, cur, sub, ok, outcome>>
ghost    == <<owed, latest, present>>
vars == <<durable, volatile, ghost, spent>>
-----------------------------------------------------------------------------
NoSub == [op |-> "create", step |-> "none", file |-> Note, to |-> Note,
          rev |-> Absent, bytes |-> Absent]
Creating(s, c) == [NoSub EXCEPT !.step = "create", !.file = s, !.to = s, !.rev = c]
Installing(f, s) == [NoSub EXCEPT !.op = "install", !.step = "create", !.file = f, !.to = s,
                                  !.rev = disk[f]]
Removing(s, c) == [NoSub EXCEPT !.op = "remove", !.step = "validate", !.file = s, !.to = s,
                                !.rev = c]

Exists(s) == disk[s] # Absent
KeptAll(S) == S                      \* mutant: a missing file counts as kept
Kept(S) == S \ {Absent}              \* names that hold no file leave nothing behind
NameFreeUnchecked(s) == TRUE         \* mutant: create without O_EXCL
NameFree(s) == ~Exists(s)            \* the exclusive create finds no file
Pending == {t \in Tx : journal[t].phase # "none"}
Quiescent == mode = "open" /\ pc = "idle" /\ Pending = {}

At(l) == pc = l /\ sub.step = "none"
Running(s) == sub.step = s
Go(l) == pc' = l
J == journal[cur]

Call(s, l) == sub' = s /\ Go(l)      \* run routine s, then continue at l
Return(b)  == sub' = NoSub /\ ok' = b
-----------------------------------------------------------------------------
(* The file-system routines.                                               *)

\* durableCreate: exclusive open, the write and sync, and, for an install,
\* the re-read of the target.  The bytes reach the name only while it still
\* holds the inode that the open created.
CreateFile ==
  /\ Running("create")
  /\ IF NameFree(sub.to)
       THEN /\ disk' = [disk EXCEPT ![sub.to] = Torn]
            /\ sub' = [sub EXCEPT !.step = "fill"]
            /\ UNCHANGED ok
       ELSE Return(FALSE) /\ UNCHANGED disk
  /\ UNCHANGED <<copies, residue, journal, history, mode, pc, cur, outcome, ghost, spent>>

FillFile ==
  /\ Running("fill")
  /\ disk' = [disk EXCEPT ![sub.to] = IF @ = Torn THEN sub.rev ELSE @]
  /\ IF sub.op = "create"
       THEN Return(TRUE)
       ELSE sub' = [sub EXCEPT !.step = "check"] /\ UNCHANGED ok
  /\ UNCHANGED <<copies, residue, journal, history, mode, pc, cur, outcome, ghost, spent>>

VerifiedBlindly == TRUE              \* mutant: no re-read of the target
Verified == disk[sub.to] = sub.rev

\* installStagedFile after its create: verify the target, then remove the
\* staged name; the removal's result is the install's.
CheckInstalled ==
  /\ Running("check")
  /\ IF Verified
       THEN sub' = [sub EXCEPT !.step = "validate"] /\ UNCHANGED ok
       ELSE Return(FALSE)
  /\ present' = (present \/ (sub.to = Note /\ disk[Note] = sub.rev))
  /\ UNCHANGED <<durable, mode, pc, cur, outcome, owed, latest, spent>>

\* removeExpectedFilePortably.
ValidateClaim ==
  /\ Running("validate")
  /\ IF disk[sub.file] = sub.rev
       THEN sub' = [sub EXCEPT !.step = "claim"] /\ UNCHANGED ok
       ELSE Return(FALSE)
  /\ UNCHANGED <<durable, mode, pc, cur, outcome, ghost, spent>>

TakeClaim ==
  /\ Running("claim")
  /\ IF Exists(sub.file)
       THEN /\ disk' = [disk EXCEPT ![Claim] = disk[sub.file], ![sub.file] = Absent]
            /\ sub' = [sub EXCEPT !.step = "inspect"]
            /\ UNCHANGED ok
       ELSE Return(FALSE) /\ UNCHANGED disk
  /\ UNCHANGED <<copies, residue, journal, history, mode, pc, cur, outcome, ghost, spent>>

\* Mutant: the bytes stay under the quarantine name.
GiveBackNever ==
  sub' = [sub EXCEPT !.step = "settle-failed", !.bytes = disk[Claim]]

\* The claim turned out to hold other bytes: give them their name back
\* unless somebody took it meanwhile.
GiveBack ==
  sub' = [sub EXCEPT !.step = IF Exists(sub.file) THEN "settle-failed" ELSE "putback",
                     !.bytes = disk[Claim]]

InspectClaim ==
  /\ Running("inspect")
  /\ IF disk[Claim] = sub.rev THEN sub' = [sub EXCEPT !.step = "reinspect"] ELSE GiveBack
  /\ UNCHANGED <<durable, mode, pc, cur, ok, outcome, ghost, spent>>

ReinspectClaim ==
  /\ Running("reinspect")
  /\ IF disk[Claim] = sub.rev /\ ~Exists(sub.file)
       THEN sub' = [sub EXCEPT !.step = "settle"]
       ELSE GiveBack
  /\ UNCHANGED <<durable, mode, pc, cur, ok, outcome, ghost, spent>>

PutBack ==
  /\ Running("putback")
  /\ IF Exists(sub.file)
       THEN sub' = [sub EXCEPT !.step = "settle-failed"] /\ UNCHANGED disk
       ELSE /\ disk' = [disk EXCEPT ![sub.file] = Torn]
            /\ sub' = [sub EXCEPT !.step = "putfill"]
  /\ UNCHANGED <<copies, residue, journal, history, mode, pc, cur, ok, outcome, ghost, spent>>

PutFill ==
  /\ Running("putfill")
  /\ disk' = [disk EXCEPT ![sub.file] = IF @ = Torn THEN sub.bytes ELSE @]
  /\ sub' = [sub EXCEPT !.step = "settle-failed"]
  /\ UNCHANGED <<copies, residue, journal, history, mode, pc, cur, ok, outcome, ghost, spent>>

\* settlePortableClaim: unlink the claim if it still holds the expected bytes,
\* else leave it where it is.  The last re-read and the unlink are one step:
\* the code documents the race between the two as out of its reach.
SettleClaim ==
  /\ Running("settle") \/ Running("settle-failed")
  /\ Return(Running("settle") /\ disk[Claim] = sub.rev)
  /\ residue' = residue \cup Kept({disk[Claim]} \ {sub.rev})
  /\ disk' = [disk EXCEPT ![Claim] = Absent]
  /\ UNCHANGED <<copies, journal, history, mode, pc, cur, outcome, ghost, spent>>

Routine == \/ CreateFile \/ FillFile \/ CheckInstalled \/ ValidateClaim \/ TakeClaim
           \/ InspectClaim \/ ReinspectClaim \/ PutBack \/ PutFill \/ SettleClaim
-----------------------------------------------------------------------------
(* performWriteTransaction, one action per await that changes or reads the *)
(* vault.                                                                  *)

\* What a step of the transaction code leaves alone unless it says otherwise.
Frame == UNCHANGED <<copies, residue, mode, cur, ghost, spent>>

\* The first read and the intent journal.  If the caller's revision is stale
\* the proposal goes to a conflict name of its own, by a create transaction
\* (createConflictCopy).
Begin(t, expected, next) ==
  LET fresh == disk[Note] = expected IN
  /\ mode = "open" /\ At("idle")
  /\ journal[t].phase = "none" /\ history[t] = "none"
  /\ cur' = t
  /\ journal' = [journal EXCEPT ![t] =
       [phase |-> "intent", dest |-> IF fresh THEN Note ELSE Side(t),
        before |-> IF fresh THEN expected ELSE Absent, next |-> next]]
  /\ Call(Creating(Temp(t), next), "staged")
  /\ latest' = IF fresh THEN Absent ELSE latest
  /\ UNCHANGED <<disk, copies, residue, history, mode, ok, outcome, owed, present, spent>>

Log(l, phase, then) ==
  /\ At(l)
  /\ journal' = [journal EXCEPT ![cur].phase = phase]
  /\ Go(then)
  /\ UNCHANGED <<disk, history, sub, ok, outcome>>

LogStaged ==
  /\ Log("staged", "staged", "backup")
  /\ owed' = owed \cup {J.next}
  /\ UNCHANGED <<copies, residue, mode, cur, latest, present, spent>>

BackUp ==
  /\ At("backup")
  /\ IF J.before = Absent
       THEN Go("backed-up") /\ UNCHANGED sub
       ELSE Call(Creating(Before(cur), J.before), "backed-up")
  /\ UNCHANGED <<disk, journal, history, ok, outcome>> /\ Frame

LogBackedUp == Log("backed-up", "backed-up", "final") /\ Frame

\* Every conflict exit of the live transaction archives "conflict-copy".
Conflict(l) == Go(l) /\ outcome' = "conflict-copy"

FinalCheck ==
  /\ At("final")
  /\ IF disk[J.dest] = J.before
       THEN Go("prepare") /\ UNCHANGED outcome
       ELSE Conflict("promote")
  /\ UNCHANGED <<disk, journal, history, sub, ok>> /\ Frame

LogPrepared == Log("prepare", "prepared", "authorize") /\ Frame

Authorize ==
  /\ At("authorize")
  /\ IF J.before = Absent
       THEN Call(Installing(Temp(cur), J.dest), "install-done")
       ELSE Go("aside") /\ UNCHANGED sub
  /\ UNCHANGED <<disk, journal, history, ok, outcome>> /\ Frame

\* finalPrecondition of an attachment relink fails: the proposal is withdrawn.
Refuse ==
  /\ At("authorize") /\ J.dest = Note /\ J.before # Absent
  /\ Call(Removing(Temp(cur), J.next), "retire-temp")
  /\ owed' = owed \ {J.next}
  /\ UNCHANGED <<durable, mode, cur, ok, outcome, latest, present, spent>>

RetireRefused ==
  /\ At("retire-temp")
  /\ disk' = [disk EXCEPT ![Before(cur)] = Absent]
  /\ outcome' = "rolled-back" /\ Go("archive")
  /\ UNCHANGED <<journal, history, sub, ok>> /\ Frame

\* moveExistingTargetAside: copy what the target holds now to the rollback
\* name, then remove the target if it still holds that.
CopyAside ==
  /\ At("aside")
  /\ IF Exists(J.dest)
       THEN Call(Creating(Roll(cur), disk[J.dest]), "aside-made") /\ UNCHANGED outcome
       ELSE Conflict("keep-promote") /\ UNCHANGED sub
  /\ UNCHANGED <<disk, journal, history, ok>> /\ Frame

TakeAside ==
  /\ At("aside-made")
  /\ Call(Removing(J.dest, disk[Roll(cur)]), "moved")
  /\ UNCHANGED <<disk, journal, history, ok, outcome>> /\ Frame

MovedAside ==
  /\ At("moved")
  /\ IF ok THEN Go("verify") /\ UNCHANGED outcome ELSE Conflict("keep-promote")
  /\ UNCHANGED <<disk, journal, history, sub, ok>> /\ Frame

\* Mutant: the revision of the bytes moved aside is not compared.
VerifyAsideTrusting ==
  /\ At("verify")
  /\ disk' = [disk EXCEPT ![Before(cur)] = disk[Roll(cur)]]
  /\ Call(Installing(Temp(cur), J.dest), "install-done")
  /\ UNCHANGED <<journal, history, ok, outcome>> /\ Frame

\* The bytes moved aside become the evidence; if they are not the expected
\* ones they go back to the target unless somebody took the name.  The code
\* checks the rollback file twice; nobody else writes it here.
VerifyAside ==
  /\ At("verify")
  /\ disk' = [disk EXCEPT ![Before(cur)] = disk[Roll(cur)]]
  /\ \/ /\ disk[Roll(cur)] = J.before
        /\ Call(Installing(Temp(cur), J.dest), "install-done")
        /\ UNCHANGED outcome
     \/ /\ disk[Roll(cur)] # J.before /\ ~Exists(J.dest)
        /\ Call(Installing(Roll(cur), J.dest), "restored")
        /\ UNCHANGED outcome
     \/ /\ disk[Roll(cur)] # J.before /\ Exists(J.dest)
        /\ Conflict("keep-promote") /\ UNCHANGED sub
  /\ UNCHANGED <<journal, history, ok>> /\ Frame

Restored ==
  /\ At("restored")
  /\ Conflict(IF ok THEN "promote" ELSE "keep-promote")
  /\ UNCHANGED <<disk, journal, history, sub, ok>> /\ Frame

InstallDone ==
  /\ At("install-done")
  /\ IF ok THEN Go("log-installed") /\ UNCHANGED outcome ELSE Conflict("keep-promote")
  /\ UNCHANGED <<disk, journal, history, sub, ok>> /\ Frame

LogInstalled == Log("log-installed", "installed", "keep-commit") /\ Frame

LogCommitted ==
  /\ At("log-committed")
  /\ journal' = [journal EXCEPT ![cur].phase = "committed"]
  /\ outcome' = "committed" /\ Go("archive")
  /\ UNCHANGED <<disk, history, sub, ok>> /\ Frame

\* preserveRollback, then on to the step its caller continues with.
AfterKeep == [l \in Keeps |->
  CASE l = "keep-promote"   -> "promote"
    [] l = "keep-commit"    -> "log-committed"
    [] l = "rec-keep-temp"  -> "rec-temp"
    [] l = "rec-keep-extra" -> "rec-extra"]

PreserveRollback ==
  LET roll == disk[Roll(cur)] IN
  /\ pc \in Keeps /\ sub.step = "none"
  /\ disk' = IF roll = Absent THEN disk ELSE [disk EXCEPT ![Before(cur)] = roll]
  /\ sub' = IF roll # Absent /\ roll = J.before THEN Removing(Roll(cur), roll) ELSE sub
  /\ Go(AfterKeep[pc])
  /\ UNCHANGED <<journal, history, ok, outcome>> /\ Frame

\* An error: a live transaction rejects the caller's promise, recovery fails
\* the opening of the vault.  Either way the journal stays.
GiveUp ==
  /\ sub' = NoSub
  /\ mode' = IF mode = "recovering" THEN "down" ELSE mode
  /\ Go(IF mode = "recovering" THEN "down" ELSE "idle")

\* promoteTemporaryToConflict: install the staged file at a fresh name; an
\* attempt that fails leaves its copy and the next takes another name.
Promote ==
  /\ At("promote")
  /\ \/ /\ Exists(Temp(cur))
        /\ Call(Installing(Temp(cur), Copy), "promoted") /\ UNCHANGED mode
     \/ ~Exists(Temp(cur)) /\ GiveUp
  /\ UNCHANGED <<durable, cur, ok, outcome, ghost, spent>>

Promoted ==
  /\ At("promoted")
  /\ copies' = copies \cup Kept({disk[Copy]})
  /\ disk' = [disk EXCEPT ![Copy] = Absent]
  /\ Go(IF ok THEN "archive" ELSE "promote")
  /\ UNCHANGED <<residue, journal, history, mode, cur, sub, ok, outcome, ghost, spent>>

\* archiveJournal: the receipt first, then the journal goes.
Archive ==
  /\ At("archive")
  /\ history' = [history EXCEPT ![cur] = outcome]
  /\ Go("retire")
  /\ UNCHANGED <<disk, journal, sub, ok, outcome>> /\ Frame

\* Mutant: the journal file is not removed.
RetireNothing ==
  /\ At("retire")
  /\ Go(IF mode = "recovering" THEN "recover" ELSE "idle")
  /\ UNCHANGED <<disk, journal, history, sub, ok, outcome>> /\ Frame

Retire ==
  /\ At("retire")
  /\ journal' = [journal EXCEPT ![cur].phase = "none"]
  /\ Go(IF mode = "recovering" THEN "recover" ELSE "idle")
  /\ UNCHANGED <<disk, history, sub, ok, outcome>> /\ Frame
-----------------------------------------------------------------------------
(* Opening the vault: recoverUnlocked runs recoverWrite on every journal.  *)
(* Write journals are ordered by their random ids, so any order can occur. *)

Open ==
  /\ mode = "down"
  /\ mode' = "recovering" /\ Go("recover")
  /\ UNCHANGED <<durable, cur, sub, ok, outcome, ghost, spent>>

RecoverNext ==
  /\ At("recover")
  /\ \E t \in Pending : cur' = t
  /\ Go("rec-read")
  /\ UNCHANGED <<durable, mode, sub, ok, outcome, ghost, spent>>

Opened ==
  /\ At("recover") /\ Pending = {}
  /\ mode' = "open" /\ Go("idle")
  /\ UNCHANGED <<durable, cur, sub, ok, outcome, ghost, spent>>

RecRead ==
  LET target == disk[J.dest] IN
  /\ At("rec-read")
  /\ \/ /\ target = J.next
        /\ Go("rec-keep-temp") /\ UNCHANGED sub
     \/ /\ target = Absent /\ J.before = Absent /\ disk[Temp(cur)] = J.next
        /\ Call(Installing(Temp(cur), J.dest), "rec-installed")
     \/ /\ target # J.next
        /\ ~(target = Absent /\ J.before = Absent /\ disk[Temp(cur)] = J.next)
        /\ Go("rec-restore") /\ UNCHANGED sub
  /\ UNCHANGED <<disk, journal, history, ok, outcome>> /\ Frame

\* The target already holds the proposal: drop the staged file, or keep it as
\* a conflict copy if it holds something else.
RecTemp ==
  LET temp == disk[Temp(cur)] IN
  /\ At("rec-temp")
  /\ \/ /\ temp = Absent
        /\ Go("archive") /\ outcome' = "committed" /\ UNCHANGED sub
     \/ /\ temp = J.next
        /\ Call(Removing(Temp(cur), temp), "rec-temp-removed") /\ UNCHANGED outcome
     \/ /\ temp \notin {Absent, J.next}
        /\ Go("promote") /\ outcome' = "committed-with-conflict-copy" /\ UNCHANGED sub
  /\ UNCHANGED <<disk, journal, history, ok>> /\ Frame

RecTempRemoved ==
  /\ At("rec-temp-removed")
  /\ outcome' = IF ok THEN "committed" ELSE "manual-conflict"
  /\ Go("archive")
  /\ UNCHANGED <<disk, journal, history, sub, ok>> /\ Frame

RecInstalled ==
  /\ At("rec-installed")
  /\ IF ok
       THEN /\ journal' = [journal EXCEPT ![cur].phase = "committed"]
            /\ outcome' = "committed" /\ Go("archive")
       ELSE Go("rec-restore") /\ UNCHANGED <<journal, outcome>>
  /\ UNCHANGED <<disk, history, sub, ok>> /\ Frame

\* Mutant: recovery never installs the rollback copy.
RecRestoreNever ==
  /\ At("rec-restore")
  /\ Go("rec-keep-extra")
  /\ UNCHANGED <<disk, journal, history, sub, ok, outcome>> /\ Frame

RecRestore ==
  /\ At("rec-restore")
  /\ IF ~Exists(J.dest) /\ Exists(Roll(cur))
       THEN Call(Installing(Roll(cur), J.dest), "rec-restored")
       ELSE Go("rec-keep-extra") /\ UNCHANGED sub
  /\ UNCHANGED <<disk, journal, history, ok, outcome>> /\ Frame

RecRestored ==
  /\ At("rec-restored")
  /\ Go(IF ok THEN "rec-extra" ELSE "rec-keep-extra")
  /\ UNCHANGED <<disk, journal, history, sub, ok, outcome>> /\ Frame

\* Mutant: the staged proposal is left behind.
RecExtraLeaving ==
  /\ At("rec-extra")
  /\ Go("rec-outcome")
  /\ UNCHANGED <<disk, journal, history, sub, ok, outcome>> /\ Frame

\* Mutant: the proposal is removed as superseded by what the note now holds.
RecExtraDiscarding ==
  /\ At("rec-extra")
  /\ IF Exists(Temp(cur)) /\ Exists(J.dest)
       THEN Call(Removing(Temp(cur), disk[Temp(cur)]), "rec-outcome")
       ELSE Go("rec-outcome") /\ UNCHANGED sub
  /\ UNCHANGED <<disk, journal, history, ok, outcome>> /\ Frame

RecExtra ==
  /\ At("rec-extra")
  /\ IF Exists(Temp(cur)) THEN Conflict("promote") ELSE Go("rec-outcome") /\ UNCHANGED outcome
  /\ UNCHANGED <<disk, journal, history, sub, ok>> /\ Frame

RecOutcome ==
  /\ At("rec-outcome")
  /\ outcome' = IF disk[J.dest] = J.before THEN "rolled-back" ELSE "manual-conflict"
  /\ Go("archive")
  /\ UNCHANGED <<disk, journal, history, sub, ok>> /\ Frame
-----------------------------------------------------------------------------
(* Failures.                                                               *)

\* The process stops using the conflict name and the quarantine name it was
\* working on: what they hold stays in the vault.
Abandon ==
  /\ copies' = copies \cup Kept({disk[Copy]})
  /\ residue' = residue \cup Kept({disk[Claim]})
  /\ disk' = [disk EXCEPT ![Copy] = Absent, ![Claim] = Absent]

Spend(what, max) == spent[what] < max /\ spent' = [spent EXCEPT ![what] = @ + 1]

Crash ==
  /\ mode # "down" /\ Spend("crash", MaxCrash)
  /\ Abandon
  /\ mode' = "down" /\ Go("down") /\ sub' = NoSub
  /\ UNCHANGED <<journal, history, cur, ok, outcome, ghost>>

Busy == pc \notin {"down", "idle", "recover"}
Removal == {"validate", "claim", "inspect", "reinspect", "putback", "putfill",
            "settle", "settle-failed"}

\* A file-system call fails.
Fault ==
  /\ Busy /\ Spend("fault", MaxFault)
  /\ Abandon
  /\ \/ \* installStagedFile turns a failed removal of the staged name into FALSE
        /\ sub.op = "install" /\ sub.step \in Removal
        /\ Return(FALSE)
        /\ UNCHANGED <<mode, pc>>
     \/ \* a failed install of the proposal first restores the note if it can
        /\ pc = "install-done" /\ sub.step \in {"create", "fill", "check"}
        /\ Exists(Roll(cur)) /\ ~Exists(J.dest)
        /\ Call(Installing(Roll(cur), J.dest), "rethrow")
        /\ UNCHANGED <<mode, ok>>
     \/ /\ ~(sub.op = "install" /\ sub.step \in Removal)
        /\ ~(/\ pc = "install-done" /\ sub.step \in {"create", "fill", "check"}
             /\ Exists(Roll(cur)) /\ ~Exists(J.dest))
        /\ GiveUp
        /\ UNCHANGED ok
  /\ UNCHANGED <<journal, history, cur, outcome, ghost>>

Rethrow ==
  /\ At("rethrow") /\ Go("idle")
  /\ UNCHANGED <<durable, mode, cur, sub, ok, outcome, ghost, spent>>
-----------------------------------------------------------------------------
(* The external editor.                                                    *)

\* An atomic save: replaces the note, or creates it.
ExtSave(v) ==
  /\ Spend("save", MaxSave)
  /\ disk' = [disk EXCEPT ![Note] = v]
  /\ owed' = (owed \ {disk[Note]}) \cup {v}
  /\ latest' = v /\ present' = TRUE
  /\ UNCHANGED <<copies, residue, journal, history, volatile>>

ExtDelete ==
  /\ Exists(Note) /\ Spend("save", MaxSave)
  /\ disk' = [disk EXCEPT ![Note] = Absent]
  /\ owed' = owed \ {disk[Note]}
  /\ latest' = Absent /\ present' = FALSE
  /\ UNCHANGED <<copies, residue, journal, history, volatile>>

\* A save through a descriptor opened before the kernel claimed the note.
ExtLateSave(v) ==
  /\ sub.file = Note /\ Exists(Claim) /\ Spend("late", MaxLate)
  /\ disk' = [disk EXCEPT ![Claim] = v]
  /\ owed' = (owed \ {disk[Claim]}) \cup {v}
  /\ latest' = IF Exists(Note) THEN latest ELSE v
  /\ UNCHANGED present
  /\ UNCHANGED <<copies, residue, journal, history, volatile>>

-----------------------------------------------------------------------------
Init ==
  /\ \E v \in Version \cup {Absent} :
       /\ disk = [s \in Slot |-> IF s = Note THEN v ELSE Absent]
       /\ owed = Kept({v}) /\ present = (v # Absent)
  /\ copies = {} /\ residue = {}
  /\ journal = [t \in Tx |-> [phase |-> "none", dest |-> Note,
                              before |-> Absent, next |-> Absent]]
  /\ history = [t \in Tx |-> "none"]
  /\ mode = "open" /\ pc = "idle" /\ cur \in Tx /\ sub = NoSub /\ ok = FALSE
  /\ outcome = "none" /\ latest = Absent
  /\ spent = [save |-> 0, late |-> 0, crash |-> 0, fault |-> 0]

Live ==
  \/ LogStaged \/ BackUp \/ LogBackedUp \/ FinalCheck \/ LogPrepared \/ Authorize
  \/ Refuse \/ RetireRefused \/ CopyAside \/ TakeAside \/ MovedAside \/ VerifyAside
  \/ Restored \/ InstallDone \/ LogInstalled \/ PreserveRollback \/ LogCommitted
  \/ Promote \/ Promoted \/ Archive \/ Retire \/ Rethrow

Recovery ==
  \/ RecoverNext \/ Opened \/ RecRead \/ RecTemp \/ RecTempRemoved \/ RecInstalled
  \/ RecRestore \/ RecRestored \/ RecExtra \/ RecOutcome

Kernel == Routine \/ Live \/ Recovery
External == \/ \E v \in Version : ExtSave(v) \/ ExtLateSave(v)
            \/ ExtDelete

Next ==
  \/ \E t \in Tx, e \in Version \cup {Absent}, v \in Version : Begin(t, e, v)
  \/ Kernel \/ Open \/ Crash \/ Fault \/ External

Spec == Init /\ [][Next]_vars

\* The kernel's promises are eventually settled while the process runs; the
\* user is not obliged to open the vault or to start a write.
FairSpec == Spec /\ WF_vars(Kernel)
-----------------------------------------------------------------------------
(* Properties.                                                             *)

\* Every variable keeps its type.
TypeOK ==
  /\ disk \in [Slot -> Content]
  /\ copies \subseteq Version \cup {Torn}
  /\ residue \subseteq Version \cup {Torn}
  /\ journal \in [Tx -> Journal]
  /\ history \in [Tx -> Outcome]
  /\ mode \in {"down", "recovering", "open"}
  /\ pc \in Label /\ cur \in Tx
  /\ sub \in Sub /\ ok \in BOOLEAN
  /\ outcome \in Outcome
  /\ owed \subseteq Content /\ latest \in Content /\ present \in BOOLEAN
  /\ spent \in [{"save", "late", "crash", "fault"} -> Nat]

\* No version is lost: what the note held, every external save nobody has
\* replaced, and every proposal whose staging was journaled are at all times
\* in some file - the note, a conflict copy, a private name of a transaction,
\* its recovery evidence, or an abandoned claim - whatever crashes, failing
\* calls and external saves fall between the steps of write and recovery.
NothingLost == owed \subseteq {disk[s] : s \in Slot} \cup copies \cup residue

VisibleFiles == {disk[Note]} \cup {disk[Side(t)] : t \in Tx} \cup copies
Evidence == {disk[Before(t)] : t \in Tx}

\* Once nothing is pending, no version is left under a name that only a
\* retired journal knew (a staged or rollback file): it is in a file the user
\* sees, in recovery evidence, or in a claim whose owner was interrupted.  And
\* a transaction whose journal is gone leaves no staged file in the vault.
Surfaced ==
  /\ Quiescent => owed \subseteq VisibleFiles \cup residue \cup Evidence
  /\ \A t \in Tx : journal[t].phase = "none" => disk[Temp(t)] = Absent

\* From the installed phase on, the recovery evidence of the transaction is
\* exactly the version it displaced, the one its caller had read.
DisplacedKept ==
  \A t \in Tx : journal[t].phase \in {"installed", "committed"}
                  => disk[Before(t)] = journal[t].before

\* An external save that no transaction had read when it began, nor shares
\* its bytes with a base, is still pending when all transactions are settled.
Bases == {journal[t].before : t \in Tx}
Unseen == Quiescent /\ latest \notin {Absent} \cup Bases

\* A stale writer keeps both versions: without crashes and failing calls the
\* last unseen external save remains at the requested path, and with them it
\* is in a file the user sees, or in a claim.  A note torn by a crash is the
\* exception, and a save through an old descriptor may still be in a claim
\* nobody opened.  This is so for one transaction: with a second one pending
\* its staged file may take the name before the save is put back, and the
\* save is then in recovery evidence only.
ExternalStays ==
  Unseen /\ spent.late = 0 =>
    /\ latest \in VisibleFiles \cup residue \/ disk[Note] = Torn
    /\ spent.crash + spent.fault = 0 => latest = disk[Note]

\* No write, conflict or recovery makes an existing note's name disappear,
\* unless a program wrote into the note while it was being moved.
NoteStays == Quiescent /\ present /\ spent.late = 0 => Exists(Note)

\* The kernel never replaces a version at the note's name: it only fills a
\* free name or, in a live transaction, moves the note out of the way.
\* Recovery does not even do that.
KernelNeverOverwrites ==
  [][ disk'[Note] # disk[Note] /\ spent' = spent =>
        \/ disk[Note] \in {Absent, Torn}
        \/ (mode = "open" /\ disk'[Note] = Absent) ]_vars

\* Every write call returns and every opening of the vault ends, unless the
\* process crashes: no journal makes recovery run for ever.
Settles == (pc \notin {"idle", "down"}) ~> (pc \in {"idle", "down"})

=============================================================================
