------------------------- MODULE LinkedMovesProofs -------------------------
(***************************************************************************)
(* Proofs about module LinkedMoves: every variable keeps its type          *)
(* (TypeCorrect), the moved file is never without a name or a copy         *)
(* (SourceAlwaysSafe), nothing another program wrote is replaced or        *)
(* removed (OthersAlwaysStay), a settled vault has no note of its own that *)
(* links to nothing (LinksAlwaysReach), and receipts are true when they    *)
(* are written (ReceiptsTrue): for any vault, any list of links, and any   *)
(* number of stops, faults and changes from outside.                       *)
(*                                                                         *)
(* TypeOK alone is not inductive: the routine that writes a file, the      *)
(* entry that is worked on and the label the rename returns to have to fit *)
(* the step that is next, which is Placed.  SourceSafe needs Secured: what *)
(* has been checked about the two names, and which copies are complete,    *)
(* when a step that takes a name away is reached.  Links and receipts need *)
(* Linking: which phase of the journal a step works in, what the statuses  *)
(* say of the notes nobody else has changed, what is known of the two      *)
(* names at each step of the rename, and in which three ways a move ends.  *)
(***************************************************************************)
EXTENDS LinkedMoves, TLAPS, SequenceTheorems
-----------------------------------------------------------------------------
(* Where the kernel is, and what it knows there.                           *)

InMove == {"continue", "publish", "publish-install", "publish-verify", "published", "apply",
           "entry", "entry-wrote", "diverged", "spoilt", "verify", "corpus", "final",
                 "committed",
           "renamed", "resume", "resume-restored", "rollback", "rollback-wrote"}
InUndo == {"undo", "undo-stage", "undo-install", "undo-copied"}
InRename == {"r-check", "r-final", "r-blob", "r-evidence", "r-staged", "r-publish",
             "r-installed", "r-linked", "r-published", "r-remove", "r-claim", "r-removed",
             "r-restored", "r-retire", "rec-rename", "rec-publish", "rec-published",
             "rec-undone", "rec-stage", "rec-blob", "rec-installed", "rec-evidence",
             "rec-evidence-made", "rec-remove", "rec-removed"} \cup InUndo

\* A move that is worked on has its journal.
Journalled ==
  /\ at \in InMove => mv.phase # "none"
  /\ at \in InRename /\ ret = "renamed" => mv.phase # "none"
  /\ at \in InUndo /\ rn = "none" => mv.phase # "none"
  /\ at \in InRename \ (InUndo \cup {"r-check"}) => rn # "none"
  /\ ret \in {"idle", "renamed", "recover"}
  /\ mode = "down" => at = "down"
\* The entry that is worked on is one.
Indexed ==
  /\ at \in {"entry", "verify"} => i >= 1
  /\ at \in {"entry-wrote", "diverged", "rollback-wrote"} => i \in 1 .. Len(story.links)
  /\ at = "rollback" => i <= Len(story.links)
\* The routine writes bytes of the move's, and restores only the source.
Called ==
  /\ sub.step \in {"write", "swap", "close"} => {sub.base, sub.next} \subseteq {"old", "new"}
  /\ sub.from = <<"rn", "evidence">> => sub.file = Src /\ at = "r-restored"
  /\ sub.step = "none" => sub.from = <<"rn", "blob">>
Placed == Journalled /\ Indexed /\ Called

\* Where a step of the move leads.
Leads == InMove \cup {"idle", "recover", "m-retire", "r-check", "undo"}

\* The recovery copy is complete, and the source has not been removed.
HasEvidence == {"r-staged", "r-publish", "r-installed", "r-linked", "r-remove", "r-claim",
                "rec-remove"}
Before == {"r-final", "r-blob", "r-evidence", "r-staged", "r-publish", "r-installed",
           "r-linked", "r-remove", "r-claim", "rec-publish"}
Evidence == aside[<<"rn", "evidence">>] = "ok"

\* Before the old name goes, its bytes are under the new one and in the copy.
Secured ==
  /\ {Src, Dst} \cap touched = {} => Own(Src) \/ Own(Dst)
  /\ Src \notin touched => Own(Src) \/ kept \/ Evidence
  /\ at \in HasEvidence => Evidence
  /\ at \in Before /\ Src \notin touched => Own(Src)
  /\ at \in {"r-claim", "rec-evidence", "rec-evidence-made", "rec-remove"} /\ Dst \notin touched
       => Own(Dst)

\* The parts of TypeOK.
TypedFiles ==
  /\ story \in Stories /\ disk \in [File -> Content] /\ copies \subseteq File \X {"old", "new"}
  /\ draft \in [file : File, next : {"old", "new"}] \cup {NoDraft}
  /\ touched \subseteq File /\ spent \in [{"ext", "crash", "fault"} -> Nat]
TypedMove == mv \in Moves /\ (mv.phase = "none" \/ mv.status \in Statuses)
TypedRename ==
  /\ rn \in {"none", "intent", "staged", "linked", "published", "committed"}
  /\ aside \in [Aside -> Private] /\ kept \in BOOLEAN
  /\ receipt \in [move : Outcome, rename : Outcome]
TypedLabels == mode \in {"down", "recovering", "open"} /\ at \in Label /\ ret \in Label
TypedLocal ==
  i \in 0 .. Len(story.links) + 1 /\ first \in BOOLEAN /\ ok \in BOOLEAN /\ sub \in Calls

(* The files of a story: the links are distinct, none is the new name.     *)
LEMMA Links ==
  ASSUME TypeOK
  PROVE  /\ Len(story.links) \in Nat /\ DOMAIN story.links = 1 .. Len(story.links)
         /\ \A k \in 1 .. Len(story.links) : story.links[k] \in File \ {Dst}
         /\ Src \in File /\ Dst \in File
BY StoriesOK, Names DEF TypeOK, File

(* What the new name gets is the old bytes or the rewritten ones.          *)
LEMMA RevOwn == Rev \in {"old", "new"}
BY DEF Rev

(* What the shorthands of the actions do to the journal, to the receipt    *)
(* and to the routine that runs.                                           *)

Phased(p) == mv' \in Moves /\ mv'.phase = p /\ mv'.status = mv.status /\ mv'.manual = mv.manual
Turned ==
  /\ mv' \in Moves /\ mv'.phase = "rolling-back" /\ mv'.status = mv.status /\ mv'.manual = FALSE
  /\ i' = Len(story.links) /\ at' = "rollback"
Marked(s, manual) ==
  /\ mv' \in Moves /\ mv'.phase = mv.phase /\ mv'.manual = manual
  /\ mv'.status \in Statuses /\ mv'.status[i] = s
  /\ \A k \in 1 .. Len(story.links) : k # i => mv'.status[k] = mv.status[k]
Recorded(o) ==
  /\ receipt' \in [move : Outcome, rename : Outcome]
  /\ receipt'.move = o /\ receipt'.rename = receipt.rename /\ at' = "m-retire"
Ended(o) ==
  /\ receipt' \in [move : Outcome, rename : Outcome]
  /\ receipt'.rename = o /\ receipt'.move = receipt.move
  /\ ok' \in BOOLEAN /\ ok' = (o # "manual-conflict") /\ at' = "r-retire"
Writes(f, base, next) ==
  /\ sub' \in Calls /\ sub'.step = "write" /\ sub'.file = f /\ sub'.base = base
  /\ sub'.next = next /\ sub'.from = <<"rn", "blob">>
Installs(from, f) == sub' \in Calls /\ sub'.step = "make" /\ sub'.file = f /\ sub'.from = from
Returned == sub' \in Calls /\ sub'.step = "none" /\ sub'.from = <<"rn", "blob">>
      /\ sub'.file = Src
Advanced(s) ==
  /\ sub' \in Calls /\ sub'.step = s /\ sub'.file = sub.file /\ sub'.base = sub.base
  /\ sub'.next = sub.next /\ sub'.from = sub.from

(* What a phase, a status and a receipt change.                            *)
LEMMA JournalEffects ==
  ASSUME TypeOK
  PROVE  /\ \A p \in MovePhase : Phase(p) => Phased(p)
         /\ BeginRollback => Turned
         /\ \A s \in Status : mv.phase # "none" /\ i \in 1 .. Len(story.links) /\ Mark(s)
              => Marked(s, mv.manual)
         /\ \A o \in Outcome : Receipt(o) => Recorded(o)
         /\ \A o \in Outcome : RenameEnds(o) => Ended(o)
<1>1. mv \in Moves /\ (mv.phase = "none" \/ mv.status \in Statuses)
      /\ DOMAIN story.links = 1 .. Len(story.links)
      /\ receipt \in [move : Outcome, rename : Outcome]
  BY Links DEF TypeOK
<1>2. ASSUME NEW p \in MovePhase, Phase(p) PROVE Phased(p)
  BY <1>1, <1>2 DEF Phase, Phased, Moves
<1>3. ASSUME BeginRollback PROVE Turned
  BY <1>1, <1>3 DEF BeginRollback, Turned, Go, Moves, MovePhase
<1>4. ASSUME NEW s \in Status, Mark(s), mv.phase # "none", i \in 1 .. Len(story.links)
      PROVE  Marked(s, mv.manual)
  BY <1>1, <1>4 DEF Mark, Marked, Moves, Statuses
<1>5. ASSUME NEW o \in Outcome, Receipt(o) PROVE Recorded(o)
  BY <1>1, <1>5 DEF Receipt, Recorded, Go
<1>6. ASSUME NEW o \in Outcome, RenameEnds(o) PROVE Ended(o)
  BY <1>1, <1>6 DEF RenameEnds, Ended, Go
<1>7. QED
  BY <1>2, <1>3, <1>4, <1>5, <1>6

(* What a call, and a step of the routine that is called, do.              *)
LEMMA CallEffects ==
  /\ \A f \in File, b, n \in {"old", "new"}, l \in Label :
       Write(f, b, n, l) => Writes(f, b, n) /\ at' = l
  /\ \A f \in File, from \in Aside, l \in Label :
       Install(from, f, l) => Installs(from, f) /\ at' = l
  /\ \A b \in BOOLEAN : Return(b) => Returned /\ ok' = b
  /\ sub \in Calls => \A s \in {"swap", "close", "fill"} :
                        sub' = [sub EXCEPT !.step = s] => Advanced(s)
<1>1. <<"rn", "blob">> \in Aside /\ Src \in File
  BY DEF Aside, File
<1>2. NoSub \in Calls /\ NoSub.step = "none" /\ NoSub.from = <<"rn", "blob">>
      /\ NoSub.file = Src
  BY <1>1 DEF NoSub, Calls
<1>3. ASSUME NEW f \in File, NEW b \in {"old", "new"}, NEW n \in {"old", "new"},
      NEW l \in Label,
             Write(f, b, n, l)
      PROVE  Writes(f, b, n) /\ at' = l
  BY <1>2, <1>3 DEF Write, Writes, Calls, Go
<1>4. ASSUME NEW f \in File, NEW from \in Aside, NEW l \in Label, Install(from, f, l)
      PROVE  Installs(from, f) /\ at' = l
  BY <1>2, <1>4 DEF Install, Installs, Calls, Go
<1>5. ASSUME NEW b \in BOOLEAN, Return(b) PROVE Returned /\ ok' = b
  BY <1>2, <1>5 DEF Return, Returned
<1>6. ASSUME NEW s \in {"swap", "close", "fill"}, sub \in Calls, sub' = [sub EXCEPT !.step = s]
      PROVE  Advanced(s)
  BY <1>6 DEF Advanced, Calls
<1>7. QED
  BY <1>3, <1>4, <1>5, <1>6

(* The note write and the installation of a private copy keep every        *)
(* variable typed and the kernel placed.                                   *)
LEMMA WritingTyped ==
  ASSUME TypeOK, Placed, Writing
  PROVE  TypeOK' /\ Placed'
<1>0. /\ Len(story.links) \in Nat /\ DOMAIN story.links = 1 .. Len(story.links)
      /\ Src \in File /\ Dst \in File /\ Rev \in {"old", "new"}
      /\ \A k \in 1 .. Len(story.links) : story.links[k] \in File
  BY Links, RevOwn
<1>e. TypedFiles /\ TypedMove /\ TypedRename /\ TypedLocal /\ TypedLabels
  BY DEF TypeOK, TypedFiles, TypedMove, TypedRename, TypedLocal, TypedLabels
<1>j. Journalled /\ Indexed /\ Called
  BY DEF Placed
<1>1. CASE WriteStage
  <2>1. sub.step = "write"
    BY <1>1 DEF WriteStage
  <2>3. /\ Return(FALSE) => Returned /\ ok' = (FALSE)
        /\ sub' = [sub EXCEPT !.step = "swap"] => Advanced("swap")
    BY <1>0, <1>e, CallEffects DEF TypedLocal
  <2>4. UNCHANGED <<story, disk, mv, rn, aside, kept, receipt, mode, at, i, first, ret,
                    touched, spent>>
    BY <1>1 DEF WriteStage, RenameStays, MoveStays, Frame
  <2>5. at' \in {at}
    BY <1>0, <1>1, <2>3 DEF WriteStage, RenameStays, MoveStays, Frame
  <2>6. mv' \in Moves /\ (mv'.phase = "none" \/ mv'.status \in Statuses)
        /\ (mv.phase # "none" => mv'.phase # "none")
    BY <1>e, <2>4 DEF TypedMove
  <2>7. i' \in 0 .. Len(story.links) + 1 /\ first' \in BOOLEAN
    BY <1>e, <2>4 DEF TypedLocal
  <2>8. sub' \in Calls /\ ok' \in BOOLEAN
    BY <1>0, <1>e, <1>1, <2>3 DEF WriteStage, RenameStays, MoveStays, Frame, Returned, Advanced,
         TypedLocal
  <2>9. TypedRename'
    BY <1>e, <2>4 DEF TypedRename
  <2>f. sub.file \in File /\ sub.next \in {"old", "new"}
    BY <1>e, <1>j, <1>1 DEF WriteStage, TypedLocal, Calls, Called
  <2>g. <<sub.file, sub.next>> \in File \X {"old", "new"}
        /\ [file |-> sub.file, next |-> sub.next] \in [file : File, next : {"old", "new"}]
    BY <2>f
  <2>h. copies' \in {copies, copies \cup {<<sub.file, sub.next>>}}
        /\ draft' \in {draft, NoDraft, [file |-> sub.file, next |-> sub.next]}
    BY <1>1 DEF WriteStage
  <2>u. disk' \in [File -> Content]
    BY <1>e, <1>1, <2>f DEF WriteStage, TypedFiles, Content
  <2>10. TypedFiles'
    BY <1>e, <2>4, <2>g, <2>h, <2>u DEF TypedFiles
  <2>11. Journalled'
    BY <1>j, <2>1, <2>4, <2>5, <2>6 DEF Journalled, InMove, InRename, InUndo
  <2>12. Indexed'
    BY <1>0, <1>e, <1>j, <1>1, <2>3, <2>1, <2>4, <2>5 DEF Indexed, TypedLocal
  <2>c. Returned \/ Advanced("swap")
    BY <1>1, <2>3 DEF WriteStage
  <2>w. sub.step \in {"write", "swap"}
    BY <1>1 DEF WriteStage
  <2>13. Called'
    BY <1>j, <2>4, <2>w, <2>c DEF Called, Returned, Advanced
  <2>14. QED
    BY <1>e, <2>4, <2>5, <2>6, <2>7, <2>8, <2>9, <2>10, <2>11, <2>12, <2>13
       DEF TypeOK, Placed, TypedFiles, TypedRename, TypedLabels, Journalled, Label, Moves,
            Statuses
<1>2. CASE WriteSwap
  <2>1. sub.step = "swap"
    BY <1>2 DEF WriteSwap
  <2>3. /\ Return(FALSE) => Returned /\ ok' = (FALSE)
        /\ sub' = [sub EXCEPT !.step = "close"] => Advanced("close")
    BY <1>0, <1>e, CallEffects DEF TypedLocal
  <2>4. UNCHANGED <<story, mv, rn, aside, kept, receipt, mode, at, i, first, ret, touched,
                    spent>>
    BY <1>2 DEF WriteSwap, RenameStays, MoveStays, Frame
  <2>5. at' \in {at}
    BY <1>0, <1>2, <2>3 DEF WriteSwap, RenameStays, MoveStays, Frame
  <2>6. mv' \in Moves /\ (mv'.phase = "none" \/ mv'.status \in Statuses)
        /\ (mv.phase # "none" => mv'.phase # "none")
    BY <1>e, <2>4 DEF TypedMove
  <2>7. i' \in 0 .. Len(story.links) + 1 /\ first' \in BOOLEAN
    BY <1>e, <2>4 DEF TypedLocal
  <2>8. sub' \in Calls /\ ok' \in BOOLEAN
    BY <1>0, <1>e, <1>2, <2>3 DEF WriteSwap, RenameStays, MoveStays, Frame, Returned, Advanced,
         TypedLocal
  <2>9. TypedRename'
    BY <1>e, <2>4 DEF TypedRename
  <2>f. sub.file \in File /\ sub.next \in {"old", "new"}
    BY <1>e, <1>j, <1>2 DEF WriteSwap, TypedLocal, Calls, Called
  <2>g. <<sub.file, sub.next>> \in File \X {"old", "new"}
        /\ [file |-> sub.file, next |-> sub.next] \in [file : File, next : {"old", "new"}]
    BY <2>f
  <2>h. copies' \in {copies, copies \cup {<<sub.file, sub.next>>}}
        /\ draft' \in {draft, NoDraft, [file |-> sub.file, next |-> sub.next]}
    BY <1>2 DEF WriteSwap
  <2>u. disk' \in [File -> Content]
    BY <1>e, <1>2, <2>f DEF WriteSwap, TypedFiles, Content
  <2>10. TypedFiles'
    BY <1>e, <2>4, <2>g, <2>h, <2>u DEF TypedFiles
  <2>11. Journalled'
    BY <1>j, <2>1, <2>4, <2>5, <2>6 DEF Journalled, InMove, InRename, InUndo
  <2>12. Indexed'
    BY <1>0, <1>e, <1>j, <1>2, <2>3, <2>1, <2>4, <2>5 DEF Indexed, TypedLocal
  <2>c. Returned \/ Advanced("close")
    BY <1>2, <2>3 DEF WriteSwap
  <2>w. sub.step \in {"write", "swap"}
    BY <1>2 DEF WriteSwap
  <2>13. Called'
    BY <1>j, <2>4, <2>w, <2>c DEF Called, Returned, Advanced
  <2>14. QED
    BY <1>e, <2>4, <2>5, <2>6, <2>7, <2>8, <2>9, <2>10, <2>11, <2>12, <2>13
       DEF TypeOK, Placed, TypedFiles, TypedRename, TypedLabels, Journalled, Label, Moves,
            Statuses
<1>3. CASE WriteClose
  <2>1. sub.step = "close"
    BY <1>3 DEF WriteClose
  <2>3. Returned /\ ok' = Holds(sub.file, sub.next) /\ Holds(sub.file, sub.next) \in BOOLEAN
    BY <1>3, CallEffects DEF WriteClose, Holds
  <2>4. UNCHANGED <<story, disk, mv, rn, aside, kept, receipt, mode, at, i, first, ret,
                    touched, spent>>
    BY <1>3 DEF WriteClose, RenameStays, MoveStays, Frame
  <2>5. at' \in {at}
    BY <1>0, <1>3, <2>3 DEF WriteClose, RenameStays, MoveStays, Frame
  <2>6. mv' \in Moves /\ (mv'.phase = "none" \/ mv'.status \in Statuses)
        /\ (mv.phase # "none" => mv'.phase # "none")
    BY <1>e, <2>4 DEF TypedMove
  <2>7. i' \in 0 .. Len(story.links) + 1 /\ first' \in BOOLEAN
    BY <1>e, <2>4 DEF TypedLocal
  <2>8. sub' \in Calls /\ ok' \in BOOLEAN
    BY <1>0, <1>e, <1>3, <2>3 DEF WriteClose, RenameStays, MoveStays, Frame, Returned,
         TypedLocal
  <2>9. TypedRename'
    BY <1>e, <2>4 DEF TypedRename
  <2>10. TypedFiles'
    BY <1>0, <1>e, <1>j, <1>3, <2>3, <2>4 DEF WriteClose, RenameStays, MoveStays, Frame,
         TypedFiles, TypedLocal, Content, Calls, Called, NoDraft
  <2>11. Journalled'
    BY <1>j, <2>1, <2>4, <2>5, <2>6 DEF Journalled, InMove, InRename, InUndo
  <2>12. Indexed'
    BY <1>0, <1>e, <1>j, <1>3, <2>3, <2>1, <2>4, <2>5 DEF Indexed, TypedLocal
  <2>c. Returned
    BY <1>3, <2>3 DEF WriteClose
  <2>13. Called'
    BY <1>j, <2>4, <2>1, <2>c DEF Called, Returned
  <2>14. QED
    BY <1>e, <2>4, <2>5, <2>6, <2>7, <2>8, <2>9, <2>10, <2>11, <2>12, <2>13
       DEF TypeOK, Placed, TypedFiles, TypedRename, TypedLabels, Journalled, Label, Moves,
            Statuses
<1>4. CASE InstallMake
  <2>1. sub.step = "make"
    BY <1>4 DEF InstallMake
  <2>3. /\ Return(FALSE) => Returned /\ ok' = (FALSE)
        /\ sub' = [sub EXCEPT !.step = "fill"] => Advanced("fill")
    BY <1>0, <1>e, CallEffects DEF TypedLocal
  <2>4. UNCHANGED <<story, copies, draft, mv, rn, aside, kept, receipt, mode, at, i, first,
                    ret, touched, spent>>
    BY <1>4 DEF InstallMake, RenameStays, MoveStays, Frame
  <2>5. at' \in {at}
    BY <1>0, <1>4, <2>3 DEF InstallMake, RenameStays, MoveStays, Frame
  <2>6. mv' \in Moves /\ (mv'.phase = "none" \/ mv'.status \in Statuses)
        /\ (mv.phase # "none" => mv'.phase # "none")
    BY <1>e, <2>4 DEF TypedMove
  <2>7. i' \in 0 .. Len(story.links) + 1 /\ first' \in BOOLEAN
    BY <1>e, <2>4 DEF TypedLocal
  <2>8. sub' \in Calls /\ ok' \in BOOLEAN
    BY <1>0, <1>e, <1>4, <2>3 DEF InstallMake, RenameStays, MoveStays, Frame, Returned,
         Advanced, TypedLocal
  <2>9. TypedRename'
    BY <1>e, <2>4 DEF TypedRename
  <2>10. TypedFiles'
    BY <1>0, <1>e, <1>j, <1>4, <2>3, <2>4 DEF InstallMake, RenameStays, MoveStays, Frame,
         TypedFiles, TypedLocal, Content, Calls, Called, NoDraft
  <2>11. Journalled'
    BY <1>j, <2>1, <2>4, <2>5, <2>6 DEF Journalled, InMove, InRename, InUndo
  <2>12. Indexed'
    BY <1>0, <1>e, <1>j, <1>4, <2>3, <2>1, <2>4, <2>5 DEF Indexed, TypedLocal
  <2>c. Returned \/ Advanced("fill")
    BY <1>4, <2>3 DEF InstallMake
  <2>13. Called'
    BY <1>j, <2>4, <2>1, <2>c DEF InstallMake, Called, Returned, Advanced
  <2>14. QED
    BY <1>e, <2>4, <2>5, <2>6, <2>7, <2>8, <2>9, <2>10, <2>11, <2>12, <2>13
       DEF TypeOK, Placed, TypedFiles, TypedRename, TypedLabels, Journalled, Label, Moves,
            Statuses
<1>5. CASE InstallFill
  <2>1. sub.step = "fill"
    BY <1>5 DEF InstallFill
  <2>3. /\ Return(TRUE) => Returned /\ ok' = (TRUE)
        /\ Return(FALSE) => Returned /\ ok' = (FALSE)
    BY <1>0, <1>e, CallEffects DEF TypedLocal
  <2>4. UNCHANGED <<story, copies, draft, mv, rn, kept, receipt, mode, at, i, first, ret,
                    touched, spent>>
    BY <1>5 DEF InstallFill, MoveStays, Frame
  <2>5. at' \in {at}
    BY <1>0, <1>5, <2>3 DEF InstallFill, MoveStays, Frame
  <2>6. mv' \in Moves /\ (mv'.phase = "none" \/ mv'.status \in Statuses)
        /\ (mv.phase # "none" => mv'.phase # "none")
    BY <1>e, <2>4 DEF TypedMove
  <2>7. i' \in 0 .. Len(story.links) + 1 /\ first' \in BOOLEAN
    BY <1>e, <2>4 DEF TypedLocal
  <2>8. sub' \in Calls /\ ok' \in BOOLEAN
    BY <1>0, <1>e, <1>5, <2>3 DEF InstallFill, MoveStays, Frame, Returned, TypedLocal
  <2>9. TypedRename'
    BY <1>0, <1>e, <1>5, <2>3, <2>4 DEF InstallFill, MoveStays, Frame, TypedRename, TypedLocal,
         Private, Aside
  <2>10. TypedFiles'
    BY <1>0, <1>e, <1>j, <1>5, <2>3, <2>4 DEF InstallFill, MoveStays, Frame, TypedFiles,
         TypedLocal, Content, Calls, Called, NoDraft
  <2>11. Journalled'
    BY <1>j, <2>1, <2>4, <2>5, <2>6 DEF Journalled, InMove, InRename, InUndo
  <2>12. Indexed'
    BY <1>0, <1>e, <1>j, <1>5, <2>3, <2>1, <2>4, <2>5 DEF Indexed, TypedLocal
  <2>c. Returned
    BY <1>5, <2>3 DEF InstallFill
  <2>13. Called'
    BY <1>j, <2>4, <2>1, <2>c DEF Called, Returned
  <2>14. QED
    BY <1>e, <2>4, <2>5, <2>6, <2>7, <2>8, <2>9, <2>10, <2>11, <2>12, <2>13
       DEF TypeOK, Placed, TypedFiles, TypedRename, TypedLabels, Journalled, Label, Moves,
            Statuses
<1>6. QED
  BY <1>1, <1>2, <1>3, <1>4, <1>5 DEF Writing

(* So does every step of the move, and it leads where a move goes.         *)
LEMMA MovingTyped ==
  ASSUME TypeOK, Placed, Moving
  PROVE  TypeOK' /\ Placed' /\ at' \in Leads
<1>0. /\ Len(story.links) \in Nat /\ DOMAIN story.links = 1 .. Len(story.links)
      /\ Src \in File /\ Dst \in File /\ Rev \in {"old", "new"}
      /\ \A k \in 1 .. Len(story.links) : story.links[k] \in File
  BY Links, RevOwn
<1>e. TypedFiles /\ TypedMove /\ TypedRename /\ TypedLocal /\ TypedLabels
  BY DEF TypeOK, TypedFiles, TypedMove, TypedRename, TypedLocal, TypedLabels
<1>j. Journalled /\ Indexed /\ Called
  BY DEF Placed
<1>1. CASE MoveCheck
  <2>1. at = "m-check" /\ sub.step = "none"
    BY <1>1 DEF MoveCheck, At
  <2>4. UNCHANGED <<story, disk, copies, draft, rn, kept, mode, i, first, sub, ok, ret,
                    touched, spent>>
    BY <1>1 DEF MoveCheck, At, Go, FilesStay, Frame
  <2>5. at' \in {"continue", "idle"}
    BY <1>0, <1>1 DEF MoveCheck, At, Go, FilesStay, Frame
  <2>s. story.strict \in BOOLEAN /\ [k \in DOMAIN story.links |-> "pending"] \in Statuses
    BY <1>e, StoriesOK DEF TypedFiles, Statuses, Status
  <2>6. mv' \in Moves /\ (mv'.phase = "none" \/ mv'.status \in Statuses)
        /\ (mv' # mv => mv'.phase # "none") /\ (at' = "continue" => mv'.phase # "none")
    <3>1. \/ mv' = mv /\ at' = "idle"
          \/ \E p \in {"publishing", "intent"} :
               mv' = [phase |-> p, status |-> [k \in DOMAIN story.links |-> "pending"],
                      manual |-> FALSE]
      BY <1>1 DEF MoveCheck, Go
    <3>2. ASSUME NEW p \in {"publishing", "intent"},
                 mv' = [phase |-> p, status |-> [k \in DOMAIN story.links |-> "pending"],
                        manual |-> FALSE]
          PROVE  mv' \in Moves /\ mv'.status \in Statuses /\ mv'.phase # "none"
      BY <3>2, <2>s DEF Moves, MovePhase
    <3>3. QED
      BY <1>e, <3>1, <3>2 DEF TypedMove
  <2>7. i' \in 0 .. Len(story.links) + 1 /\ first' \in BOOLEAN
    BY <1>e, <2>4 DEF TypedLocal
  <2>8. sub' \in Calls /\ ok' \in BOOLEAN
    BY <1>e, <2>4 DEF TypedLocal
  <2>9. TypedRename'
    <3>1. receipt' \in [move : Outcome, rename : Outcome]
      BY <1>e, <1>1 DEF MoveCheck, TypedRename, Outcome
    <3>2. aside' \in [Aside -> Private]
      BY <1>e, <1>1 DEF MoveCheck, TypedRename, Private
    <3>3. QED
      BY <1>e, <2>4, <3>1, <3>2 DEF TypedRename
  <2>10. TypedFiles'
    BY <1>e, <2>4 DEF TypedFiles
  <2>11. Journalled'
    BY <1>j, <2>1, <2>4, <2>5, <2>6 DEF Journalled, InMove, InRename, InUndo
  <2>12. Indexed'
    BY <1>0, <1>e, <1>j, <1>1, <2>1, <2>4, <2>5 DEF MoveCheck, At, Go, FilesStay, Frame,
         Indexed, TypedLocal
  <2>13. Called'
    BY <1>0, <1>e, <1>j, <1>1, <2>1, <2>4, <2>5 DEF Called, Calls
  <2>l. at' \in Leads
    BY <2>1, <2>5, <1>j DEF Leads, InMove, Journalled
  <2>14. TypeOK' /\ Placed'
    BY <1>e, <2>4, <2>5, <2>6, <2>7, <2>8, <2>9, <2>10, <2>11, <2>12, <2>13
       DEF TypeOK, Placed, TypedFiles, TypedRename, TypedLabels, Journalled, Label, Moves,
            Statuses
  <2>15. QED
    BY <2>14, <2>l
<1>2. CASE Continue
  <2>1. at = "continue" /\ sub.step = "none"
    BY <1>2 DEF Continue, At
  <2>4. UNCHANGED <<story, disk, copies, draft, mv, rn, aside, kept, receipt, mode, first,
                    sub, ok, ret, touched, spent>>
    BY <1>2 DEF Continue, At, Go, FilesStay, RenameStays, Frame
  <2>5. at' \in {"rollback", "resume", "committed", "publish", "apply"}
    BY <1>0, <1>2 DEF Continue, At, Go, FilesStay, RenameStays, Frame
  <2>6. mv' \in Moves /\ (mv'.phase = "none" \/ mv'.status \in Statuses)
        /\ (mv.phase # "none" => mv'.phase # "none")
    BY <1>e, <2>4 DEF TypedMove
  <2>d. (i' = i \/ i' = Len(story.links)) /\ first' \in BOOLEAN
    BY <1>0, <1>e, <1>2 DEF Continue, At, Go, FilesStay, RenameStays, Frame, TypedLocal
  <2>7. i' \in 0 .. Len(story.links) + 1 /\ first' \in BOOLEAN
    BY <1>0, <1>e, <2>d DEF TypedLocal
  <2>8. sub' \in Calls /\ ok' \in BOOLEAN
    BY <1>e, <2>4 DEF TypedLocal
  <2>9. TypedRename'
    BY <1>e, <2>4 DEF TypedRename
  <2>10. TypedFiles'
    BY <1>e, <2>4 DEF TypedFiles
  <2>11. Journalled'
    BY <1>j, <2>1, <2>4, <2>5, <2>6 DEF Journalled, InMove, InRename, InUndo
  <2>12. Indexed'
    BY <1>0, <1>e, <1>j, <1>2, <2>1, <2>4, <2>5 DEF Continue, At, Go, FilesStay, RenameStays,
         Frame, Indexed, TypedLocal
  <2>13. Called'
    BY <1>0, <1>e, <1>j, <1>2, <2>1, <2>4, <2>5 DEF Called, Calls
  <2>l. at' \in Leads
    BY <2>1, <2>5, <1>j DEF Leads, InMove, Journalled
  <2>14. TypeOK' /\ Placed'
    BY <1>e, <2>4, <2>5, <2>6, <2>7, <2>8, <2>9, <2>10, <2>11, <2>12, <2>13
       DEF TypeOK, Placed, TypedFiles, TypedRename, TypedLabels, Journalled, Label, Moves,
            Statuses
  <2>15. QED
    BY <2>14, <2>l
<1>3. CASE Publish
  <2>1. at = "publish" /\ sub.step = "none"
    BY <1>3 DEF Publish, At
  <2>3. /\ Receipt("manual-conflict") => Recorded("manual-conflict")
    BY <1>0, <1>e, JournalEffects DEF Outcome, Published, TypedLocal
  <2>4. UNCHANGED <<story, disk, copies, draft, mv, rn, aside, kept, mode, i, first, sub, ok,
                    ret, touched, spent>>
    BY <1>3 DEF Publish, At, Go, FilesStay, RenameStays, MoveStays, Frame
  <2>5. at' \in {"published", "publish-install", "m-retire"}
    BY <1>0, <1>3, <2>3 DEF Publish, At, Go, FilesStay, RenameStays, MoveStays, Frame, Recorded
  <2>6. mv' \in Moves /\ (mv'.phase = "none" \/ mv'.status \in Statuses)
        /\ (mv.phase # "none" => mv'.phase # "none")
    BY <1>e, <2>4 DEF TypedMove
  <2>7. i' \in 0 .. Len(story.links) + 1 /\ first' \in BOOLEAN
    BY <1>e, <2>4 DEF TypedLocal
  <2>8. sub' \in Calls /\ ok' \in BOOLEAN
    BY <1>e, <2>4 DEF TypedLocal
  <2>9. TypedRename'
    BY <1>0, <1>e, <1>3, <2>3, <2>4 DEF Publish, At, Go, FilesStay, RenameStays, MoveStays,
         Frame, Recorded, TypedRename, TypedLocal
  <2>10. TypedFiles'
    BY <1>e, <2>4 DEF TypedFiles
  <2>11. Journalled'
    BY <1>j, <2>1, <2>4, <2>5, <2>6 DEF Journalled, InMove, InRename, InUndo
  <2>12. Indexed'
    BY <1>0, <1>e, <1>j, <1>3, <2>3, <2>1, <2>4, <2>5 DEF Publish, At, Go, FilesStay,
         RenameStays, MoveStays, Frame, Indexed, TypedLocal
  <2>13. Called'
    BY <1>0, <1>e, <1>j, <1>3, <2>3, <2>1, <2>4, <2>5 DEF Called, Calls
  <2>l. at' \in Leads
    BY <2>1, <2>5, <1>j DEF Leads, InMove, Journalled
  <2>14. TypeOK' /\ Placed'
    BY <1>e, <2>4, <2>5, <2>6, <2>7, <2>8, <2>9, <2>10, <2>11, <2>12, <2>13
       DEF TypeOK, Placed, TypedFiles, TypedRename, TypedLabels, Journalled, Label, Moves,
            Statuses
  <2>15. QED
    BY <2>14, <2>l
<1>4. CASE PublishInstall
  <2>1. at = "publish-install" /\ sub.step = "none"
    BY <1>4 DEF PublishInstall, At, RenameStays
  <2>3. /\ Receipt("manual-conflict") => Recorded("manual-conflict")
    BY <1>0, <1>e, JournalEffects DEF Outcome, Published, TypedLocal
  <2>4. UNCHANGED <<story, copies, draft, mv, rn, kept, mode, i, first, sub, ok, ret,
                    touched, spent>>
    BY <1>4 DEF PublishInstall, At, Go, MoveStays, Frame, RenameStays
  <2>5. at' \in {"publish-verify", "m-retire"}
    BY <1>0, <1>4, <2>3 DEF PublishInstall, At, Go, MoveStays, Frame, Recorded, RenameStays
  <2>6. mv' \in Moves /\ (mv'.phase = "none" \/ mv'.status \in Statuses)
        /\ (mv.phase # "none" => mv'.phase # "none")
    BY <1>e, <2>4 DEF TypedMove
  <2>7. i' \in 0 .. Len(story.links) + 1 /\ first' \in BOOLEAN
    BY <1>e, <2>4 DEF TypedLocal
  <2>8. sub' \in Calls /\ ok' \in BOOLEAN
    BY <1>e, <2>4 DEF TypedLocal
  <2>9. TypedRename'
    BY <1>0, <1>e, <1>4, <2>3, <2>4 DEF PublishInstall, At, Go, MoveStays, Frame, Recorded,
         TypedRename, TypedLocal, Private, Aside, RenameStays
  <2>10. TypedFiles'
    BY <1>0, <1>e, <1>j, <1>4, <2>3, <2>4 DEF PublishInstall, At, Go, MoveStays, Frame,
         TypedFiles, TypedLocal, Content, Calls, Called, NoDraft, RenameStays
  <2>11. Journalled'
    BY <1>j, <2>1, <2>4, <2>5, <2>6 DEF Journalled, InMove, InRename, InUndo
  <2>12. Indexed'
    BY <1>0, <1>e, <1>j, <1>4, <2>3, <2>1, <2>4, <2>5 DEF PublishInstall, At, Go, MoveStays,
         Frame, Indexed, TypedLocal, RenameStays
  <2>13. Called'
    BY <1>0, <1>e, <1>j, <1>4, <2>3, <2>1, <2>4, <2>5 DEF Called, Calls
  <2>l. at' \in Leads
    BY <2>1, <2>5, <1>j DEF Leads, InMove, Journalled
  <2>14. TypeOK' /\ Placed'
    BY <1>e, <2>4, <2>5, <2>6, <2>7, <2>8, <2>9, <2>10, <2>11, <2>12, <2>13
       DEF TypeOK, Placed, TypedFiles, TypedRename, TypedLabels, Journalled, Label, Moves,
            Statuses
  <2>15. QED
    BY <2>14, <2>l
<1>5. CASE PublishVerify
  <2>1. at = "publish-verify" /\ sub.step = "none"
    BY <1>5 DEF PublishVerify, At
  <2>2. mv.phase # "none" /\ (mv.phase = "none" \/ mv.status \in Statuses)
    BY <1>e, <1>j, <2>1 DEF TypedMove, Journalled, InMove
  <2>3. /\ Phase("published") => Phased("published")
        /\ Receipt("manual-conflict") => Recorded("manual-conflict")
    BY <1>0, <1>e, JournalEffects DEF MovePhase, Outcome, Published, TypedLocal
  <2>4. UNCHANGED <<story, disk, copies, draft, rn, aside, kept, mode, i, first, sub, ok,
                    ret, touched, spent>>
    BY <1>5 DEF PublishVerify, At, Go, FilesStay, RenameStays, Frame
  <2>5. at' \in {"published", "m-retire"}
    BY <1>0, <1>5, <2>3, <2>2 DEF PublishVerify, At, Go, FilesStay, RenameStays, Frame, Recorded
  <2>6. mv' \in Moves /\ (mv'.phase = "none" \/ mv'.status \in Statuses)
        /\ (mv.phase # "none" => mv'.phase # "none")
    BY <1>0, <1>e, <1>5, <2>3, <2>2 DEF PublishVerify, At, Go, FilesStay, RenameStays, Frame,
         Phased, TypedMove
  <2>7. i' \in 0 .. Len(story.links) + 1 /\ first' \in BOOLEAN
    BY <1>e, <2>4 DEF TypedLocal
  <2>8. sub' \in Calls /\ ok' \in BOOLEAN
    BY <1>e, <2>4 DEF TypedLocal
  <2>9. TypedRename'
    BY <1>0, <1>e, <1>5, <2>3, <2>2, <2>4 DEF PublishVerify, At, Go, FilesStay, RenameStays,
         Frame, Recorded, TypedRename, TypedLocal
  <2>10. TypedFiles'
    BY <1>e, <2>4 DEF TypedFiles
  <2>11. Journalled'
    BY <1>j, <2>1, <2>4, <2>5, <2>6 DEF Journalled, InMove, InRename, InUndo
  <2>12. Indexed'
    BY <1>0, <1>e, <1>j, <1>5, <2>3, <2>2, <2>1, <2>4, <2>5 DEF PublishVerify, At, Go,
         FilesStay, RenameStays, Frame, Indexed, TypedLocal
  <2>13. Called'
    BY <1>0, <1>e, <1>j, <1>5, <2>3, <2>2, <2>1, <2>4, <2>5 DEF Called, Calls
  <2>l. at' \in Leads
    BY <2>1, <2>5, <1>j DEF Leads, InMove, Journalled
  <2>14. TypeOK' /\ Placed'
    BY <1>e, <2>4, <2>5, <2>6, <2>7, <2>8, <2>9, <2>10, <2>11, <2>12, <2>13
       DEF TypeOK, Placed, TypedFiles, TypedRename, TypedLabels, Journalled, Label, Moves,
            Statuses
  <2>15. QED
    BY <2>14, <2>l
<1>6. CASE AfterPublish
  <2>1. at = "published" /\ sub.step = "none"
    BY <1>6 DEF AfterPublish, At
  <2>3. /\ Receipt("manual-conflict") => Recorded("manual-conflict")
    BY <1>0, <1>e, JournalEffects DEF Outcome, Published, TypedLocal
  <2>4. UNCHANGED <<story, disk, copies, draft, mv, rn, aside, kept, mode, i, first, sub, ok,
                    ret, touched, spent>>
    BY <1>6 DEF AfterPublish, At, Go, FilesStay, RenameStays, MoveStays, Frame
  <2>5. at' \in {"committed", "apply", "m-retire"}
    BY <1>0, <1>6, <2>3 DEF AfterPublish, At, Go, FilesStay, RenameStays, MoveStays, Frame,
         Recorded
  <2>6. mv' \in Moves /\ (mv'.phase = "none" \/ mv'.status \in Statuses)
        /\ (mv.phase # "none" => mv'.phase # "none")
    BY <1>e, <2>4 DEF TypedMove
  <2>7. i' \in 0 .. Len(story.links) + 1 /\ first' \in BOOLEAN
    BY <1>e, <2>4 DEF TypedLocal
  <2>8. sub' \in Calls /\ ok' \in BOOLEAN
    BY <1>e, <2>4 DEF TypedLocal
  <2>9. TypedRename'
    BY <1>0, <1>e, <1>6, <2>3, <2>4 DEF AfterPublish, At, Go, FilesStay, RenameStays, MoveStays,
         Frame, Recorded, TypedRename, TypedLocal
  <2>10. TypedFiles'
    BY <1>e, <2>4 DEF TypedFiles
  <2>11. Journalled'
    BY <1>j, <2>1, <2>4, <2>5, <2>6 DEF Journalled, InMove, InRename, InUndo
  <2>12. Indexed'
    BY <1>0, <1>e, <1>j, <1>6, <2>3, <2>1, <2>4, <2>5 DEF AfterPublish, At, Go, FilesStay,
         RenameStays, MoveStays, Frame, Indexed, TypedLocal
  <2>13. Called'
    BY <1>0, <1>e, <1>j, <1>6, <2>3, <2>1, <2>4, <2>5 DEF Called, Calls
  <2>l. at' \in Leads
    BY <2>1, <2>5, <1>j DEF Leads, InMove, Journalled
  <2>14. TypeOK' /\ Placed'
    BY <1>e, <2>4, <2>5, <2>6, <2>7, <2>8, <2>9, <2>10, <2>11, <2>12, <2>13
       DEF TypeOK, Placed, TypedFiles, TypedRename, TypedLabels, Journalled, Label, Moves,
            Statuses
  <2>15. QED
    BY <2>14, <2>l
<1>7. CASE Apply
  <2>1. at = "apply" /\ sub.step = "none"
    BY <1>7 DEF Apply, At
  <2>2. mv.phase # "none" /\ (mv.phase = "none" \/ mv.status \in Statuses)
    BY <1>e, <1>j, <2>1 DEF TypedMove, Journalled, InMove
  <2>3. /\ Phase("applying") => Phased("applying")
    BY <1>0, <1>e, JournalEffects DEF MovePhase, TypedLocal
  <2>4. UNCHANGED <<story, disk, copies, draft, rn, aside, kept, receipt, mode, sub, ok, ret,
                    touched, spent>>
    BY <1>7 DEF Apply, At, Go, FilesStay, RenameStays, Frame
  <2>5. at' \in {"entry"}
    BY <1>0, <1>7, <2>3, <2>2 DEF Apply, At, Go, FilesStay, RenameStays, Frame
  <2>6. mv' \in Moves /\ (mv'.phase = "none" \/ mv'.status \in Statuses)
        /\ (mv.phase # "none" => mv'.phase # "none")
    BY <1>0, <1>e, <1>7, <2>3, <2>2 DEF Apply, At, Go, FilesStay, RenameStays, Frame, Phased,
         TypedMove
  <2>d. (i' = 1) /\ first' \in BOOLEAN
    BY <1>0, <1>e, <1>7, <2>3, <2>2 DEF Apply, At, Go, FilesStay, RenameStays, Frame, TypedLocal
  <2>7. i' \in 0 .. Len(story.links) + 1 /\ first' \in BOOLEAN
    BY <1>0, <1>e, <2>d DEF TypedLocal
  <2>8. sub' \in Calls /\ ok' \in BOOLEAN
    BY <1>e, <2>4 DEF TypedLocal
  <2>9. TypedRename'
    BY <1>e, <2>4 DEF TypedRename
  <2>10. TypedFiles'
    BY <1>e, <2>4 DEF TypedFiles
  <2>11. Journalled'
    BY <1>j, <2>1, <2>4, <2>5, <2>6 DEF Journalled, InMove, InRename, InUndo
  <2>12. Indexed'
    BY <1>0, <1>e, <1>j, <1>7, <2>3, <2>2, <2>1, <2>4, <2>5 DEF Apply, At, Go, FilesStay,
         RenameStays, Frame, Indexed, TypedLocal
  <2>13. Called'
    BY <1>0, <1>e, <1>j, <1>7, <2>3, <2>2, <2>1, <2>4, <2>5 DEF Called, Calls
  <2>l. at' \in Leads
    BY <2>1, <2>5, <1>j DEF Leads, InMove, Journalled
  <2>14. TypeOK' /\ Placed'
    BY <1>e, <2>4, <2>5, <2>6, <2>7, <2>8, <2>9, <2>10, <2>11, <2>12, <2>13
       DEF TypeOK, Placed, TypedFiles, TypedRename, TypedLabels, Journalled, Label, Moves,
            Statuses
  <2>15. QED
    BY <2>14, <2>l
<1>8. CASE EntrySpoilt
  <2>1. at = "entry" /\ sub.step = "none"
    BY <1>8 DEF EntrySpoilt, At
  <2>2. mv.phase # "none" /\ (mv.phase = "none" \/ mv.status \in Statuses)
    BY <1>e, <1>j, <2>1 DEF TypedMove, Journalled, InMove
  <2>3. /\ BeginRollback => Turned
    BY <1>0, <1>e, JournalEffects DEF TypedLocal
  <2>4. UNCHANGED <<story, disk, copies, draft, rn, aside, kept, receipt, mode, first, sub,
                    ok, ret, touched, spent>>
    BY <1>8 DEF EntrySpoilt, At, FilesStay, RenameStays, Frame
  <2>5. at' \in {"rollback"}
    BY <1>0, <1>8, <2>3, <2>2 DEF EntrySpoilt, At, FilesStay, RenameStays, Frame, Turned
  <2>6. mv' \in Moves /\ (mv'.phase = "none" \/ mv'.status \in Statuses)
        /\ (mv.phase # "none" => mv'.phase # "none")
    BY <1>0, <1>e, <1>8, <2>3, <2>2 DEF EntrySpoilt, At, FilesStay, RenameStays, Frame, Turned,
         TypedMove
  <2>d. (i' = Len(story.links)) /\ first' \in BOOLEAN
    BY <1>0, <1>e, <1>8, <2>3, <2>2 DEF EntrySpoilt, At, FilesStay, RenameStays, Frame, Turned,
         TypedLocal
  <2>7. i' \in 0 .. Len(story.links) + 1 /\ first' \in BOOLEAN
    BY <1>0, <1>e, <2>d DEF TypedLocal
  <2>8. sub' \in Calls /\ ok' \in BOOLEAN
    BY <1>e, <2>4 DEF TypedLocal
  <2>9. TypedRename'
    BY <1>e, <2>4 DEF TypedRename
  <2>10. TypedFiles'
    BY <1>e, <2>4 DEF TypedFiles
  <2>11. Journalled'
    BY <1>j, <2>1, <2>4, <2>5, <2>6 DEF Journalled, InMove, InRename, InUndo
  <2>12. Indexed'
    BY <1>0, <1>e, <1>j, <1>8, <2>3, <2>2, <2>1, <2>4, <2>5 DEF EntrySpoilt, At, FilesStay,
         RenameStays, Frame, Turned, Indexed, TypedLocal
  <2>13. Called'
    BY <1>0, <1>e, <1>j, <1>8, <2>3, <2>2, <2>1, <2>4, <2>5 DEF Called, Calls
  <2>l. at' \in Leads
    BY <2>1, <2>5, <1>j DEF Leads, InMove, Journalled
  <2>14. TypeOK' /\ Placed'
    BY <1>e, <2>4, <2>5, <2>6, <2>7, <2>8, <2>9, <2>10, <2>11, <2>12, <2>13
       DEF TypeOK, Placed, TypedFiles, TypedRename, TypedLabels, Journalled, Label, Moves,
            Statuses
  <2>15. QED
    BY <2>14, <2>l
<1>9. CASE EntryApplied
  <2>1. at = "entry" /\ sub.step = "none"
    BY <1>9 DEF EntryApplied, At
  <2>2. mv.phase # "none" /\ mv.status \in Statuses
    BY <1>e, <1>j, <2>1 DEF TypedMove, Journalled, InMove
  <2>i. i \in 1 .. Len(story.links)
    BY <1>0, <1>e, <1>j, <1>9, <2>1 DEF EntryApplied, Indexed, TypedLocal
  <2>3. i \in 1 .. Len(story.links) =>
            /\ Write(Entry, "new", "new", "diverged") => Writes(Entry, "new", "new")
                  /\ at' = "diverged"
    BY <1>0, CallEffects, <2>2 DEF Label, Entry, TypedLocal
  <2>4. UNCHANGED <<story, disk, copies, draft, mv, rn, aside, kept, receipt, mode, first,
                    ok, ret, touched, spent>>
    BY <1>9 DEF EntryApplied, NextEntry, At, Go, FilesStay, RenameStays, Frame
  <2>5. at' \in {"entry", "diverged"}
    BY <1>0, <1>9, <2>3, <2>2, <2>i DEF EntryApplied, NextEntry, At, Go, FilesStay, RenameStays,
         Frame
  <2>6. mv' \in Moves /\ (mv'.phase = "none" \/ mv'.status \in Statuses)
        /\ (mv.phase # "none" => mv'.phase # "none")
    BY <1>e, <2>4 DEF TypedMove
  <2>d. (i' = i \/ (i <= Len(story.links) /\ i' = i + 1)) /\ first' \in BOOLEAN
    BY <1>0, <1>e, <1>9, <2>3, <2>2, <2>i DEF EntryApplied, NextEntry, At, Go, FilesStay,
         RenameStays, Frame, TypedLocal
  <2>7. i' \in 0 .. Len(story.links) + 1 /\ first' \in BOOLEAN
    BY <1>0, <1>e, <2>d DEF TypedLocal
  <2>8. sub' \in Calls /\ ok' \in BOOLEAN
    BY <1>0, <1>e, <1>9, <2>3, <2>2, <2>i DEF EntryApplied, NextEntry, At, Go, FilesStay,
         RenameStays, Frame, Writes, TypedLocal
  <2>9. TypedRename'
    BY <1>e, <2>4 DEF TypedRename
  <2>10. TypedFiles'
    BY <1>e, <2>4 DEF TypedFiles
  <2>11. Journalled'
    BY <1>j, <2>1, <2>4, <2>5, <2>6 DEF Journalled, InMove, InRename, InUndo
  <2>12. Indexed'
    BY <1>0, <1>e, <1>j, <1>9, <2>3, <2>2, <2>i, <2>1, <2>4, <2>5 DEF EntryApplied, NextEntry,
         At, Go, FilesStay, RenameStays, Frame, Indexed, TypedLocal
  <2>13. Called'
    BY <1>0, <1>e, <1>j, <1>9, <2>3, <2>2, <2>i, <2>1, <2>4, <2>5 DEF EntryApplied, NextEntry,
         At, Go, FilesStay, RenameStays, Frame, Writes, UndoFor, Called, Calls
  <2>l. at' \in Leads
    BY <2>1, <2>5, <1>j DEF Leads, InMove, Journalled
  <2>14. TypeOK' /\ Placed'
    BY <1>e, <2>4, <2>5, <2>6, <2>7, <2>8, <2>9, <2>10, <2>11, <2>12, <2>13
       DEF TypeOK, Placed, TypedFiles, TypedRename, TypedLabels, Journalled, Label, Moves,
            Statuses
  <2>15. QED
    BY <2>14, <2>l
<1>10. CASE EntryPending
  <2>1. at = "entry" /\ sub.step = "none"
    BY <1>10 DEF EntryPending, At
  <2>2. mv.phase # "none" /\ mv.status \in Statuses
    BY <1>e, <1>j, <2>1 DEF TypedMove, Journalled, InMove
  <2>i. i \in 1 .. Len(story.links)
    BY <1>0, <1>e, <1>j, <1>10, <2>1 DEF EntryPending, Indexed, TypedLocal
  <2>3. i \in 1 .. Len(story.links) =>
            /\ BeginRollback => Turned
            /\ Mark("applied") => Marked("applied", mv.manual)
            /\ Write(Entry, "old", "new", "entry-wrote") => Writes(Entry, "old", "new")
                  /\ at' = "entry-wrote"
    BY <1>0, JournalEffects, CallEffects, <2>2 DEF Status, Label, Entry, TypedLocal
  <2>4. UNCHANGED <<story, disk, copies, draft, rn, aside, kept, receipt, mode, ok, ret,
                    touched, spent>>
    BY <1>10 DEF EntryPending, NextEntry, At, Go, FilesStay, RenameStays, Frame
  <2>5. at' \in {"entry", "entry-wrote", "rollback"}
    BY <1>0, <1>10, <2>3, <2>2, <2>i DEF EntryPending, NextEntry, At, Go, FilesStay,
         RenameStays, Frame, Turned
  <2>6. mv' \in Moves /\ (mv'.phase = "none" \/ mv'.status \in Statuses)
        /\ (mv.phase # "none" => mv'.phase # "none")
    BY <1>0, <1>e, <1>10, <2>3, <2>2, <2>i DEF EntryPending, NextEntry, At, Go, FilesStay,
         RenameStays, Frame, Turned, Marked, TypedMove
  <2>d. (i' = i \/ i' = Len(story.links) \/ (i <= Len(story.links) /\ i' = i + 1))
        /\ first' \in BOOLEAN
    BY <1>0, <1>e, <1>10, <2>3, <2>2, <2>i DEF EntryPending, NextEntry, At, Go, FilesStay,
         RenameStays, Frame, Turned, TypedLocal
  <2>7. i' \in 0 .. Len(story.links) + 1 /\ first' \in BOOLEAN
    BY <1>0, <1>e, <2>d DEF TypedLocal
  <2>8. sub' \in Calls /\ ok' \in BOOLEAN
    BY <1>0, <1>e, <1>10, <2>3, <2>2, <2>i DEF EntryPending, NextEntry, At, Go, FilesStay,
         RenameStays, Frame, Writes, TypedLocal
  <2>9. TypedRename'
    BY <1>e, <2>4 DEF TypedRename
  <2>10. TypedFiles'
    BY <1>e, <2>4 DEF TypedFiles
  <2>11. Journalled'
    BY <1>j, <2>1, <2>4, <2>5, <2>6 DEF Journalled, InMove, InRename, InUndo
  <2>r. \/ at' = "entry" /\ i' = i + 1
        \/ at' = "rollback" /\ i' = Len(story.links)
        \/ at' = "entry-wrote" /\ i' = i
    <3>1. \/ at' = "entry" /\ i' = i + 1
          \/ BeginRollback
          \/ Write(Entry, "old", "new", "entry-wrote") /\ i' = i
      BY <1>10 DEF EntryPending, NextEntry, Go
    <3>2. QED
      BY <3>1, <2>3, <2>i DEF Turned
  <2>12. Indexed'
    BY <1>0, <2>4, <2>i, <2>r DEF Indexed
  <2>c. \/ sub' = sub
        \/ sub'.step = "write" /\ sub'.base = "old" /\ sub'.next = "new"
             /\ sub'.from = <<"rn", "blob">>
    BY <2>3, <1>10, <2>i DEF EntryPending, Writes
  <2>13. Called'
    BY <1>j, <2>1, <2>c DEF Called
  <2>l. at' \in Leads
    BY <2>1, <2>5, <1>j DEF Leads, InMove, Journalled
  <2>14. TypeOK' /\ Placed'
    BY <1>e, <2>4, <2>5, <2>6, <2>7, <2>8, <2>9, <2>10, <2>11, <2>12, <2>13
       DEF TypeOK, Placed, TypedFiles, TypedRename, TypedLabels, Journalled, Label, Moves,
            Statuses
  <2>15. QED
    BY <2>14, <2>l
<1>11. CASE EntryWrote
  <2>1. at = "entry-wrote" /\ sub.step = "none"
    BY <1>11 DEF EntryWrote, At
  <2>2. mv.phase # "none" /\ mv.status \in Statuses
    BY <1>e, <1>j, <2>1 DEF TypedMove, Journalled, InMove
  <2>i. i \in 1 .. Len(story.links)
    BY <1>0, <1>e, <1>j, <1>11, <2>1 DEF EntryWrote, Indexed, TypedLocal
  <2>3. i \in 1 .. Len(story.links) =>
            /\ Mark("applied") => Marked("applied", mv.manual)
            /\ Mark("conflict") => Marked("conflict", mv.manual)
    BY <1>0, JournalEffects, <2>2 DEF Status, Entry, TypedLocal
  <2>4. UNCHANGED <<story, disk, copies, draft, rn, aside, kept, receipt, mode, first, sub,
                    ok, ret, touched, spent>>
    BY <1>11 DEF EntryWrote, NextEntry, At, Go, FilesStay, RenameStays, Frame
  <2>5. at' \in {"spoilt", "entry"}
    BY <1>0, <1>11, <2>3, <2>2, <2>i DEF EntryWrote, NextEntry, At, Go, FilesStay, RenameStays,
         Frame
  <2>6. mv' \in Moves /\ (mv'.phase = "none" \/ mv'.status \in Statuses)
        /\ (mv.phase # "none" => mv'.phase # "none")
    BY <1>0, <1>e, <1>11, <2>3, <2>2, <2>i DEF EntryWrote, NextEntry, At, Go, FilesStay,
         RenameStays, Frame, Marked, TypedMove
  <2>d. (i' = i \/ (i <= Len(story.links) /\ i' = i + 1)) /\ first' \in BOOLEAN
    BY <1>0, <1>e, <1>11, <2>3, <2>2, <2>i DEF EntryWrote, NextEntry, At, Go, FilesStay,
         RenameStays, Frame, TypedLocal
  <2>7. i' \in 0 .. Len(story.links) + 1 /\ first' \in BOOLEAN
    BY <1>0, <1>e, <2>d DEF TypedLocal
  <2>8. sub' \in Calls /\ ok' \in BOOLEAN
    BY <1>e, <2>4 DEF TypedLocal
  <2>9. TypedRename'
    BY <1>e, <2>4 DEF TypedRename
  <2>10. TypedFiles'
    BY <1>e, <2>4 DEF TypedFiles
  <2>11. Journalled'
    BY <1>j, <2>1, <2>4, <2>5, <2>6 DEF Journalled, InMove, InRename, InUndo
  <2>12. Indexed'
    BY <1>0, <1>e, <1>j, <1>11, <2>3, <2>2, <2>i, <2>1, <2>4, <2>5 DEF EntryWrote, NextEntry,
         At, Go, FilesStay, RenameStays, Frame, Indexed, TypedLocal
  <2>13. Called'
    BY <1>0, <1>e, <1>j, <1>11, <2>3, <2>2, <2>i, <2>1, <2>4, <2>5 DEF Called, Calls
  <2>l. at' \in Leads
    BY <2>1, <2>5, <1>j DEF Leads, InMove, Journalled
  <2>14. TypeOK' /\ Placed'
    BY <1>e, <2>4, <2>5, <2>6, <2>7, <2>8, <2>9, <2>10, <2>11, <2>12, <2>13
       DEF TypeOK, Placed, TypedFiles, TypedRename, TypedLabels, Journalled, Label, Moves,
            Statuses
  <2>15. QED
    BY <2>14, <2>l
<1>12. CASE Diverged
  <2>1. at = "diverged" /\ sub.step = "none"
    BY <1>12 DEF Diverged, At
  <2>2. mv.phase # "none" /\ mv.status \in Statuses
    BY <1>e, <1>j, <2>1 DEF TypedMove, Journalled, InMove
  <2>i. i \in 1 .. Len(story.links)
    BY <1>0, <1>e, <1>j, <1>12, <2>1 DEF Diverged, Indexed, TypedLocal
  <2>3. i \in 1 .. Len(story.links) =>
            /\ Mark(IF ok THEN "applied" ELSE "conflict")
                  => Marked(IF ok THEN "applied" ELSE "conflict", mv.manual)
    BY <1>0, JournalEffects, <2>2 DEF Status, Entry, TypedLocal
  <2>4. UNCHANGED <<story, disk, copies, draft, rn, aside, kept, receipt, mode, i, first,
                    sub, ok, ret, touched, spent>>
    BY <1>12 DEF Diverged, At, Go, FilesStay, RenameStays, Frame
  <2>5. at' \in {"spoilt"}
    BY <1>0, <1>12, <2>3, <2>2, <2>i DEF Diverged, At, Go, FilesStay, RenameStays, Frame
  <2>6. mv' \in Moves /\ (mv'.phase = "none" \/ mv'.status \in Statuses)
        /\ (mv.phase # "none" => mv'.phase # "none")
    BY <1>0, <1>e, <1>12, <2>3, <2>2, <2>i DEF Diverged, At, Go, FilesStay, RenameStays, Frame,
         Marked, TypedMove
  <2>7. i' \in 0 .. Len(story.links) + 1 /\ first' \in BOOLEAN
    BY <1>e, <2>4 DEF TypedLocal
  <2>8. sub' \in Calls /\ ok' \in BOOLEAN
    BY <1>e, <2>4 DEF TypedLocal
  <2>9. TypedRename'
    BY <1>e, <2>4 DEF TypedRename
  <2>10. TypedFiles'
    BY <1>e, <2>4 DEF TypedFiles
  <2>11. Journalled'
    BY <1>j, <2>1, <2>4, <2>5, <2>6 DEF Journalled, InMove, InRename, InUndo
  <2>12. Indexed'
    BY <1>0, <1>e, <1>j, <1>12, <2>3, <2>2, <2>i, <2>1, <2>4, <2>5 DEF Diverged, At, Go,
         FilesStay, RenameStays, Frame, Indexed, TypedLocal
  <2>13. Called'
    BY <1>0, <1>e, <1>j, <1>12, <2>3, <2>2, <2>i, <2>1, <2>4, <2>5 DEF Called, Calls
  <2>l. at' \in Leads
    BY <2>1, <2>5, <1>j DEF Leads, InMove, Journalled
  <2>14. TypeOK' /\ Placed'
    BY <1>e, <2>4, <2>5, <2>6, <2>7, <2>8, <2>9, <2>10, <2>11, <2>12, <2>13
       DEF TypeOK, Placed, TypedFiles, TypedRename, TypedLabels, Journalled, Label, Moves,
            Statuses
  <2>15. QED
    BY <2>14, <2>l
<1>13. CASE Spoilt
  <2>1. at = "spoilt" /\ sub.step = "none"
    BY <1>13 DEF Spoilt, At
  <2>2. mv.phase # "none" /\ (mv.phase = "none" \/ mv.status \in Statuses)
    BY <1>e, <1>j, <2>1 DEF TypedMove, Journalled, InMove
  <2>3. /\ BeginRollback => Turned
    BY <1>0, <1>e, JournalEffects DEF TypedLocal
  <2>4. UNCHANGED <<story, disk, copies, draft, rn, aside, kept, receipt, mode, first, sub,
                    ok, ret, touched, spent>>
    BY <1>13 DEF Spoilt, At, FilesStay, RenameStays, Frame
  <2>5. at' \in {"rollback"}
    BY <1>0, <1>13, <2>3, <2>2 DEF Spoilt, At, FilesStay, RenameStays, Frame, Turned
  <2>6. mv' \in Moves /\ (mv'.phase = "none" \/ mv'.status \in Statuses)
        /\ (mv.phase # "none" => mv'.phase # "none")
    BY <1>0, <1>e, <1>13, <2>3, <2>2 DEF Spoilt, At, FilesStay, RenameStays, Frame, Turned,
         TypedMove
  <2>d. (i' = Len(story.links)) /\ first' \in BOOLEAN
    BY <1>0, <1>e, <1>13, <2>3, <2>2 DEF Spoilt, At, FilesStay, RenameStays, Frame, Turned,
         TypedLocal
  <2>7. i' \in 0 .. Len(story.links) + 1 /\ first' \in BOOLEAN
    BY <1>0, <1>e, <2>d DEF TypedLocal
  <2>8. sub' \in Calls /\ ok' \in BOOLEAN
    BY <1>e, <2>4 DEF TypedLocal
  <2>9. TypedRename'
    BY <1>e, <2>4 DEF TypedRename
  <2>10. TypedFiles'
    BY <1>e, <2>4 DEF TypedFiles
  <2>11. Journalled'
    BY <1>j, <2>1, <2>4, <2>5, <2>6 DEF Journalled, InMove, InRename, InUndo
  <2>12. Indexed'
    BY <1>0, <1>e, <1>j, <1>13, <2>3, <2>2, <2>1, <2>4, <2>5 DEF Spoilt, At, FilesStay,
         RenameStays, Frame, Turned, Indexed, TypedLocal
  <2>13. Called'
    BY <1>0, <1>e, <1>j, <1>13, <2>3, <2>2, <2>1, <2>4, <2>5 DEF Called, Calls
  <2>l. at' \in Leads
    BY <2>1, <2>5, <1>j DEF Leads, InMove, Journalled
  <2>14. TypeOK' /\ Placed'
    BY <1>e, <2>4, <2>5, <2>6, <2>7, <2>8, <2>9, <2>10, <2>11, <2>12, <2>13
       DEF TypeOK, Placed, TypedFiles, TypedRename, TypedLabels, Journalled, Label, Moves,
            Statuses
  <2>15. QED
    BY <2>14, <2>l
<1>14. CASE EntriesDone
  <2>1. at = "entry" /\ sub.step = "none"
    BY <1>14 DEF EntriesDone, At
  <2>4. UNCHANGED <<story, disk, copies, draft, mv, rn, aside, kept, receipt, mode, first,
                    sub, ok, ret, touched, spent>>
    BY <1>14 DEF EntriesDone, At, Go, FilesStay, RenameStays, Frame
  <2>5. at' \in {"verify"}
    BY <1>0, <1>14 DEF EntriesDone, At, Go, FilesStay, RenameStays, Frame
  <2>6. mv' \in Moves /\ (mv'.phase = "none" \/ mv'.status \in Statuses)
        /\ (mv.phase # "none" => mv'.phase # "none")
    BY <1>e, <2>4 DEF TypedMove
  <2>d. (i' = 1) /\ first' \in BOOLEAN
    BY <1>0, <1>e, <1>14 DEF EntriesDone, At, Go, FilesStay, RenameStays, Frame, TypedLocal
  <2>7. i' \in 0 .. Len(story.links) + 1 /\ first' \in BOOLEAN
    BY <1>0, <1>e, <2>d DEF TypedLocal
  <2>8. sub' \in Calls /\ ok' \in BOOLEAN
    BY <1>e, <2>4 DEF TypedLocal
  <2>9. TypedRename'
    BY <1>e, <2>4 DEF TypedRename
  <2>10. TypedFiles'
    BY <1>e, <2>4 DEF TypedFiles
  <2>11. Journalled'
    BY <1>j, <2>1, <2>4, <2>5, <2>6 DEF Journalled, InMove, InRename, InUndo
  <2>12. Indexed'
    BY <1>0, <1>e, <1>j, <1>14, <2>1, <2>4, <2>5 DEF EntriesDone, At, Go, FilesStay,
         RenameStays, Frame, Indexed, TypedLocal
  <2>13. Called'
    BY <1>0, <1>e, <1>j, <1>14, <2>1, <2>4, <2>5 DEF Called, Calls
  <2>l. at' \in Leads
    BY <2>1, <2>5, <1>j DEF Leads, InMove, Journalled
  <2>14. TypeOK' /\ Placed'
    BY <1>e, <2>4, <2>5, <2>6, <2>7, <2>8, <2>9, <2>10, <2>11, <2>12, <2>13
       DEF TypeOK, Placed, TypedFiles, TypedRename, TypedLabels, Journalled, Label, Moves,
            Statuses
  <2>15. QED
    BY <2>14, <2>l
<1>15. CASE Verify
  <2>1. at = "verify" /\ sub.step = "none"
    BY <1>15 DEF Verify, At
  <2>2. mv.phase # "none" /\ mv.status \in Statuses
    BY <1>e, <1>j, <2>1 DEF TypedMove, Journalled, InMove
  <2>i. i \in Nat /\ i >= 1
    BY <1>0, <1>e, <1>j, <1>15, <2>1 DEF Verify, Indexed, TypedLocal
  <2>3. i \in 1 .. Len(story.links) =>
            /\ Write(Entry, "new", "new", "diverged") => Writes(Entry, "new", "new")
                  /\ at' = "diverged"
    BY <1>0, CallEffects, <2>2 DEF Label, Entry, TypedLocal
  <2>4. UNCHANGED <<story, disk, copies, draft, mv, rn, aside, kept, receipt, mode, first,
                    ok, ret, touched, spent>>
    BY <1>15 DEF Verify, At, Go, FilesStay, RenameStays, Frame
  <2>5. at' \in {"corpus", "diverged", at}
    BY <1>0, <1>15, <2>3, <2>2, <2>i DEF Verify, At, Go, FilesStay, RenameStays, Frame
  <2>6. mv' \in Moves /\ (mv'.phase = "none" \/ mv'.status \in Statuses)
        /\ (mv.phase # "none" => mv'.phase # "none")
    BY <1>e, <2>4 DEF TypedMove
  <2>d. (i' = i \/ (i <= Len(story.links) /\ i' = i + 1)) /\ first' \in BOOLEAN
    BY <1>0, <1>e, <1>15, <2>3, <2>2, <2>i DEF Verify, At, Go, FilesStay, RenameStays, Frame,
         TypedLocal
  <2>7. i' \in 0 .. Len(story.links) + 1 /\ first' \in BOOLEAN
    BY <1>0, <1>e, <2>d DEF TypedLocal
  <2>8. sub' \in Calls /\ ok' \in BOOLEAN
    BY <1>0, <1>e, <1>15, <2>3, <2>2, <2>i DEF Verify, At, Go, FilesStay, RenameStays, Frame,
         Writes, TypedLocal
  <2>9. TypedRename'
    BY <1>e, <2>4 DEF TypedRename
  <2>10. TypedFiles'
    BY <1>e, <2>4 DEF TypedFiles
  <2>11. Journalled'
    BY <1>j, <2>1, <2>4, <2>5, <2>6 DEF Journalled, InMove, InRename, InUndo
  <2>12. Indexed'
    BY <1>0, <1>e, <1>j, <1>15, <2>3, <2>2, <2>i, <2>1, <2>4, <2>5 DEF Verify, At, Go,
         FilesStay, RenameStays, Frame, Indexed, TypedLocal
  <2>13. Called'
    BY <1>0, <1>e, <1>j, <1>15, <2>3, <2>2, <2>i, <2>1, <2>4, <2>5 DEF Verify, At, Go,
         FilesStay, RenameStays, Frame, Writes, UndoFor, Called, Calls
  <2>l. at' \in Leads
    BY <2>1, <2>5 DEF Leads, InMove
  <2>14. TypeOK' /\ Placed'
    BY <1>e, <2>4, <2>5, <2>6, <2>7, <2>8, <2>9, <2>10, <2>11, <2>12, <2>13
       DEF TypeOK, Placed, TypedFiles, TypedRename, TypedLabels, Journalled, Label, Moves,
            Statuses
  <2>15. QED
    BY <2>14, <2>l
<1>16. CASE CheckCorpus
  <2>1. at = "corpus" /\ sub.step = "none"
    BY <1>16 DEF CheckCorpus, At
  <2>2. mv.phase # "none" /\ (mv.phase = "none" \/ mv.status \in Statuses)
    BY <1>e, <1>j, <2>1 DEF TypedMove, Journalled, InMove
  <2>3. /\ Phase("renaming") => Phased("renaming")
        /\ BeginRollback => Turned
    BY <1>0, <1>e, JournalEffects DEF MovePhase, TypedLocal
  <2>4. UNCHANGED <<story, disk, copies, draft, rn, aside, kept, receipt, mode, first, sub,
                    ok, touched, spent>>
    BY <1>16 DEF CheckCorpus, At, Go, FilesStay, RenameStays, Frame
  <2>5. at' \in {"final", "r-check", "rollback"}
    BY <1>0, <1>16, <2>3, <2>2 DEF CheckCorpus, At, Go, FilesStay, RenameStays, Frame, Turned
  <2>6. mv' \in Moves /\ (mv'.phase = "none" \/ mv'.status \in Statuses)
        /\ (mv.phase # "none" => mv'.phase # "none")
    BY <1>0, <1>e, <1>16, <2>3, <2>2 DEF CheckCorpus, At, Go, FilesStay, RenameStays, Frame,
         Phased, Turned, TypedMove
  <2>d. (i' = i \/ i' = Len(story.links)) /\ first' \in BOOLEAN
    BY <1>0, <1>e, <1>16, <2>3, <2>2 DEF CheckCorpus, At, Go, FilesStay, RenameStays, Frame,
         Turned, TypedLocal
  <2>7. i' \in 0 .. Len(story.links) + 1 /\ first' \in BOOLEAN
    BY <1>0, <1>e, <2>d DEF TypedLocal
  <2>8. sub' \in Calls /\ ok' \in BOOLEAN
    BY <1>e, <2>4 DEF TypedLocal
  <2>9. TypedRename'
    BY <1>e, <2>4 DEF TypedRename
  <2>10. TypedFiles'
    BY <1>e, <2>4 DEF TypedFiles
  <2>11. Journalled'
    BY <1>j, <2>1, <2>2, <2>4, <2>5, <2>6, <1>16 DEF CheckCorpus, Journalled, InMove,
         InRename, InUndo
  <2>r. at' = "rollback" => i' <= Len(story.links)
    BY <1>0, <1>16, <2>3 DEF CheckCorpus, Go, Turned, Phased
  <2>12. Indexed'
    BY <1>0, <1>e, <1>j, <2>4, <2>5, <2>d, <2>r DEF Indexed, TypedLocal
  <2>13. Called'
    BY <1>0, <1>e, <1>j, <1>16, <2>3, <2>2, <2>1, <2>4, <2>5 DEF Called, Calls
  <2>l. at' \in Leads
    BY <2>1, <2>5, <1>j DEF Leads, InMove, Journalled
  <2>14. TypeOK' /\ Placed'
    BY <1>e, <2>4, <2>5, <2>6, <2>7, <2>8, <2>9, <2>10, <2>11, <2>12, <2>13
       DEF TypeOK, Placed, TypedFiles, TypedRename, TypedLabels, Journalled, Label, Moves,
            Statuses
  <2>15. QED
    BY <2>14, <2>l
<1>17. CASE FinalCheck
  <2>1. at = "final" /\ sub.step = "none"
    BY <1>17 DEF FinalCheck, At
  <2>2. mv.phase # "none" /\ (mv.phase = "none" \/ mv.status \in Statuses)
    BY <1>e, <1>j, <2>1 DEF TypedMove, Journalled, InMove
  <2>3. /\ Phase("committed") => Phased("committed")
        /\ BeginRollback => Turned
    BY <1>0, <1>e, JournalEffects DEF MovePhase, TypedLocal
  <2>4. UNCHANGED <<story, disk, copies, draft, rn, aside, kept, receipt, mode, first, sub,
                    ok, ret, touched, spent>>
    BY <1>17 DEF FinalCheck, Commit, At, Go, FilesStay, RenameStays, Frame
  <2>5. at' \in {"committed", "rollback"}
    BY <1>0, <1>17, <2>3, <2>2 DEF FinalCheck, Commit, At, Go, FilesStay, RenameStays, Frame,
         Turned
  <2>6. mv' \in Moves /\ (mv'.phase = "none" \/ mv'.status \in Statuses)
        /\ (mv.phase # "none" => mv'.phase # "none")
    BY <1>0, <1>e, <1>17, <2>3, <2>2 DEF FinalCheck, Commit, At, Go, FilesStay, RenameStays,
         Frame, Phased, Turned, TypedMove
  <2>d. (i' = i \/ i' = Len(story.links)) /\ first' \in BOOLEAN
    BY <1>0, <1>e, <1>17, <2>3, <2>2 DEF FinalCheck, Commit, At, Go, FilesStay, RenameStays,
         Frame, Turned, TypedLocal
  <2>7. i' \in 0 .. Len(story.links) + 1 /\ first' \in BOOLEAN
    BY <1>0, <1>e, <2>d DEF TypedLocal
  <2>8. sub' \in Calls /\ ok' \in BOOLEAN
    BY <1>e, <2>4 DEF TypedLocal
  <2>9. TypedRename'
    BY <1>e, <2>4 DEF TypedRename
  <2>10. TypedFiles'
    BY <1>e, <2>4 DEF TypedFiles
  <2>11. Journalled'
    BY <1>j, <2>1, <2>4, <2>5, <2>6 DEF Journalled, InMove, InRename, InUndo
  <2>12. Indexed'
    BY <1>0, <1>e, <1>j, <1>17, <2>3, <2>2, <2>1, <2>4, <2>5 DEF FinalCheck, Commit, At, Go,
         FilesStay, RenameStays, Frame, Turned, Indexed, TypedLocal
  <2>13. Called'
    BY <1>0, <1>e, <1>j, <1>17, <2>3, <2>2, <2>1, <2>4, <2>5 DEF Called, Calls
  <2>l. at' \in Leads
    BY <2>1, <2>5, <1>j DEF Leads, InMove, Journalled
  <2>14. TypeOK' /\ Placed'
    BY <1>e, <2>4, <2>5, <2>6, <2>7, <2>8, <2>9, <2>10, <2>11, <2>12, <2>13
       DEF TypeOK, Placed, TypedFiles, TypedRename, TypedLabels, Journalled, Label, Moves,
            Statuses
  <2>15. QED
    BY <2>14, <2>l
<1>18. CASE Renamed
  <2>1. at = "renamed" /\ sub.step = "none"
    BY <1>18 DEF Renamed, At
  <2>2. mv.phase # "none" /\ (mv.phase = "none" \/ mv.status \in Statuses)
    BY <1>e, <1>j, <2>1 DEF TypedMove, Journalled, InMove
  <2>3. /\ Phase("committed") => Phased("committed")
        /\ BeginRollback => Turned
    BY <1>0, <1>e, JournalEffects DEF MovePhase, TypedLocal
  <2>4. UNCHANGED <<story, disk, copies, draft, rn, aside, kept, receipt, mode, first, sub,
                    ok, ret, touched, spent>>
    BY <1>18 DEF Renamed, Commit, At, Go, FilesStay, RenameStays, Frame
  <2>5. at' \in {"committed", "rollback"}
    BY <1>0, <1>18, <2>3, <2>2 DEF Renamed, Commit, At, Go, FilesStay, RenameStays, Frame,
         Turned
  <2>6. mv' \in Moves /\ (mv'.phase = "none" \/ mv'.status \in Statuses)
        /\ (mv.phase # "none" => mv'.phase # "none")
    BY <1>0, <1>e, <1>18, <2>3, <2>2 DEF Renamed, Commit, At, Go, FilesStay, RenameStays, Frame,
         Phased, Turned, TypedMove
  <2>d. (i' = i \/ i' = Len(story.links)) /\ first' \in BOOLEAN
    BY <1>0, <1>e, <1>18, <2>3, <2>2 DEF Renamed, Commit, At, Go, FilesStay, RenameStays, Frame,
         Turned, TypedLocal
  <2>7. i' \in 0 .. Len(story.links) + 1 /\ first' \in BOOLEAN
    BY <1>0, <1>e, <2>d DEF TypedLocal
  <2>8. sub' \in Calls /\ ok' \in BOOLEAN
    BY <1>e, <2>4 DEF TypedLocal
  <2>9. TypedRename'
    BY <1>e, <2>4 DEF TypedRename
  <2>10. TypedFiles'
    BY <1>e, <2>4 DEF TypedFiles
  <2>11. Journalled'
    BY <1>j, <2>1, <2>4, <2>5, <2>6 DEF Journalled, InMove, InRename, InUndo
  <2>12. Indexed'
    BY <1>0, <1>e, <1>j, <1>18, <2>3, <2>2, <2>1, <2>4, <2>5 DEF Renamed, Commit, At, Go,
         FilesStay, RenameStays, Frame, Turned, Indexed, TypedLocal
  <2>13. Called'
    BY <1>0, <1>e, <1>j, <1>18, <2>3, <2>2, <2>1, <2>4, <2>5 DEF Called, Calls
  <2>l. at' \in Leads
    BY <2>1, <2>5, <1>j DEF Leads, InMove, Journalled
  <2>14. TypeOK' /\ Placed'
    BY <1>e, <2>4, <2>5, <2>6, <2>7, <2>8, <2>9, <2>10, <2>11, <2>12, <2>13
       DEF TypeOK, Placed, TypedFiles, TypedRename, TypedLabels, Journalled, Label, Moves,
            Statuses
  <2>15. QED
    BY <2>14, <2>l
<1>19. CASE Committed
  <2>1. at = "committed" /\ sub.step = "none"
    BY <1>19 DEF Committed, At
  <2>3. /\ Receipt(IF story.strict THEN Published ELSE "committed")
        => Recorded(IF story.strict THEN Published ELSE "committed")
    BY <1>0, <1>e, JournalEffects DEF Outcome, Published, TypedLocal
  <2>4. UNCHANGED <<story, disk, copies, draft, mv, rn, aside, kept, mode, i, first, sub, ok,
                    ret, touched, spent>>
    BY <1>19 DEF Committed, At, FilesStay, RenameStays, MoveStays, Frame
  <2>5. at' \in {"m-retire"}
    BY <1>0, <1>19, <2>3 DEF Committed, At, FilesStay, RenameStays, MoveStays, Frame, Recorded
  <2>6. mv' \in Moves /\ (mv'.phase = "none" \/ mv'.status \in Statuses)
        /\ (mv.phase # "none" => mv'.phase # "none")
    BY <1>e, <2>4 DEF TypedMove
  <2>7. i' \in 0 .. Len(story.links) + 1 /\ first' \in BOOLEAN
    BY <1>e, <2>4 DEF TypedLocal
  <2>8. sub' \in Calls /\ ok' \in BOOLEAN
    BY <1>e, <2>4 DEF TypedLocal
  <2>9. TypedRename'
    BY <1>0, <1>e, <1>19, <2>3, <2>4 DEF Committed, At, FilesStay, RenameStays, MoveStays,
         Frame, Recorded, TypedRename, TypedLocal
  <2>10. TypedFiles'
    BY <1>e, <2>4 DEF TypedFiles
  <2>11. Journalled'
    BY <1>j, <2>1, <2>4, <2>5, <2>6 DEF Journalled, InMove, InRename, InUndo
  <2>12. Indexed'
    BY <1>0, <1>e, <1>j, <1>19, <2>3, <2>1, <2>4, <2>5 DEF Committed, At, FilesStay,
         RenameStays, MoveStays, Frame, Indexed, TypedLocal
  <2>13. Called'
    BY <1>0, <1>e, <1>j, <1>19, <2>3, <2>1, <2>4, <2>5 DEF Called, Calls
  <2>l. at' \in Leads
    BY <2>1, <2>5, <1>j DEF Leads, InMove, Journalled
  <2>14. TypeOK' /\ Placed'
    BY <1>e, <2>4, <2>5, <2>6, <2>7, <2>8, <2>9, <2>10, <2>11, <2>12, <2>13
       DEF TypeOK, Placed, TypedFiles, TypedRename, TypedLabels, Journalled, Label, Moves,
            Statuses
  <2>15. QED
    BY <2>14, <2>l
<1>20. CASE Resume
  <2>1. at = "resume" /\ sub.step = "none"
    BY <1>20 DEF Resume, At
  <2>2. mv.phase # "none" /\ (mv.phase = "none" \/ mv.status \in Statuses)
    BY <1>e, <1>j, <2>1 DEF TypedMove, Journalled, InMove
  <2>3. /\ Phase("committed") => Phased("committed")
        /\ BeginRollback => Turned
        /\ Receipt("manual-conflict") => Recorded("manual-conflict")
    BY <1>0, <1>e, JournalEffects DEF MovePhase, Outcome, Published, TypedLocal
  <2>4. UNCHANGED <<story, disk, copies, draft, rn, aside, kept, mode, first, sub, ok, ret,
                    touched, spent>>
    BY <1>20 DEF Resume, Commit, At, Go, FilesStay, RenameStays, Frame
  <2>5. at' \in {"undo", "apply", "committed", "rollback", "m-retire"}
    BY <1>0, <1>20, <2>3, <2>2 DEF Resume, Commit, At, Go, FilesStay, RenameStays, Frame,
         Turned, Recorded
  <2>6. mv' \in Moves /\ (mv'.phase = "none" \/ mv'.status \in Statuses)
        /\ (mv.phase # "none" => mv'.phase # "none")
    BY <1>0, <1>e, <1>20, <2>3, <2>2 DEF Resume, Commit, At, Go, FilesStay, RenameStays, Frame,
         Phased, Turned, TypedMove
  <2>d. (i' = i \/ i' = Len(story.links)) /\ first' \in BOOLEAN
    BY <1>0, <1>e, <1>20, <2>3, <2>2 DEF Resume, Commit, At, Go, FilesStay, RenameStays, Frame,
         Turned, TypedLocal
  <2>7. i' \in 0 .. Len(story.links) + 1 /\ first' \in BOOLEAN
    BY <1>0, <1>e, <2>d DEF TypedLocal
  <2>8. sub' \in Calls /\ ok' \in BOOLEAN
    BY <1>e, <2>4 DEF TypedLocal
  <2>9. TypedRename'
    BY <1>0, <1>e, <1>20, <2>3, <2>2, <2>4 DEF Resume, Commit, At, Go, FilesStay, RenameStays,
         Frame, Recorded, TypedRename, TypedLocal
  <2>10. TypedFiles'
    BY <1>e, <2>4 DEF TypedFiles
  <2>11. Journalled'
    BY <1>j, <2>1, <2>4, <2>5, <2>6 DEF Journalled, InMove, InRename, InUndo
  <2>r. at' = "rollback" => i' <= Len(story.links)
    BY <1>0, <1>20, <2>3 DEF Resume, Go, Turned, Commit, Recorded
  <2>12. Indexed'
    BY <1>0, <1>e, <1>j, <2>4, <2>5, <2>d, <2>r DEF Indexed, TypedLocal
  <2>13. Called'
    BY <1>0, <1>e, <1>j, <1>20, <2>3, <2>2, <2>1, <2>4, <2>5 DEF Called, Calls
  <2>l. at' \in Leads
    BY <2>1, <2>5, <1>j DEF Leads, InMove, Journalled
  <2>14. TypeOK' /\ Placed'
    BY <1>e, <2>4, <2>5, <2>6, <2>7, <2>8, <2>9, <2>10, <2>11, <2>12, <2>13
       DEF TypeOK, Placed, TypedFiles, TypedRename, TypedLabels, Journalled, Label, Moves,
            Statuses
  <2>15. QED
    BY <2>14, <2>l
<1>21. CASE ResumeRestored
  <2>1. at = "resume-restored" /\ sub.step = "none"
    BY <1>21 DEF ResumeRestored, At
  <2>2. mv.phase # "none" /\ (mv.phase = "none" \/ mv.status \in Statuses)
    BY <1>e, <1>j, <2>1 DEF TypedMove, Journalled, InMove
  <2>3. /\ BeginRollback => Turned
        /\ Receipt("manual-conflict") => Recorded("manual-conflict")
    BY <1>0, <1>e, JournalEffects DEF Outcome, Published, TypedLocal
  <2>4. UNCHANGED <<story, disk, copies, draft, rn, aside, kept, mode, first, sub, ok, ret,
                    touched, spent>>
    BY <1>21 DEF ResumeRestored, At, FilesStay, RenameStays, Frame
  <2>5. at' \in {"rollback", "m-retire"}
    BY <1>0, <1>21, <2>3, <2>2 DEF ResumeRestored, At, FilesStay, RenameStays, Frame, Turned,
         Recorded
  <2>6. mv' \in Moves /\ (mv'.phase = "none" \/ mv'.status \in Statuses)
        /\ (mv.phase # "none" => mv'.phase # "none")
    BY <1>0, <1>e, <1>21, <2>3, <2>2 DEF ResumeRestored, At, FilesStay, RenameStays, Frame,
         Turned, TypedMove
  <2>d. (i' = i \/ i' = Len(story.links)) /\ first' \in BOOLEAN
    BY <1>0, <1>e, <1>21, <2>3, <2>2 DEF ResumeRestored, At, FilesStay, RenameStays, Frame,
         Turned, TypedLocal
  <2>7. i' \in 0 .. Len(story.links) + 1 /\ first' \in BOOLEAN
    BY <1>0, <1>e, <2>d DEF TypedLocal
  <2>8. sub' \in Calls /\ ok' \in BOOLEAN
    BY <1>e, <2>4 DEF TypedLocal
  <2>9. TypedRename'
    BY <1>0, <1>e, <1>21, <2>3, <2>2, <2>4 DEF ResumeRestored, At, FilesStay, RenameStays,
         Frame, Recorded, TypedRename, TypedLocal
  <2>10. TypedFiles'
    BY <1>e, <2>4 DEF TypedFiles
  <2>11. Journalled'
    BY <1>j, <2>1, <2>4, <2>5, <2>6 DEF Journalled, InMove, InRename, InUndo
  <2>r. at' = "rollback" => i' <= Len(story.links)
    BY <1>0, <1>21, <2>3 DEF ResumeRestored, Go, Turned, Recorded
  <2>12. Indexed'
    BY <1>0, <1>e, <1>j, <2>4, <2>5, <2>d, <2>r DEF Indexed, TypedLocal
  <2>13. Called'
    BY <1>0, <1>e, <1>j, <1>21, <2>3, <2>2, <2>1, <2>4, <2>5 DEF Called, Calls
  <2>l. at' \in Leads
    BY <2>1, <2>5, <1>j DEF Leads, InMove, Journalled
  <2>14. TypeOK' /\ Placed'
    BY <1>e, <2>4, <2>5, <2>6, <2>7, <2>8, <2>9, <2>10, <2>11, <2>12, <2>13
       DEF TypeOK, Placed, TypedFiles, TypedRename, TypedLabels, Journalled, Label, Moves,
            Statuses
  <2>15. QED
    BY <2>14, <2>l
<1>22. CASE Rollback
  <2>1. at = "rollback" /\ sub.step = "none"
    BY <1>22 DEF Rollback, At
  <2>2. mv.phase # "none" /\ mv.status \in Statuses
    BY <1>e, <1>j, <2>1 DEF TypedMove, Journalled, InMove
  <2>i. i \in 1 .. Len(story.links)
    BY <1>0, <1>e, <1>j, <1>22, <2>1 DEF Rollback, Indexed, TypedLocal
  <2>3. i \in 1 .. Len(story.links) =>
            /\ Mark("rolled-back") => Marked("rolled-back", mv.manual)
            /\ Write(Entry, "new", "old", "rollback-wrote") => Writes(Entry, "new", "old")
                  /\ at' = "rollback-wrote"
    BY <1>0, JournalEffects, CallEffects, <2>2 DEF Status, Label, Entry, TypedLocal
  <2>4. UNCHANGED <<story, disk, copies, draft, rn, aside, kept, receipt, mode, first, ok,
                    ret, touched, spent>>
    BY <1>22 DEF Rollback, At, FilesStay, RenameStays, Frame
  <2>5. at' \in {"rollback-wrote", at}
    BY <1>0, <1>22, <2>3, <2>2, <2>i DEF Rollback, At, FilesStay, RenameStays, Frame
  <2>6. mv' \in Moves /\ (mv'.phase = "none" \/ mv'.status \in Statuses)
        /\ (mv.phase # "none" => mv'.phase # "none")
    BY <1>0, <1>e, <1>22, <2>3, <2>2, <2>i DEF Rollback, At, FilesStay, RenameStays, Frame,
         Marked, TypedMove
  <2>d. (i' = i \/ (i > 0 /\ i' = i - 1)) /\ first' \in BOOLEAN
    BY <1>0, <1>e, <1>22, <2>3, <2>2, <2>i DEF Rollback, At, FilesStay, RenameStays, Frame,
         TypedLocal
  <2>7. i' \in 0 .. Len(story.links) + 1 /\ first' \in BOOLEAN
    BY <1>0, <1>e, <2>d DEF TypedLocal
  <2>8. sub' \in Calls /\ ok' \in BOOLEAN
    BY <1>0, <1>e, <1>22, <2>3, <2>2, <2>i DEF Rollback, At, FilesStay, RenameStays, Frame,
         Writes, TypedLocal
  <2>9. TypedRename'
    BY <1>e, <2>4 DEF TypedRename
  <2>10. TypedFiles'
    BY <1>e, <2>4 DEF TypedFiles
  <2>11. Journalled'
    BY <1>j, <2>1, <2>4, <2>5, <2>6 DEF Journalled, InMove, InRename, InUndo
  <2>12. Indexed'
    BY <1>0, <1>e, <1>j, <1>22, <2>3, <2>2, <2>i, <2>1, <2>4, <2>5 DEF Rollback, At, FilesStay,
         RenameStays, Frame, Indexed, TypedLocal
  <2>13. Called'
    BY <1>0, <1>e, <1>j, <1>22, <2>3, <2>2, <2>i, <2>1, <2>4, <2>5 DEF Rollback, At, FilesStay,
         RenameStays, Frame, Writes, UndoFor, Called, Calls
  <2>l. at' \in Leads
    BY <2>1, <2>5, <1>j DEF Leads, InMove, Journalled
  <2>14. TypeOK' /\ Placed'
    BY <1>e, <2>4, <2>5, <2>6, <2>7, <2>8, <2>9, <2>10, <2>11, <2>12, <2>13
       DEF TypeOK, Placed, TypedFiles, TypedRename, TypedLabels, Journalled, Label, Moves,
            Statuses
  <2>15. QED
    BY <2>14, <2>l
<1>23. CASE RollbackWrote
  <2>1. at = "rollback-wrote" /\ sub.step = "none"
    BY <1>23 DEF RollbackWrote, At
  <2>2. mv.phase # "none" /\ mv.status \in Statuses
    BY <1>e, <1>j, <2>1 DEF TypedMove, Journalled, InMove
  <2>i. i \in 1 .. Len(story.links)
    BY <1>0, <1>e, <1>j, <1>23, <2>1 DEF RollbackWrote, Indexed, TypedLocal
  <2>4. UNCHANGED <<story, disk, copies, draft, rn, aside, kept, receipt, mode, first, sub,
                    ok, ret, touched, spent>>
    BY <1>23 DEF RollbackWrote, At, Go, FilesStay, RenameStays, Frame
  <2>5. at' \in {"rollback"}
    BY <1>0, <1>23, <2>2, <2>i DEF RollbackWrote, At, Go, FilesStay, RenameStays, Frame
  <2>6. mv' \in Moves /\ (mv'.phase = "none" \/ mv'.status \in Statuses)
        /\ (mv.phase # "none" => mv'.phase # "none")
    <3>1. mv' = [mv EXCEPT !.status[i] = IF ok THEN "rolled-back" ELSE "conflict",
                           !.manual = mv.manual \/ ~ok]
      BY <1>23 DEF RollbackWrote
    <3>2. mv'.phase = mv.phase /\ mv'.manual \in BOOLEAN /\ mv'.status \in Statuses
      BY <3>1, <2>2, <1>e DEF TypedMove, TypedLocal, Moves, Statuses, Status
    <3>3. QED
      BY <3>1, <3>2, <2>2, <1>e DEF TypedMove, Moves
  <2>d. ((i > 0 /\ i' = i - 1)) /\ first' \in BOOLEAN
    BY <1>0, <1>e, <1>23, <2>2, <2>i DEF RollbackWrote, At, Go, FilesStay, RenameStays, Frame,
         TypedLocal
  <2>7. i' \in 0 .. Len(story.links) + 1 /\ first' \in BOOLEAN
    BY <1>0, <1>e, <2>d DEF TypedLocal
  <2>8. sub' \in Calls /\ ok' \in BOOLEAN
    BY <1>e, <2>4 DEF TypedLocal
  <2>9. TypedRename'
    BY <1>e, <2>4 DEF TypedRename
  <2>10. TypedFiles'
    BY <1>e, <2>4 DEF TypedFiles
  <2>11. Journalled'
    BY <1>j, <2>1, <2>4, <2>5, <2>6 DEF Journalled, InMove, InRename, InUndo
  <2>12. Indexed'
    BY <1>0, <1>e, <1>j, <1>23, <2>2, <2>i, <2>1, <2>4, <2>5 DEF RollbackWrote, At, Go,
         FilesStay, RenameStays, Frame, Indexed, TypedLocal
  <2>13. Called'
    BY <1>0, <1>e, <1>j, <1>23, <2>2, <2>i, <2>1, <2>4, <2>5 DEF Called, Calls
  <2>l. at' \in Leads
    BY <2>1, <2>5, <1>j DEF Leads, InMove, Journalled
  <2>14. TypeOK' /\ Placed'
    BY <1>e, <2>4, <2>5, <2>6, <2>7, <2>8, <2>9, <2>10, <2>11, <2>12, <2>13
       DEF TypeOK, Placed, TypedFiles, TypedRename, TypedLabels, Journalled, Label, Moves,
            Statuses
  <2>15. QED
    BY <2>14, <2>l
<1>24. CASE RolledBack
  <2>1. at = "rollback" /\ sub.step = "none"
    BY <1>24 DEF RolledBack, At
  <2>3. LET o == IF mv.manual THEN "manual-conflict"
              ELSE IF \E k \in DOMAIN mv.status : mv.status[k] = "conflict" THEN "conflict-copy"
              ELSE "rolled-back"
      IN  Receipt(o) => Recorded(o)
    BY <1>0, <1>e, JournalEffects DEF Outcome, Published, TypedLocal
  <2>4. UNCHANGED <<story, disk, copies, draft, mv, rn, aside, kept, mode, i, first, sub, ok,
                    ret, touched, spent>>
    BY <1>24 DEF RolledBack, At, FilesStay, RenameStays, MoveStays, Frame
  <2>5. at' \in {"m-retire"}
    BY <1>0, <1>24, <2>3 DEF RolledBack, At, FilesStay, RenameStays, MoveStays, Frame, Recorded
  <2>6. mv' \in Moves /\ (mv'.phase = "none" \/ mv'.status \in Statuses)
        /\ (mv.phase # "none" => mv'.phase # "none")
    BY <1>e, <2>4 DEF TypedMove
  <2>7. i' \in 0 .. Len(story.links) + 1 /\ first' \in BOOLEAN
    BY <1>e, <2>4 DEF TypedLocal
  <2>8. sub' \in Calls /\ ok' \in BOOLEAN
    BY <1>e, <2>4 DEF TypedLocal
  <2>9. TypedRename'
    BY <1>0, <1>e, <1>24, <2>3, <2>4 DEF RolledBack, At, FilesStay, RenameStays, MoveStays,
         Frame, Recorded, TypedRename, TypedLocal
  <2>10. TypedFiles'
    BY <1>e, <2>4 DEF TypedFiles
  <2>11. Journalled'
    BY <1>j, <2>1, <2>4, <2>5, <2>6 DEF Journalled, InMove, InRename, InUndo
  <2>12. Indexed'
    BY <1>0, <1>e, <1>j, <1>24, <2>3, <2>1, <2>4, <2>5 DEF RolledBack, At, FilesStay,
         RenameStays, MoveStays, Frame, Indexed, TypedLocal
  <2>13. Called'
    BY <1>0, <1>e, <1>j, <1>24, <2>3, <2>1, <2>4, <2>5 DEF Called, Calls
  <2>l. at' \in Leads
    BY <2>1, <2>5, <1>j DEF Leads, InMove, Journalled
  <2>14. TypeOK' /\ Placed'
    BY <1>e, <2>4, <2>5, <2>6, <2>7, <2>8, <2>9, <2>10, <2>11, <2>12, <2>13
       DEF TypeOK, Placed, TypedFiles, TypedRename, TypedLabels, Journalled, Label, Moves,
            Statuses
  <2>15. QED
    BY <2>14, <2>l
<1>25. CASE MoveRetire
  <2>1. at = "m-retire" /\ sub.step = "none"
    BY <1>25 DEF MoveRetire, At
  <2>4. UNCHANGED <<story, disk, copies, draft, rn, aside, kept, receipt, mode, i, first,
                    sub, ok, ret, touched, spent>>
    BY <1>25 DEF MoveRetire, At, Go, FilesStay, RenameStays, Frame
  <2>5. at' \in {"recover", "idle"}
    BY <1>0, <1>25 DEF MoveRetire, At, Go, FilesStay, RenameStays, Frame
  <2>6. mv' \in Moves /\ mv'.phase = "none"
    BY <1>25 DEF MoveRetire, NoMove, Moves, MovePhase
  <2>7. i' \in 0 .. Len(story.links) + 1 /\ first' \in BOOLEAN
    BY <1>e, <2>4 DEF TypedLocal
  <2>8. sub' \in Calls /\ ok' \in BOOLEAN
    BY <1>e, <2>4 DEF TypedLocal
  <2>9. TypedRename'
    BY <1>e, <2>4 DEF TypedRename
  <2>10. TypedFiles'
    BY <1>e, <2>4 DEF TypedFiles
  <2>11. Journalled'
    BY <1>j, <2>1, <2>4, <2>5, <2>6 DEF Journalled, InMove, InRename, InUndo
  <2>12. Indexed'
    BY <1>0, <1>e, <1>j, <1>25, <2>1, <2>4, <2>5 DEF MoveRetire, At, Go, FilesStay, RenameStays,
         Frame, Indexed, TypedLocal
  <2>13. Called'
    BY <1>0, <1>e, <1>j, <1>25, <2>1, <2>4, <2>5 DEF Called, Calls
  <2>l. at' \in Leads
    BY <2>1, <2>5, <1>j DEF Leads, InMove, Journalled
  <2>14. TypeOK' /\ Placed'
    BY <1>e, <2>4, <2>5, <2>6, <2>7, <2>8, <2>9, <2>10, <2>11, <2>12, <2>13
       DEF TypeOK, Placed, TypedFiles, TypedRename, TypedLabels, Journalled, Label, Moves,
            Statuses
  <2>15. QED
    BY <2>14, <2>l
<1>26. QED
  BY <1>1, <1>2, <1>3, <1>4, <1>5, <1>6, <1>7, <1>8, <1>9, <1>10, <1>11, <1>12, <1>13, <1>14,
     <1>15, <1>16, <1>17, <1>18, <1>19, <1>20, <1>21, <1>22, <1>23, <1>24, <1>25 DEF Moving

(* So does every step of the rename.                                       *)
LEMMA RenamingTyped ==
  ASSUME TypeOK, Placed, Renaming
  PROVE  TypeOK' /\ Placed'
<1>0. /\ Len(story.links) \in Nat /\ DOMAIN story.links = 1 .. Len(story.links)
      /\ Src \in File /\ Dst \in File /\ Rev \in {"old", "new"}
      /\ \A k \in 1 .. Len(story.links) : story.links[k] \in File
  BY Links, RevOwn
<1>e. TypedFiles /\ TypedMove /\ TypedRename /\ TypedLocal /\ TypedLabels
  BY DEF TypeOK, TypedFiles, TypedMove, TypedRename, TypedLocal, TypedLabels
<1>j. Journalled /\ Indexed /\ Called
  BY DEF Placed
<1>1. CASE RenameCheck
  <2>1. at = "r-check" /\ sub.step = "none"
    BY <1>1 DEF RenameCheck, At
  <2>4. UNCHANGED <<story, disk, copies, draft, mv, aside, kept, mode, i, first, sub, ret,
                    touched, spent>>
    BY <1>1 DEF RenameCheck, At, Go, FilesStay, MoveStays, Frame
  <2>5. at' \in {"r-final", "idle", "renamed", "recover"}
    BY <1>0, <1>1, <1>j DEF RenameCheck, At, Go, FilesStay, MoveStays, Frame, Journalled
  <2>6. mv' \in Moves /\ (mv'.phase = "none" \/ mv'.status \in Statuses)
        /\ (mv.phase # "none" => mv'.phase # "none")
    BY <1>e, <2>4 DEF TypedMove
  <2>7. i' \in 0 .. Len(story.links) + 1 /\ first' \in BOOLEAN
    BY <1>e, <2>4 DEF TypedLocal
  <2>8. sub' \in Calls /\ ok' \in BOOLEAN
    BY <1>0, <1>e, <1>1 DEF RenameCheck, At, Go, FilesStay, MoveStays, Frame, TypedLocal
  <2>9. TypedRename'
    <3>1. receipt' \in [move : Outcome, rename : Outcome] /\ rn' \in {rn, "intent"}
      BY <1>e, <1>1 DEF RenameCheck, TypedRename, Outcome
    <3>2. QED
      BY <1>e, <2>4, <3>1 DEF TypedRename
  <2>10. TypedFiles'
    BY <1>e, <2>4 DEF TypedFiles
  <2>n. (at' = "r-final" /\ rn' # "none") \/ at' = ret
    BY <1>1, <2>1 DEF RenameCheck, Go
  <2>11. Journalled'
    BY <1>j, <2>1, <2>4, <2>5, <2>6, <2>n DEF Journalled, InMove, InRename, InUndo
  <2>12. Indexed'
    BY <1>0, <1>e, <1>j, <1>1, <2>1, <2>4, <2>5 DEF RenameCheck, At, Go, FilesStay, MoveStays,
         Frame, Indexed, TypedLocal
  <2>13. Called'
    BY <1>0, <1>e, <1>j, <1>1, <2>1, <2>4, <2>5 DEF Called, Calls
  <2>14. QED
    BY <1>e, <2>4, <2>5, <2>6, <2>7, <2>8, <2>9, <2>10, <2>11, <2>12, <2>13
       DEF TypeOK, Placed, TypedFiles, TypedRename, TypedLabels, Journalled, Label, Moves,
            Statuses
<1>2. CASE RenameFinal
  <2>1. at = "r-final" /\ sub.step = "none"
    BY <1>2 DEF RenameFinal, At
  <2>3. /\ RenameEnds("manual-conflict") => Ended("manual-conflict")
    BY <1>0, <1>e, JournalEffects DEF Outcome, Published, TypedLocal
  <2>4. UNCHANGED <<story, disk, copies, draft, mv, rn, kept, mode, i, first, sub, ret,
                    touched, spent>>
    BY <1>2 DEF RenameFinal, RenameConflict, At, Go, FilesStay, MoveStays, Frame
  <2>5. at' \in {"r-blob", "r-retire"}
    BY <1>0, <1>2, <2>3 DEF RenameFinal, RenameConflict, At, Go, FilesStay, MoveStays, Frame,
         Ended
  <2>6. mv' \in Moves /\ (mv'.phase = "none" \/ mv'.status \in Statuses)
        /\ (mv.phase # "none" => mv'.phase # "none")
    BY <1>e, <2>4 DEF TypedMove
  <2>7. i' \in 0 .. Len(story.links) + 1 /\ first' \in BOOLEAN
    BY <1>e, <2>4 DEF TypedLocal
  <2>8. sub' \in Calls /\ ok' \in BOOLEAN
    BY <1>0, <1>e, <1>2, <2>3 DEF RenameFinal, RenameConflict, At, Go, FilesStay, MoveStays,
         Frame, Ended, TypedLocal
  <2>9. TypedRename'
    BY <1>0, <1>e, <1>2, <2>3, <2>4 DEF RenameFinal, RenameConflict, At, Go, FilesStay,
         MoveStays, Frame, Ended, TypedRename, TypedLocal, Private, Aside
  <2>10. TypedFiles'
    BY <1>e, <2>4 DEF TypedFiles
  <2>11. Journalled'
    BY <1>j, <2>1, <2>4, <2>5, <2>6 DEF Journalled, InMove, InRename, InUndo
  <2>12. Indexed'
    BY <1>0, <1>e, <1>j, <1>2, <2>3, <2>1, <2>4, <2>5 DEF RenameFinal, RenameConflict, At, Go,
         FilesStay, MoveStays, Frame, Indexed, TypedLocal
  <2>13. Called'
    BY <1>0, <1>e, <1>j, <1>2, <2>3, <2>1, <2>4, <2>5 DEF Called, Calls
  <2>14. QED
    BY <1>e, <2>4, <2>5, <2>6, <2>7, <2>8, <2>9, <2>10, <2>11, <2>12, <2>13
       DEF TypeOK, Placed, TypedFiles, TypedRename, TypedLabels, Journalled, Label, Moves,
            Statuses
<1>3. CASE RenameBlob
  <2>1. at = "r-blob" /\ sub.step = "none"
    BY <1>3 DEF RenameBlob, At
  <2>4. UNCHANGED <<story, disk, copies, draft, mv, rn, kept, receipt, mode, i, first, sub,
                    ok, ret, touched, spent>>
    BY <1>3 DEF RenameBlob, At, Go, FilesStay, MoveStays, Frame
  <2>5. at' \in {"r-evidence"}
    BY <1>0, <1>3 DEF RenameBlob, At, Go, FilesStay, MoveStays, Frame
  <2>6. mv' \in Moves /\ (mv'.phase = "none" \/ mv'.status \in Statuses)
        /\ (mv.phase # "none" => mv'.phase # "none")
    BY <1>e, <2>4 DEF TypedMove
  <2>7. i' \in 0 .. Len(story.links) + 1 /\ first' \in BOOLEAN
    BY <1>e, <2>4 DEF TypedLocal
  <2>8. sub' \in Calls /\ ok' \in BOOLEAN
    BY <1>e, <2>4 DEF TypedLocal
  <2>9. TypedRename'
    BY <1>0, <1>e, <1>3, <2>4 DEF RenameBlob, At, Go, FilesStay, MoveStays, Frame, TypedRename,
         TypedLocal, Private, Aside
  <2>10. TypedFiles'
    BY <1>e, <2>4 DEF TypedFiles
  <2>11. Journalled'
    BY <1>j, <2>1, <2>4, <2>5, <2>6 DEF Journalled, InMove, InRename, InUndo
  <2>12. Indexed'
    BY <1>0, <1>e, <1>j, <1>3, <2>1, <2>4, <2>5 DEF RenameBlob, At, Go, FilesStay, MoveStays,
         Frame, Indexed, TypedLocal
  <2>13. Called'
    BY <1>0, <1>e, <1>j, <1>3, <2>1, <2>4, <2>5 DEF Called, Calls
  <2>14. QED
    BY <1>e, <2>4, <2>5, <2>6, <2>7, <2>8, <2>9, <2>10, <2>11, <2>12, <2>13
       DEF TypeOK, Placed, TypedFiles, TypedRename, TypedLabels, Journalled, Label, Moves,
            Statuses
<1>4. CASE RenameEvidence
  <2>1. at = "r-evidence" /\ sub.step = "none"
    BY <1>4 DEF RenameEvidence, At
  <2>4. UNCHANGED <<story, disk, copies, draft, mv, kept, receipt, mode, i, first, sub, ok,
                    ret, touched, spent>>
    BY <1>4 DEF RenameEvidence, At, Go, FilesStay, MoveStays, Frame
  <2>5. at' \in {"r-staged"}
    BY <1>0, <1>4 DEF RenameEvidence, At, Go, FilesStay, MoveStays, Frame
  <2>6. mv' \in Moves /\ (mv'.phase = "none" \/ mv'.status \in Statuses)
        /\ (mv.phase # "none" => mv'.phase # "none")
    BY <1>e, <2>4 DEF TypedMove
  <2>7. i' \in 0 .. Len(story.links) + 1 /\ first' \in BOOLEAN
    BY <1>e, <2>4 DEF TypedLocal
  <2>8. sub' \in Calls /\ ok' \in BOOLEAN
    BY <1>e, <2>4 DEF TypedLocal
  <2>9. TypedRename'
    BY <1>0, <1>e, <1>4, <2>4 DEF RenameEvidence, At, Go, FilesStay, MoveStays, Frame,
         TypedRename, TypedLocal, Private, Aside
  <2>10. TypedFiles'
    BY <1>e, <2>4 DEF TypedFiles
  <2>n. rn' # "none" \/ rn' = rn
    BY <1>4 DEF RenameEvidence
  <2>11. Journalled'
    BY <1>j, <2>1, <2>4, <2>5, <2>6, <2>n DEF Journalled, InMove, InRename, InUndo
  <2>12. Indexed'
    BY <1>0, <1>e, <1>j, <1>4, <2>1, <2>4, <2>5 DEF RenameEvidence, At, Go, FilesStay,
         MoveStays, Frame, Indexed, TypedLocal
  <2>13. Called'
    BY <1>0, <1>e, <1>j, <1>4, <2>1, <2>4, <2>5 DEF Called, Calls
  <2>14. QED
    BY <1>e, <2>4, <2>5, <2>6, <2>7, <2>8, <2>9, <2>10, <2>11, <2>12, <2>13
       DEF TypeOK, Placed, TypedFiles, TypedRename, TypedLabels, Journalled, Label, Moves,
            Statuses
<1>5. CASE RenameStaged
  <2>1. at = "r-staged" /\ sub.step = "none"
    BY <1>5 DEF RenameStaged, At
  <2>3. /\ RenameEnds("manual-conflict") => Ended("manual-conflict")
        /\ Install(<<"rn", "blob">>, Dst, "r-installed")
              => Installs(<<"rn", "blob">>, Dst) /\ at' = "r-installed"
    BY <1>0, <1>e, JournalEffects, CallEffects DEF Outcome, Published, Label, Aside, TypedLocal
  <2>4. UNCHANGED <<story, disk, copies, draft, mv, rn, aside, kept, mode, i, first, ret,
                    touched, spent>>
    BY <1>5 DEF RenameStaged, RenameConflict, At, Go, FilesStay, RenameStays, MoveStays, Frame
  <2>5. at' \in {"r-publish", "r-installed", "r-retire"}
    BY <1>0, <1>5, <2>3 DEF RenameStaged, RenameConflict, At, Go, FilesStay, RenameStays,
         MoveStays, Frame, Ended
  <2>6. mv' \in Moves /\ (mv'.phase = "none" \/ mv'.status \in Statuses)
        /\ (mv.phase # "none" => mv'.phase # "none")
    BY <1>e, <2>4 DEF TypedMove
  <2>7. i' \in 0 .. Len(story.links) + 1 /\ first' \in BOOLEAN
    BY <1>e, <2>4 DEF TypedLocal
  <2>8. sub' \in Calls /\ ok' \in BOOLEAN
    BY <1>0, <1>e, <1>5, <2>3 DEF RenameStaged, RenameConflict, At, Go, FilesStay, RenameStays,
         MoveStays, Frame, Ended, Installs, TypedLocal
  <2>9. TypedRename'
    BY <1>0, <1>e, <1>5, <2>3, <2>4 DEF RenameStaged, RenameConflict, At, Go, FilesStay,
         RenameStays, MoveStays, Frame, Ended, TypedRename, TypedLocal
  <2>10. TypedFiles'
    BY <1>e, <2>4 DEF TypedFiles
  <2>11. Journalled'
    BY <1>j, <2>1, <2>4, <2>5, <2>6 DEF Journalled, InMove, InRename, InUndo
  <2>12. Indexed'
    BY <1>0, <1>e, <1>j, <1>5, <2>3, <2>1, <2>4, <2>5 DEF RenameStaged, RenameConflict, At, Go,
         FilesStay, RenameStays, MoveStays, Frame, Indexed, TypedLocal
  <2>c. sub' = sub \/ (sub'.step = "make" /\ sub'.from = <<"rn", "blob">> /\ sub'.file = Dst)
    BY <1>5, <2>3 DEF RenameStaged, Installs
  <2>13. Called'
    BY <1>j, <2>1, <2>c, <2>5 DEF Called
  <2>14. QED
    BY <1>e, <2>4, <2>5, <2>6, <2>7, <2>8, <2>9, <2>10, <2>11, <2>12, <2>13
       DEF TypeOK, Placed, TypedFiles, TypedRename, TypedLabels, Journalled, Label, Moves,
            Statuses
<1>6. CASE RenamePublish
  <2>1. at = "r-publish" /\ sub.step = "none"
    BY <1>6 DEF RenamePublish, At, RenameStays
  <2>3. /\ RenameEnds("manual-conflict") => Ended("manual-conflict")
    BY <1>0, <1>e, JournalEffects DEF Outcome, Published, TypedLocal
  <2>4. UNCHANGED <<story, copies, draft, mv, rn, kept, mode, i, first, sub, ret, touched,
                    spent>>
    BY <1>6 DEF RenamePublish, RenameConflict, NativePublish, At, Go, MoveStays, Frame, RenameStays
  <2>5. at' \in {"r-installed", "r-retire"}
    BY <1>0, <1>6, <2>3 DEF RenamePublish, RenameConflict, NativePublish, At, Go, MoveStays,
         Frame, Ended, RenameStays
  <2>6. mv' \in Moves /\ (mv'.phase = "none" \/ mv'.status \in Statuses)
        /\ (mv.phase # "none" => mv'.phase # "none")
    BY <1>e, <2>4 DEF TypedMove
  <2>7. i' \in 0 .. Len(story.links) + 1 /\ first' \in BOOLEAN
    BY <1>e, <2>4 DEF TypedLocal
  <2>8. sub' \in Calls /\ ok' \in BOOLEAN
    BY <1>0, <1>e, <1>6, <2>3 DEF RenamePublish, RenameConflict, NativePublish, At, Go,
         MoveStays, Frame, Ended, TypedLocal, RenameStays
  <2>9. TypedRename'
    BY <1>0, <1>e, <1>6, <2>3, <2>4 DEF RenamePublish, RenameConflict, NativePublish, At, Go,
         MoveStays, Frame, Ended, TypedRename, TypedLocal, Private, Aside, RenameStays
  <2>10. TypedFiles'
    BY <1>0, <1>e, <1>j, <1>6, <2>3, <2>4 DEF RenamePublish, RenameConflict, NativePublish, At,
         Go, MoveStays, Frame, TypedFiles, TypedLocal, Content, Calls, Called, NoDraft, RenameStays
  <2>11. Journalled'
    BY <1>j, <2>1, <2>4, <2>5, <2>6 DEF Journalled, InMove, InRename, InUndo
  <2>12. Indexed'
    BY <1>0, <1>e, <1>j, <1>6, <2>3, <2>1, <2>4, <2>5 DEF RenamePublish, RenameConflict,
         NativePublish, At, Go, MoveStays, Frame, Indexed, TypedLocal, RenameStays
  <2>13. Called'
    BY <1>0, <1>e, <1>j, <1>6, <2>3, <2>1, <2>4, <2>5 DEF Called, Calls
  <2>14. QED
    BY <1>e, <2>4, <2>5, <2>6, <2>7, <2>8, <2>9, <2>10, <2>11, <2>12, <2>13
       DEF TypeOK, Placed, TypedFiles, TypedRename, TypedLabels, Journalled, Label, Moves,
            Statuses
<1>7. CASE RenameInstalled
  <2>1. at = "r-installed" /\ sub.step = "none"
    BY <1>7 DEF RenameInstalled, At
  <2>3. /\ RenameEnds("manual-conflict") => Ended("manual-conflict")
    BY <1>0, <1>e, JournalEffects DEF Outcome, Published, TypedLocal
  <2>4. UNCHANGED <<story, disk, copies, draft, mv, aside, kept, mode, i, first, sub, ret,
                    touched, spent>>
    BY <1>7 DEF RenameInstalled, RenameConflict, At, Go, FilesStay, MoveStays, Frame
  <2>5. at' \in {"r-linked", "r-retire"}
    BY <1>0, <1>7, <2>3 DEF RenameInstalled, RenameConflict, At, Go, FilesStay, MoveStays,
         Frame, Ended
  <2>6. mv' \in Moves /\ (mv'.phase = "none" \/ mv'.status \in Statuses)
        /\ (mv.phase # "none" => mv'.phase # "none")
    BY <1>e, <2>4 DEF TypedMove
  <2>7. i' \in 0 .. Len(story.links) + 1 /\ first' \in BOOLEAN
    BY <1>e, <2>4 DEF TypedLocal
  <2>8. sub' \in Calls /\ ok' \in BOOLEAN
    BY <1>0, <1>e, <1>7, <2>3 DEF RenameInstalled, RenameConflict, At, Go, FilesStay, MoveStays,
         Frame, Ended, TypedLocal
  <2>9. TypedRename'
    BY <1>0, <1>e, <1>7, <2>3, <2>4 DEF RenameInstalled, RenameConflict, At, Go, FilesStay,
         MoveStays, Frame, Ended, TypedRename, TypedLocal
  <2>10. TypedFiles'
    BY <1>e, <2>4 DEF TypedFiles
  <2>n. rn' # "none" \/ rn' = rn
    BY <1>7 DEF RenameInstalled
  <2>11. Journalled'
    BY <1>j, <2>1, <2>4, <2>5, <2>6, <2>n DEF Journalled, InMove, InRename, InUndo
  <2>12. Indexed'
    BY <1>0, <1>e, <1>j, <1>7, <2>3, <2>1, <2>4, <2>5 DEF RenameInstalled, RenameConflict, At,
         Go, FilesStay, MoveStays, Frame, Indexed, TypedLocal
  <2>13. Called'
    BY <1>0, <1>e, <1>j, <1>7, <2>3, <2>1, <2>4, <2>5 DEF Called, Calls
  <2>14. QED
    BY <1>e, <2>4, <2>5, <2>6, <2>7, <2>8, <2>9, <2>10, <2>11, <2>12, <2>13
       DEF TypeOK, Placed, TypedFiles, TypedRename, TypedLabels, Journalled, Label, Moves,
            Statuses
<1>8. CASE RenameLinkedStrict
  <2>1. at = "r-linked" /\ sub.step = "none"
    BY <1>8 DEF RenameLinkedStrict, At
  <2>3. /\ RenameEnds("manual-conflict") => Ended("manual-conflict")
    BY <1>0, <1>e, JournalEffects DEF Outcome, Published, TypedLocal
  <2>4. UNCHANGED <<story, disk, copies, draft, mv, aside, kept, mode, i, first, sub, ret,
                    touched, spent>>
    BY <1>8 DEF RenameLinkedStrict, RenameConflict, At, Go, FilesStay, MoveStays, Frame
  <2>5. at' \in {"r-published", "r-retire"}
    BY <1>0, <1>8, <2>3 DEF RenameLinkedStrict, RenameConflict, At, Go, FilesStay, MoveStays,
         Frame, Ended
  <2>6. mv' \in Moves /\ (mv'.phase = "none" \/ mv'.status \in Statuses)
        /\ (mv.phase # "none" => mv'.phase # "none")
    BY <1>e, <2>4 DEF TypedMove
  <2>7. i' \in 0 .. Len(story.links) + 1 /\ first' \in BOOLEAN
    BY <1>e, <2>4 DEF TypedLocal
  <2>8. sub' \in Calls /\ ok' \in BOOLEAN
    BY <1>0, <1>e, <1>8, <2>3 DEF RenameLinkedStrict, RenameConflict, At, Go, FilesStay,
         MoveStays, Frame, Ended, TypedLocal
  <2>9. TypedRename'
    BY <1>0, <1>e, <1>8, <2>3, <2>4 DEF RenameLinkedStrict, RenameConflict, At, Go, FilesStay,
         MoveStays, Frame, Ended, TypedRename, TypedLocal
  <2>10. TypedFiles'
    BY <1>e, <2>4 DEF TypedFiles
  <2>n. rn' # "none" \/ rn' = rn
    BY <1>8 DEF RenameLinkedStrict
  <2>11. Journalled'
    BY <1>j, <2>1, <2>4, <2>5, <2>6, <2>n DEF Journalled, InMove, InRename, InUndo
  <2>12. Indexed'
    BY <1>0, <1>e, <1>j, <1>8, <2>3, <2>1, <2>4, <2>5 DEF RenameLinkedStrict, RenameConflict,
         At, Go, FilesStay, MoveStays, Frame, Indexed, TypedLocal
  <2>13. Called'
    BY <1>0, <1>e, <1>j, <1>8, <2>3, <2>1, <2>4, <2>5 DEF Called, Calls
  <2>14. QED
    BY <1>e, <2>4, <2>5, <2>6, <2>7, <2>8, <2>9, <2>10, <2>11, <2>12, <2>13
       DEF TypeOK, Placed, TypedFiles, TypedRename, TypedLabels, Journalled, Label, Moves,
            Statuses
<1>9. CASE RenamePublished
  <2>1. at = "r-published" /\ sub.step = "none"
    BY <1>9 DEF RenamePublished, At
  <2>3. /\ RenameEnds(Published) => Ended(Published)
        /\ RenameEnds("manual-conflict") => Ended("manual-conflict")
    BY <1>0, <1>e, JournalEffects DEF Outcome, Published, TypedLocal
  <2>4. UNCHANGED <<story, disk, copies, draft, mv, aside, kept, mode, i, first, sub, ret,
                    touched, spent>>
    BY <1>9 DEF RenamePublished, RenameConflict, At, FilesStay, MoveStays, Frame
  <2>5. at' \in {"r-retire"}
    BY <1>0, <1>9, <2>3 DEF RenamePublished, RenameConflict, At, FilesStay, MoveStays, Frame,
         Ended
  <2>6. mv' \in Moves /\ (mv'.phase = "none" \/ mv'.status \in Statuses)
        /\ (mv.phase # "none" => mv'.phase # "none")
    BY <1>e, <2>4 DEF TypedMove
  <2>7. i' \in 0 .. Len(story.links) + 1 /\ first' \in BOOLEAN
    BY <1>e, <2>4 DEF TypedLocal
  <2>8. sub' \in Calls /\ ok' \in BOOLEAN
    BY <1>0, <1>e, <1>9, <2>3 DEF RenamePublished, RenameConflict, At, FilesStay, MoveStays,
         Frame, Ended, TypedLocal
  <2>9. TypedRename'
    BY <1>0, <1>e, <1>9, <2>3, <2>4 DEF RenamePublished, RenameConflict, At, FilesStay,
         MoveStays, Frame, Ended, TypedRename, TypedLocal
  <2>10. TypedFiles'
    BY <1>e, <2>4 DEF TypedFiles
  <2>n. rn' # "none" \/ rn' = rn
    BY <1>9 DEF RenamePublished
  <2>11. Journalled'
    BY <1>j, <2>1, <2>4, <2>5, <2>6, <2>n DEF Journalled, InMove, InRename, InUndo
  <2>12. Indexed'
    BY <1>0, <1>e, <1>j, <1>9, <2>3, <2>1, <2>4, <2>5 DEF RenamePublished, RenameConflict, At,
         FilesStay, MoveStays, Frame, Indexed, TypedLocal
  <2>13. Called'
    BY <1>0, <1>e, <1>j, <1>9, <2>3, <2>1, <2>4, <2>5 DEF Called, Calls
  <2>14. QED
    BY <1>e, <2>4, <2>5, <2>6, <2>7, <2>8, <2>9, <2>10, <2>11, <2>12, <2>13
       DEF TypeOK, Placed, TypedFiles, TypedRename, TypedLabels, Journalled, Label, Moves,
            Statuses
<1>10. CASE RenameLinked
  <2>1. at = "r-linked" /\ sub.step = "none"
    BY <1>10 DEF RenameLinked, At
  <2>3. /\ RenameEnds("manual-conflict") => Ended("manual-conflict")
    BY <1>0, <1>e, JournalEffects DEF Outcome, Published, TypedLocal
  <2>4. UNCHANGED <<story, copies, draft, mv, rn, aside, kept, mode, i, first, sub, ret,
                    touched, spent>>
    BY <1>10 DEF RenameLinked, RenameConflict, At, Go, RenameStays, MoveStays, Frame
  <2>5. at' \in {"r-remove", "r-retire"}
    BY <1>0, <1>10, <2>3 DEF RenameLinked, RenameConflict, At, Go, RenameStays, MoveStays,
         Frame, Ended
  <2>6. mv' \in Moves /\ (mv'.phase = "none" \/ mv'.status \in Statuses)
        /\ (mv.phase # "none" => mv'.phase # "none")
    BY <1>e, <2>4 DEF TypedMove
  <2>7. i' \in 0 .. Len(story.links) + 1 /\ first' \in BOOLEAN
    BY <1>e, <2>4 DEF TypedLocal
  <2>8. sub' \in Calls /\ ok' \in BOOLEAN
    BY <1>0, <1>e, <1>10, <2>3 DEF RenameLinked, RenameConflict, At, Go, RenameStays, MoveStays,
         Frame, Ended, TypedLocal
  <2>9. TypedRename'
    BY <1>0, <1>e, <1>10, <2>3, <2>4 DEF RenameLinked, RenameConflict, At, Go, RenameStays,
         MoveStays, Frame, Ended, TypedRename, TypedLocal
  <2>10. TypedFiles'
    BY <1>0, <1>e, <1>j, <1>10, <2>3, <2>4 DEF RenameLinked, RenameConflict, At, Go,
         RenameStays, MoveStays, Frame, TypedFiles, TypedLocal, Content, Calls, Called, NoDraft
  <2>11. Journalled'
    BY <1>j, <2>1, <2>4, <2>5, <2>6 DEF Journalled, InMove, InRename, InUndo
  <2>12. Indexed'
    BY <1>0, <1>e, <1>j, <1>10, <2>3, <2>1, <2>4, <2>5 DEF RenameLinked, RenameConflict, At, Go,
         RenameStays, MoveStays, Frame, Indexed, TypedLocal
  <2>13. Called'
    BY <1>0, <1>e, <1>j, <1>10, <2>3, <2>1, <2>4, <2>5 DEF Called, Calls
  <2>14. QED
    BY <1>e, <2>4, <2>5, <2>6, <2>7, <2>8, <2>9, <2>10, <2>11, <2>12, <2>13
       DEF TypeOK, Placed, TypedFiles, TypedRename, TypedLabels, Journalled, Label, Moves,
            Statuses
<1>11. CASE RenameRemove
  <2>1. at = "r-remove" /\ sub.step = "none"
    BY <1>11 DEF RenameRemove, At
  <2>3. /\ RenameEnds("manual-conflict") => Ended("manual-conflict")
    BY <1>0, <1>e, JournalEffects DEF Outcome, Published, TypedLocal
  <2>4. UNCHANGED <<story, disk, copies, draft, mv, rn, aside, kept, mode, i, first, sub,
                    ret, touched, spent>>
    BY <1>11 DEF RenameRemove, RenameConflict, At, Go, FilesStay, RenameStays, MoveStays, Frame
  <2>5. at' \in {"r-claim", "r-retire"}
    BY <1>0, <1>11, <2>3 DEF RenameRemove, RenameConflict, At, Go, FilesStay, RenameStays,
         MoveStays, Frame, Ended
  <2>6. mv' \in Moves /\ (mv'.phase = "none" \/ mv'.status \in Statuses)
        /\ (mv.phase # "none" => mv'.phase # "none")
    BY <1>e, <2>4 DEF TypedMove
  <2>7. i' \in 0 .. Len(story.links) + 1 /\ first' \in BOOLEAN
    BY <1>e, <2>4 DEF TypedLocal
  <2>8. sub' \in Calls /\ ok' \in BOOLEAN
    BY <1>0, <1>e, <1>11, <2>3 DEF RenameRemove, RenameConflict, At, Go, FilesStay, RenameStays,
         MoveStays, Frame, Ended, TypedLocal
  <2>9. TypedRename'
    BY <1>0, <1>e, <1>11, <2>3, <2>4 DEF RenameRemove, RenameConflict, At, Go, FilesStay,
         RenameStays, MoveStays, Frame, Ended, TypedRename, TypedLocal
  <2>10. TypedFiles'
    BY <1>e, <2>4 DEF TypedFiles
  <2>11. Journalled'
    BY <1>j, <2>1, <2>4, <2>5, <2>6 DEF Journalled, InMove, InRename, InUndo
  <2>12. Indexed'
    BY <1>0, <1>e, <1>j, <1>11, <2>3, <2>1, <2>4, <2>5 DEF RenameRemove, RenameConflict, At, Go,
         FilesStay, RenameStays, MoveStays, Frame, Indexed, TypedLocal
  <2>13. Called'
    BY <1>0, <1>e, <1>j, <1>11, <2>3, <2>1, <2>4, <2>5 DEF Called, Calls
  <2>14. QED
    BY <1>e, <2>4, <2>5, <2>6, <2>7, <2>8, <2>9, <2>10, <2>11, <2>12, <2>13
       DEF TypeOK, Placed, TypedFiles, TypedRename, TypedLabels, Journalled, Label, Moves,
            Statuses
<1>12. CASE RenameClaim
  <2>1. at = "r-claim" /\ sub.step = "none"
    BY <1>12 DEF RenameClaim, At
  <2>3. /\ RenameEnds("manual-conflict") => Ended("manual-conflict")
    BY <1>0, <1>e, JournalEffects DEF Outcome, Published, TypedLocal
  <2>4. UNCHANGED <<story, copies, draft, mv, rn, aside, kept, mode, i, first, sub, ret,
                    touched, spent>>
    BY <1>12 DEF RenameClaim, RenameConflict, At, Go, RenameStays, MoveStays, Frame
  <2>5. at' \in {"r-removed", "r-retire"}
    BY <1>0, <1>12, <2>3 DEF RenameClaim, RenameConflict, At, Go, RenameStays, MoveStays, Frame,
         Ended
  <2>6. mv' \in Moves /\ (mv'.phase = "none" \/ mv'.status \in Statuses)
        /\ (mv.phase # "none" => mv'.phase # "none")
    BY <1>e, <2>4 DEF TypedMove
  <2>7. i' \in 0 .. Len(story.links) + 1 /\ first' \in BOOLEAN
    BY <1>e, <2>4 DEF TypedLocal
  <2>8. sub' \in Calls /\ ok' \in BOOLEAN
    BY <1>0, <1>e, <1>12, <2>3 DEF RenameClaim, RenameConflict, At, Go, RenameStays, MoveStays,
         Frame, Ended, TypedLocal
  <2>9. TypedRename'
    BY <1>0, <1>e, <1>12, <2>3, <2>4 DEF RenameClaim, RenameConflict, At, Go, RenameStays,
         MoveStays, Frame, Ended, TypedRename, TypedLocal
  <2>10. TypedFiles'
    BY <1>0, <1>e, <1>j, <1>12, <2>3, <2>4 DEF RenameClaim, RenameConflict, At, Go, RenameStays,
         MoveStays, Frame, TypedFiles, TypedLocal, Content, Calls, Called, NoDraft
  <2>11. Journalled'
    BY <1>j, <2>1, <2>4, <2>5, <2>6 DEF Journalled, InMove, InRename, InUndo
  <2>12. Indexed'
    BY <1>0, <1>e, <1>j, <1>12, <2>3, <2>1, <2>4, <2>5 DEF RenameClaim, RenameConflict, At, Go,
         RenameStays, MoveStays, Frame, Indexed, TypedLocal
  <2>13. Called'
    BY <1>0, <1>e, <1>j, <1>12, <2>3, <2>1, <2>4, <2>5 DEF Called, Calls
  <2>14. QED
    BY <1>e, <2>4, <2>5, <2>6, <2>7, <2>8, <2>9, <2>10, <2>11, <2>12, <2>13
       DEF TypeOK, Placed, TypedFiles, TypedRename, TypedLabels, Journalled, Label, Moves,
            Statuses
<1>13. CASE RenameRemoved
  <2>1. at = "r-removed" /\ sub.step = "none"
    BY <1>13 DEF RenameRemoved, At
  <2>3. /\ RenameEnds("committed") => Ended("committed")
        /\ RenameEnds("manual-conflict") => Ended("manual-conflict")
        /\ Install(<<"rn", "evidence">>, Src, "r-restored")
              => Installs(<<"rn", "evidence">>, Src) /\ at' = "r-restored"
    BY <1>0, <1>e, JournalEffects, CallEffects DEF Outcome, Published, Label, Aside, TypedLocal
  <2>4. UNCHANGED <<story, disk, copies, draft, mv, aside, kept, mode, i, first, ret,
                    touched, spent>>
    BY <1>13 DEF RenameRemoved, RenameConflict, At, FilesStay, MoveStays, Frame
  <2>5. at' \in {"r-restored", "r-retire"}
    BY <1>0, <1>13, <2>3 DEF RenameRemoved, RenameConflict, At, FilesStay, MoveStays, Frame,
         Ended
  <2>6. mv' \in Moves /\ (mv'.phase = "none" \/ mv'.status \in Statuses)
        /\ (mv.phase # "none" => mv'.phase # "none")
    BY <1>e, <2>4 DEF TypedMove
  <2>7. i' \in 0 .. Len(story.links) + 1 /\ first' \in BOOLEAN
    BY <1>e, <2>4 DEF TypedLocal
  <2>8. sub' \in Calls /\ ok' \in BOOLEAN
    BY <1>0, <1>e, <1>13, <2>3 DEF RenameRemoved, RenameConflict, At, FilesStay, MoveStays,
         Frame, Ended, Installs, TypedLocal
  <2>9. TypedRename'
    BY <1>0, <1>e, <1>13, <2>3, <2>4 DEF RenameRemoved, RenameConflict, At, FilesStay,
         MoveStays, Frame, Ended, TypedRename, TypedLocal
  <2>10. TypedFiles'
    BY <1>e, <2>4 DEF TypedFiles
  <2>n. rn' # "none" \/ rn' = rn
    BY <1>13 DEF RenameRemoved
  <2>11. Journalled'
    BY <1>j, <2>1, <2>4, <2>5, <2>6, <2>n DEF Journalled, InMove, InRename, InUndo
  <2>12. Indexed'
    BY <1>0, <1>e, <1>j, <1>13, <2>3, <2>1, <2>4, <2>5 DEF RenameRemoved, RenameConflict, At,
         FilesStay, MoveStays, Frame, Indexed, TypedLocal
  <2>13. Called'
    BY <1>0, <1>e, <1>j, <1>13, <2>3, <2>1, <2>4, <2>5 DEF RenameRemoved, RenameConflict, At,
         FilesStay, MoveStays, Frame, Installs, UndoFor, Called, Calls
  <2>14. QED
    BY <1>e, <2>4, <2>5, <2>6, <2>7, <2>8, <2>9, <2>10, <2>11, <2>12, <2>13
       DEF TypeOK, Placed, TypedFiles, TypedRename, TypedLabels, Journalled, Label, Moves,
            Statuses
<1>14. CASE RenameRestored
  <2>1. at = "r-restored" /\ sub.step = "none"
    BY <1>14 DEF RenameRestored, At
  <2>3. /\ RenameEnds("manual-conflict") => Ended("manual-conflict")
    BY <1>0, <1>e, JournalEffects DEF Outcome, Published, TypedLocal
  <2>4. UNCHANGED <<story, disk, copies, draft, mv, rn, aside, kept, mode, i, first, sub,
                    ret, touched, spent>>
    BY <1>14 DEF RenameRestored, RenameConflict, At, FilesStay, RenameStays, MoveStays, Frame
  <2>5. at' \in {"r-retire"}
    BY <1>0, <1>14, <2>3 DEF RenameRestored, RenameConflict, At, FilesStay, RenameStays,
         MoveStays, Frame, Ended
  <2>6. mv' \in Moves /\ (mv'.phase = "none" \/ mv'.status \in Statuses)
        /\ (mv.phase # "none" => mv'.phase # "none")
    BY <1>e, <2>4 DEF TypedMove
  <2>7. i' \in 0 .. Len(story.links) + 1 /\ first' \in BOOLEAN
    BY <1>e, <2>4 DEF TypedLocal
  <2>8. sub' \in Calls /\ ok' \in BOOLEAN
    BY <1>0, <1>e, <1>14, <2>3 DEF RenameRestored, RenameConflict, At, FilesStay, RenameStays,
         MoveStays, Frame, Ended, TypedLocal
  <2>9. TypedRename'
    BY <1>0, <1>e, <1>14, <2>3, <2>4 DEF RenameRestored, RenameConflict, At, FilesStay,
         RenameStays, MoveStays, Frame, Ended, TypedRename, TypedLocal
  <2>10. TypedFiles'
    BY <1>e, <2>4 DEF TypedFiles
  <2>11. Journalled'
    BY <1>j, <2>1, <2>4, <2>5, <2>6 DEF Journalled, InMove, InRename, InUndo
  <2>12. Indexed'
    BY <1>0, <1>e, <1>j, <1>14, <2>3, <2>1, <2>4, <2>5 DEF RenameRestored, RenameConflict, At,
         FilesStay, RenameStays, MoveStays, Frame, Indexed, TypedLocal
  <2>13. Called'
    BY <1>0, <1>e, <1>j, <1>14, <2>3, <2>1, <2>4, <2>5 DEF Called, Calls
  <2>14. QED
    BY <1>e, <2>4, <2>5, <2>6, <2>7, <2>8, <2>9, <2>10, <2>11, <2>12, <2>13
       DEF TypeOK, Placed, TypedFiles, TypedRename, TypedLabels, Journalled, Label, Moves,
            Statuses
<1>15. CASE RenameRetire
  <2>1. at = "r-retire" /\ sub.step = "none"
    BY <1>15 DEF RenameRetire, At
  <2>4. UNCHANGED <<story, disk, copies, draft, mv, receipt, mode, i, first, sub, ok, ret,
                    touched, spent>>
    BY <1>15 DEF RenameRetire, At, Go, FilesStay, MoveStays, Frame
  <2>5. at' \in {"idle", "renamed", "recover"}
    BY <1>0, <1>15, <1>j DEF RenameRetire, At, Go, FilesStay, MoveStays, Frame, Journalled
  <2>6. mv' \in Moves /\ (mv'.phase = "none" \/ mv'.status \in Statuses)
        /\ (mv.phase # "none" => mv'.phase # "none")
    BY <1>e, <2>4 DEF TypedMove
  <2>7. i' \in 0 .. Len(story.links) + 1 /\ first' \in BOOLEAN
    BY <1>e, <2>4 DEF TypedLocal
  <2>8. sub' \in Calls /\ ok' \in BOOLEAN
    BY <1>e, <2>4 DEF TypedLocal
  <2>9. TypedRename'
    BY <1>0, <1>e, <1>15, <2>4 DEF RenameRetire, At, Go, FilesStay, MoveStays, Frame,
         TypedRename, TypedLocal, Private, Aside
  <2>10. TypedFiles'
    BY <1>e, <2>4 DEF TypedFiles
  <2>n. at' = ret
    BY <1>15, <2>1 DEF RenameRetire, Go
  <2>11. Journalled'
    BY <1>j, <2>1, <2>4, <2>5, <2>6, <2>n DEF Journalled, InMove, InRename, InUndo
  <2>12. Indexed'
    BY <1>0, <1>e, <1>j, <1>15, <2>1, <2>4, <2>5 DEF RenameRetire, At, Go, FilesStay, MoveStays,
         Frame, Indexed, TypedLocal
  <2>13. Called'
    BY <1>0, <1>e, <1>j, <1>15, <2>1, <2>4, <2>5 DEF Called, Calls
  <2>14. QED
    BY <1>e, <2>4, <2>5, <2>6, <2>7, <2>8, <2>9, <2>10, <2>11, <2>12, <2>13
       DEF TypeOK, Placed, TypedFiles, TypedRename, TypedLabels, Journalled, Label, Moves,
            Statuses
<1>16. QED
  BY <1>1, <1>2, <1>3, <1>4, <1>5, <1>6, <1>7, <1>8, <1>9, <1>10, <1>11, <1>12, <1>13, <1>14,
     <1>15 DEF Renaming

(* So does every step of the recovery.                                     *)
LEMMA RecoveringTyped ==
  ASSUME TypeOK, Placed, Recovering
  PROVE  TypeOK' /\ Placed'
<1>0. /\ Len(story.links) \in Nat /\ DOMAIN story.links = 1 .. Len(story.links)
      /\ Src \in File /\ Dst \in File /\ Rev \in {"old", "new"}
      /\ \A k \in 1 .. Len(story.links) : story.links[k] \in File
  BY Links, RevOwn
<1>e. TypedFiles /\ TypedMove /\ TypedRename /\ TypedLocal /\ TypedLabels
  BY DEF TypeOK, TypedFiles, TypedMove, TypedRename, TypedLocal, TypedLabels
<1>j. Journalled /\ Indexed /\ Called
  BY DEF Placed
<1>1. CASE RecoverWrite
  <2>1. at = "recover" /\ sub.step = "none"
    BY <1>1 DEF RecoverWrite, At
  <2>4. UNCHANGED <<story, disk, mv, rn, aside, kept, receipt, mode, at, i, first, sub, ok,
                    ret, touched, spent>>
    BY <1>1 DEF RecoverWrite, local, At, RenameStays, Frame
  <2>5. at' \in {at}
    BY <1>0, <1>1 DEF RecoverWrite, local, At, RenameStays, Frame
  <2>6. mv' \in Moves /\ (mv'.phase = "none" \/ mv'.status \in Statuses)
        /\ (mv.phase # "none" => mv'.phase # "none")
    BY <1>e, <2>4 DEF TypedMove
  <2>7. i' \in 0 .. Len(story.links) + 1 /\ first' \in BOOLEAN
    BY <1>e, <2>4 DEF TypedLocal
  <2>8. sub' \in Calls /\ ok' \in BOOLEAN
    BY <1>e, <2>4 DEF TypedLocal
  <2>9. TypedRename'
    BY <1>e, <2>4 DEF TypedRename
  <2>10. TypedFiles'
    BY <1>0, <1>e, <1>j, <1>1, <2>4 DEF RecoverWrite, local, At, RenameStays, Frame, TypedFiles,
         TypedLocal, Content, Calls, Called, NoDraft
  <2>11. Journalled'
    BY <1>j, <2>1, <2>4, <2>5, <2>6 DEF Journalled, InMove, InRename, InUndo
  <2>12. Indexed'
    BY <1>0, <1>e, <1>j, <1>1, <2>1, <2>4, <2>5 DEF Indexed, TypedLocal
  <2>13. Called'
    BY <1>0, <1>e, <1>j, <1>1, <2>1, <2>4, <2>5 DEF Called, Calls
  <2>14. QED
    BY <1>e, <2>4, <2>5, <2>6, <2>7, <2>8, <2>9, <2>10, <2>11, <2>12, <2>13
       DEF TypeOK, Placed, TypedFiles, TypedRename, TypedLabels, Journalled, Label, Moves,
            Statuses
<1>2. CASE RecoverJournal
  <2>1. at = "recover" /\ sub.step = "none"
    BY <1>2 DEF RecoverJournal, At
  <2>4. UNCHANGED <<story, disk, copies, draft, mv, rn, aside, kept, receipt, mode, i, first,
                    sub, ok, touched, spent>>
    BY <1>2 DEF RecoverJournal, At, Go, FilesStay, RenameStays, MoveStays, Frame
  <2>5. at' \in {"rec-rename", "continue"}
    BY <1>0, <1>2 DEF RecoverJournal, At, Go, FilesStay, RenameStays, MoveStays, Frame
  <2>6. mv' \in Moves /\ (mv'.phase = "none" \/ mv'.status \in Statuses)
        /\ (mv.phase # "none" => mv'.phase # "none")
    BY <1>e, <2>4 DEF TypedMove
  <2>7. i' \in 0 .. Len(story.links) + 1 /\ first' \in BOOLEAN
    BY <1>e, <2>4 DEF TypedLocal
  <2>8. sub' \in Calls /\ ok' \in BOOLEAN
    BY <1>e, <2>4 DEF TypedLocal
  <2>9. TypedRename'
    BY <1>e, <2>4 DEF TypedRename
  <2>10. TypedFiles'
    BY <1>e, <2>4 DEF TypedFiles
  <2>11. Journalled'
    BY <1>j, <2>1, <2>4, <2>5, <2>6, <1>2 DEF RecoverJournal, Go, Journalled, InMove,
         InRename, InUndo
  <2>12. Indexed'
    BY <1>0, <1>e, <1>j, <1>2, <2>1, <2>4, <2>5 DEF RecoverJournal, At, Go, FilesStay,
         RenameStays, MoveStays, Frame, Indexed, TypedLocal
  <2>13. Called'
    BY <1>0, <1>e, <1>j, <1>2, <2>1, <2>4, <2>5 DEF Called, Calls
  <2>14. QED
    BY <1>e, <2>4, <2>5, <2>6, <2>7, <2>8, <2>9, <2>10, <2>11, <2>12, <2>13
       DEF TypeOK, Placed, TypedFiles, TypedRename, TypedLabels, Journalled, Label, Moves,
            Statuses
<1>3. CASE RecoverRename
  <2>1. at = "rec-rename" /\ sub.step = "none"
    BY <1>3 DEF RecoverRename, At
  <2>3. /\ RenameEnds("committed") => Ended("committed")
        /\ RenameEnds("manual-conflict") => Ended("manual-conflict")
    BY <1>0, <1>e, JournalEffects DEF Outcome, Published, TypedLocal
  <2>4. UNCHANGED <<story, copies, draft, mv, rn, aside, kept, mode, i, first, sub, ret,
                    touched, spent>>
    BY <1>3 DEF RecoverRename, RenameConflict, At, Go, RenameStays, MoveStays, Frame
  <2>5. at' \in {"undo", "rec-evidence", "rec-stage", "r-retire"}
    BY <1>0, <1>3, <2>3 DEF RecoverRename, RenameConflict, At, Go, RenameStays, MoveStays,
         Frame, Ended
  <2>6. mv' \in Moves /\ (mv'.phase = "none" \/ mv'.status \in Statuses)
        /\ (mv.phase # "none" => mv'.phase # "none")
    BY <1>e, <2>4 DEF TypedMove
  <2>7. i' \in 0 .. Len(story.links) + 1 /\ first' \in BOOLEAN
    BY <1>e, <2>4 DEF TypedLocal
  <2>8. sub' \in Calls /\ ok' \in BOOLEAN
    BY <1>0, <1>e, <1>3, <2>3 DEF RecoverRename, RenameConflict, At, Go, RenameStays, MoveStays,
         Frame, Ended, TypedLocal
  <2>9. TypedRename'
    BY <1>0, <1>e, <1>3, <2>3, <2>4 DEF RecoverRename, RenameConflict, At, Go, RenameStays,
         MoveStays, Frame, Ended, TypedRename, TypedLocal
  <2>10. TypedFiles'
    BY <1>0, <1>e, <1>j, <1>3, <2>3, <2>4 DEF RecoverRename, RenameConflict, At, Go,
         RenameStays, MoveStays, Frame, TypedFiles, TypedLocal, Content, Calls, Called, NoDraft
  <2>11. Journalled'
    BY <1>j, <2>1, <2>4, <2>5, <2>6 DEF Journalled, InMove, InRename, InUndo
  <2>12. Indexed'
    BY <1>0, <1>e, <1>j, <1>3, <2>3, <2>1, <2>4, <2>5 DEF RecoverRename, RenameConflict, At, Go,
         RenameStays, MoveStays, Frame, Indexed, TypedLocal
  <2>13. Called'
    BY <1>0, <1>e, <1>j, <1>3, <2>3, <2>1, <2>4, <2>5 DEF Called, Calls
  <2>14. QED
    BY <1>e, <2>4, <2>5, <2>6, <2>7, <2>8, <2>9, <2>10, <2>11, <2>12, <2>13
       DEF TypeOK, Placed, TypedFiles, TypedRename, TypedLabels, Journalled, Label, Moves,
            Statuses
<1>4. CASE RecoverPublished
  <2>1. at = "rec-rename" /\ sub.step = "none"
    BY <1>4 DEF RecoverPublished, At
  <2>3. /\ RenameEnds("manual-conflict") => Ended("manual-conflict")
    BY <1>0, <1>e, JournalEffects DEF Outcome, Published, TypedLocal
  <2>4. UNCHANGED <<story, disk, copies, draft, mv, rn, aside, kept, mode, i, first, sub,
                    ret, touched, spent>>
    BY <1>4 DEF RecoverPublished, RenameConflict, At, Go, FilesStay, RenameStays, MoveStays,
         Frame
  <2>5. at' \in {"rec-published", "rec-publish", "r-retire"}
    BY <1>0, <1>4, <2>3 DEF RecoverPublished, RenameConflict, At, Go, FilesStay, RenameStays,
         MoveStays, Frame, Ended
  <2>6. mv' \in Moves /\ (mv'.phase = "none" \/ mv'.status \in Statuses)
        /\ (mv.phase # "none" => mv'.phase # "none")
    BY <1>e, <2>4 DEF TypedMove
  <2>7. i' \in 0 .. Len(story.links) + 1 /\ first' \in BOOLEAN
    BY <1>e, <2>4 DEF TypedLocal
  <2>8. sub' \in Calls /\ ok' \in BOOLEAN
    BY <1>0, <1>e, <1>4, <2>3 DEF RecoverPublished, RenameConflict, At, Go, FilesStay,
         RenameStays, MoveStays, Frame, Ended, TypedLocal
  <2>9. TypedRename'
    BY <1>0, <1>e, <1>4, <2>3, <2>4 DEF RecoverPublished, RenameConflict, At, Go, FilesStay,
         RenameStays, MoveStays, Frame, Ended, TypedRename, TypedLocal
  <2>10. TypedFiles'
    BY <1>e, <2>4 DEF TypedFiles
  <2>11. Journalled'
    BY <1>j, <2>1, <2>4, <2>5, <2>6 DEF Journalled, InMove, InRename, InUndo
  <2>12. Indexed'
    BY <1>0, <1>e, <1>j, <1>4, <2>3, <2>1, <2>4, <2>5 DEF RecoverPublished, RenameConflict, At,
         Go, FilesStay, RenameStays, MoveStays, Frame, Indexed, TypedLocal
  <2>13. Called'
    BY <1>0, <1>e, <1>j, <1>4, <2>3, <2>1, <2>4, <2>5 DEF Called, Calls
  <2>14. QED
    BY <1>e, <2>4, <2>5, <2>6, <2>7, <2>8, <2>9, <2>10, <2>11, <2>12, <2>13
       DEF TypeOK, Placed, TypedFiles, TypedRename, TypedLabels, Journalled, Label, Moves,
            Statuses
<1>5. CASE RecoverPublish
  <2>1. at = "rec-publish" /\ sub.step = "none"
    BY <1>5 DEF RecoverPublish, At, RenameStays
  <2>3. /\ RenameEnds("manual-conflict") => Ended("manual-conflict")
    BY <1>0, <1>e, JournalEffects DEF Outcome, Published, TypedLocal
  <2>4. UNCHANGED <<story, copies, draft, mv, rn, kept, mode, i, first, sub, ret, touched,
                    spent>>
    BY <1>5 DEF RecoverPublish, RenameConflict, NativePublish, At, Go, MoveStays, Frame, RenameStays
  <2>5. at' \in {"rec-published", "r-retire"}
    BY <1>0, <1>5, <2>3 DEF RecoverPublish, RenameConflict, NativePublish, At, Go, MoveStays,
         Frame, Ended, RenameStays
  <2>6. mv' \in Moves /\ (mv'.phase = "none" \/ mv'.status \in Statuses)
        /\ (mv.phase # "none" => mv'.phase # "none")
    BY <1>e, <2>4 DEF TypedMove
  <2>7. i' \in 0 .. Len(story.links) + 1 /\ first' \in BOOLEAN
    BY <1>e, <2>4 DEF TypedLocal
  <2>8. sub' \in Calls /\ ok' \in BOOLEAN
    BY <1>0, <1>e, <1>5, <2>3 DEF RecoverPublish, RenameConflict, NativePublish, At, Go,
         MoveStays, Frame, Ended, TypedLocal, RenameStays
  <2>9. TypedRename'
    BY <1>0, <1>e, <1>5, <2>3, <2>4 DEF RecoverPublish, RenameConflict, NativePublish, At, Go,
         MoveStays, Frame, Ended, TypedRename, TypedLocal, Private, Aside, RenameStays
  <2>10. TypedFiles'
    BY <1>0, <1>e, <1>j, <1>5, <2>3, <2>4 DEF RecoverPublish, RenameConflict, NativePublish, At,
         Go, MoveStays, Frame, TypedFiles, TypedLocal, Content, Calls, Called, NoDraft, RenameStays
  <2>11. Journalled'
    BY <1>j, <2>1, <2>4, <2>5, <2>6 DEF Journalled, InMove, InRename, InUndo
  <2>12. Indexed'
    BY <1>0, <1>e, <1>j, <1>5, <2>3, <2>1, <2>4, <2>5 DEF RecoverPublish, RenameConflict,
         NativePublish, At, Go, MoveStays, Frame, Indexed, TypedLocal, RenameStays
  <2>13. Called'
    BY <1>0, <1>e, <1>j, <1>5, <2>3, <2>1, <2>4, <2>5 DEF Called, Calls
  <2>14. QED
    BY <1>e, <2>4, <2>5, <2>6, <2>7, <2>8, <2>9, <2>10, <2>11, <2>12, <2>13
       DEF TypeOK, Placed, TypedFiles, TypedRename, TypedLabels, Journalled, Label, Moves,
            Statuses
<1>6. CASE RecoverPublishedEnd
  <2>1. at = "rec-published" /\ sub.step = "none"
    BY <1>6 DEF RecoverPublishedEnd, At
  <2>3. /\ RenameEnds(Published) => Ended(Published)
        /\ RenameEnds("manual-conflict") => Ended("manual-conflict")
    BY <1>0, <1>e, JournalEffects DEF Outcome, Published, TypedLocal
  <2>4. UNCHANGED <<story, disk, copies, draft, mv, rn, aside, kept, mode, i, first, sub,
                    ret, touched, spent>>
    BY <1>6 DEF RecoverPublishedEnd, RenameConflict, At, FilesStay, RenameStays, MoveStays,
         Frame
  <2>5. at' \in {"r-retire"}
    BY <1>0, <1>6, <2>3 DEF RecoverPublishedEnd, RenameConflict, At, FilesStay, RenameStays,
         MoveStays, Frame, Ended
  <2>6. mv' \in Moves /\ (mv'.phase = "none" \/ mv'.status \in Statuses)
        /\ (mv.phase # "none" => mv'.phase # "none")
    BY <1>e, <2>4 DEF TypedMove
  <2>7. i' \in 0 .. Len(story.links) + 1 /\ first' \in BOOLEAN
    BY <1>e, <2>4 DEF TypedLocal
  <2>8. sub' \in Calls /\ ok' \in BOOLEAN
    BY <1>0, <1>e, <1>6, <2>3 DEF RecoverPublishedEnd, RenameConflict, At, FilesStay,
         RenameStays, MoveStays, Frame, Ended, TypedLocal
  <2>9. TypedRename'
    BY <1>0, <1>e, <1>6, <2>3, <2>4 DEF RecoverPublishedEnd, RenameConflict, At, FilesStay,
         RenameStays, MoveStays, Frame, Ended, TypedRename, TypedLocal
  <2>10. TypedFiles'
    BY <1>e, <2>4 DEF TypedFiles
  <2>11. Journalled'
    BY <1>j, <2>1, <2>4, <2>5, <2>6 DEF Journalled, InMove, InRename, InUndo
  <2>12. Indexed'
    BY <1>0, <1>e, <1>j, <1>6, <2>3, <2>1, <2>4, <2>5 DEF RecoverPublishedEnd, RenameConflict,
         At, FilesStay, RenameStays, MoveStays, Frame, Indexed, TypedLocal
  <2>13. Called'
    BY <1>0, <1>e, <1>j, <1>6, <2>3, <2>1, <2>4, <2>5 DEF Called, Calls
  <2>14. QED
    BY <1>e, <2>4, <2>5, <2>6, <2>7, <2>8, <2>9, <2>10, <2>11, <2>12, <2>13
       DEF TypeOK, Placed, TypedFiles, TypedRename, TypedLabels, Journalled, Label, Moves,
            Statuses
<1>7. CASE RecoverUndone
  <2>1. at = "rec-undone" /\ sub.step = "none"
    BY <1>7 DEF RecoverUndone, At
  <2>3. /\ RenameEnds("manual-conflict") => Ended("manual-conflict")
    BY <1>0, <1>e, JournalEffects DEF Outcome, Published, TypedLocal
  <2>4. UNCHANGED <<story, disk, copies, draft, mv, rn, aside, kept, mode, i, first, sub,
                    ret, touched, spent>>
    BY <1>7 DEF RecoverUndone, RenameConflict, At, FilesStay, RenameStays, MoveStays, Frame
  <2>5. at' \in {"r-retire"}
    BY <1>0, <1>7, <2>3 DEF RecoverUndone, RenameConflict, At, FilesStay, RenameStays,
         MoveStays, Frame, Ended
  <2>6. mv' \in Moves /\ (mv'.phase = "none" \/ mv'.status \in Statuses)
        /\ (mv.phase # "none" => mv'.phase # "none")
    BY <1>e, <2>4 DEF TypedMove
  <2>7. i' \in 0 .. Len(story.links) + 1 /\ first' \in BOOLEAN
    BY <1>e, <2>4 DEF TypedLocal
  <2>8. sub' \in Calls /\ ok' \in BOOLEAN
    BY <1>0, <1>e, <1>7, <2>3 DEF RecoverUndone, RenameConflict, At, FilesStay, RenameStays,
         MoveStays, Frame, Ended, TypedLocal
  <2>9. TypedRename'
    BY <1>0, <1>e, <1>7, <2>3, <2>4 DEF RecoverUndone, RenameConflict, At, FilesStay,
         RenameStays, MoveStays, Frame, Ended, TypedRename, TypedLocal
  <2>10. TypedFiles'
    BY <1>e, <2>4 DEF TypedFiles
  <2>11. Journalled'
    BY <1>j, <2>1, <2>4, <2>5, <2>6 DEF Journalled, InMove, InRename, InUndo
  <2>12. Indexed'
    BY <1>0, <1>e, <1>j, <1>7, <2>3, <2>1, <2>4, <2>5 DEF RecoverUndone, RenameConflict, At,
         FilesStay, RenameStays, MoveStays, Frame, Indexed, TypedLocal
  <2>13. Called'
    BY <1>0, <1>e, <1>j, <1>7, <2>3, <2>1, <2>4, <2>5 DEF Called, Calls
  <2>14. QED
    BY <1>e, <2>4, <2>5, <2>6, <2>7, <2>8, <2>9, <2>10, <2>11, <2>12, <2>13
       DEF TypeOK, Placed, TypedFiles, TypedRename, TypedLabels, Journalled, Label, Moves,
            Statuses
<1>8. CASE RecoverStage
  <2>1. at = "rec-stage" /\ sub.step = "none"
    BY <1>8 DEF RecoverStage, At
  <2>3. /\ RenameEnds("manual-conflict") => Ended("manual-conflict")
        /\ Install(<<"rn", "blob">>, Dst, "rec-installed")
              => Installs(<<"rn", "blob">>, Dst) /\ at' = "rec-installed"
    BY <1>0, <1>e, JournalEffects, CallEffects DEF Outcome, Published, Label, Aside, TypedLocal
  <2>4. UNCHANGED <<story, disk, copies, draft, mv, kept, mode, i, first, ret, touched, spent>>
    BY <1>8 DEF RecoverStage, RenameConflict, At, Go, FilesStay, MoveStays, Frame
  <2>5. at' \in {"rec-blob", "rec-installed", "r-retire"}
    BY <1>0, <1>8, <2>3 DEF RecoverStage, RenameConflict, At, Go, FilesStay, MoveStays, Frame,
         Ended
  <2>6. mv' \in Moves /\ (mv'.phase = "none" \/ mv'.status \in Statuses)
        /\ (mv.phase # "none" => mv'.phase # "none")
    BY <1>e, <2>4 DEF TypedMove
  <2>7. i' \in 0 .. Len(story.links) + 1 /\ first' \in BOOLEAN
    BY <1>e, <2>4 DEF TypedLocal
  <2>8. sub' \in Calls /\ ok' \in BOOLEAN
    BY <1>0, <1>e, <1>8, <2>3 DEF RecoverStage, RenameConflict, At, Go, FilesStay, MoveStays,
         Frame, Ended, Installs, TypedLocal
  <2>9. TypedRename'
    BY <1>0, <1>e, <1>8, <2>3, <2>4 DEF RecoverStage, RenameConflict, At, Go, FilesStay,
         MoveStays, Frame, Ended, TypedRename, TypedLocal, Private, Aside
  <2>10. TypedFiles'
    BY <1>e, <2>4 DEF TypedFiles
  <2>n. rn' # "none" \/ rn' = rn
    BY <1>8 DEF RecoverStage
  <2>11. Journalled'
    BY <1>j, <2>1, <2>4, <2>5, <2>6, <2>n DEF Journalled, InMove, InRename, InUndo
  <2>12. Indexed'
    BY <1>0, <1>e, <1>j, <1>8, <2>3, <2>1, <2>4, <2>5 DEF RecoverStage, RenameConflict, At, Go,
         FilesStay, MoveStays, Frame, Indexed, TypedLocal
  <2>13. Called'
    BY <1>0, <1>e, <1>j, <1>8, <2>3, <2>1, <2>4, <2>5 DEF RecoverStage, RenameConflict, At, Go,
         FilesStay, MoveStays, Frame, Installs, UndoFor, Called, Calls
  <2>14. QED
    BY <1>e, <2>4, <2>5, <2>6, <2>7, <2>8, <2>9, <2>10, <2>11, <2>12, <2>13
       DEF TypeOK, Placed, TypedFiles, TypedRename, TypedLabels, Journalled, Label, Moves,
            Statuses
<1>9. CASE RecoverBlob
  <2>1. at = "rec-blob" /\ sub.step = "none"
    BY <1>9 DEF RecoverBlob, At
  <2>4. UNCHANGED <<story, disk, copies, draft, mv, rn, kept, receipt, mode, i, first, sub,
                    ok, ret, touched, spent>>
    BY <1>9 DEF RecoverBlob, At, Go, FilesStay, MoveStays, Frame
  <2>5. at' \in {"rec-stage"}
    BY <1>0, <1>9 DEF RecoverBlob, At, Go, FilesStay, MoveStays, Frame
  <2>6. mv' \in Moves /\ (mv'.phase = "none" \/ mv'.status \in Statuses)
        /\ (mv.phase # "none" => mv'.phase # "none")
    BY <1>e, <2>4 DEF TypedMove
  <2>7. i' \in 0 .. Len(story.links) + 1 /\ first' \in BOOLEAN
    BY <1>e, <2>4 DEF TypedLocal
  <2>8. sub' \in Calls /\ ok' \in BOOLEAN
    BY <1>e, <2>4 DEF TypedLocal
  <2>9. TypedRename'
    BY <1>0, <1>e, <1>9, <2>4 DEF RecoverBlob, At, Go, FilesStay, MoveStays, Frame, TypedRename,
         TypedLocal, Private, Aside
  <2>10. TypedFiles'
    BY <1>e, <2>4 DEF TypedFiles
  <2>11. Journalled'
    BY <1>j, <2>1, <2>4, <2>5, <2>6 DEF Journalled, InMove, InRename, InUndo
  <2>12. Indexed'
    BY <1>0, <1>e, <1>j, <1>9, <2>1, <2>4, <2>5 DEF RecoverBlob, At, Go, FilesStay, MoveStays,
         Frame, Indexed, TypedLocal
  <2>13. Called'
    BY <1>0, <1>e, <1>j, <1>9, <2>1, <2>4, <2>5 DEF Called, Calls
  <2>14. QED
    BY <1>e, <2>4, <2>5, <2>6, <2>7, <2>8, <2>9, <2>10, <2>11, <2>12, <2>13
       DEF TypeOK, Placed, TypedFiles, TypedRename, TypedLabels, Journalled, Label, Moves,
            Statuses
<1>10. CASE RecoverInstalled
  <2>1. at = "rec-installed" /\ sub.step = "none"
    BY <1>10 DEF RecoverInstalled, At
  <2>3. /\ RenameEnds("manual-conflict") => Ended("manual-conflict")
    BY <1>0, <1>e, JournalEffects DEF Outcome, Published, TypedLocal
  <2>4. UNCHANGED <<story, disk, copies, draft, mv, rn, aside, kept, mode, i, first, sub,
                    ret, touched, spent>>
    BY <1>10 DEF RecoverInstalled, RenameConflict, At, Go, FilesStay, RenameStays, MoveStays,
         Frame
  <2>5. at' \in {"rec-evidence", "r-retire"}
    BY <1>0, <1>10, <2>3 DEF RecoverInstalled, RenameConflict, At, Go, FilesStay, RenameStays,
         MoveStays, Frame, Ended
  <2>6. mv' \in Moves /\ (mv'.phase = "none" \/ mv'.status \in Statuses)
        /\ (mv.phase # "none" => mv'.phase # "none")
    BY <1>e, <2>4 DEF TypedMove
  <2>7. i' \in 0 .. Len(story.links) + 1 /\ first' \in BOOLEAN
    BY <1>e, <2>4 DEF TypedLocal
  <2>8. sub' \in Calls /\ ok' \in BOOLEAN
    BY <1>0, <1>e, <1>10, <2>3 DEF RecoverInstalled, RenameConflict, At, Go, FilesStay,
         RenameStays, MoveStays, Frame, Ended, TypedLocal
  <2>9. TypedRename'
    BY <1>0, <1>e, <1>10, <2>3, <2>4 DEF RecoverInstalled, RenameConflict, At, Go, FilesStay,
         RenameStays, MoveStays, Frame, Ended, TypedRename, TypedLocal
  <2>10. TypedFiles'
    BY <1>e, <2>4 DEF TypedFiles
  <2>11. Journalled'
    BY <1>j, <2>1, <2>4, <2>5, <2>6 DEF Journalled, InMove, InRename, InUndo
  <2>12. Indexed'
    BY <1>0, <1>e, <1>j, <1>10, <2>3, <2>1, <2>4, <2>5 DEF RecoverInstalled, RenameConflict, At,
         Go, FilesStay, RenameStays, MoveStays, Frame, Indexed, TypedLocal
  <2>13. Called'
    BY <1>0, <1>e, <1>j, <1>10, <2>3, <2>1, <2>4, <2>5 DEF Called, Calls
  <2>14. QED
    BY <1>e, <2>4, <2>5, <2>6, <2>7, <2>8, <2>9, <2>10, <2>11, <2>12, <2>13
       DEF TypeOK, Placed, TypedFiles, TypedRename, TypedLabels, Journalled, Label, Moves,
            Statuses
<1>11. CASE RecoverEvidence
  <2>1. at = "rec-evidence" /\ sub.step = "none"
    BY <1>11 DEF RecoverEvidence, At
  <2>3. /\ RenameEnds("manual-conflict") => Ended("manual-conflict")
    BY <1>0, <1>e, JournalEffects DEF Outcome, Published, TypedLocal
  <2>4. UNCHANGED <<story, disk, copies, draft, mv, rn, kept, mode, i, first, sub, ret,
                    touched, spent>>
    BY <1>11 DEF RecoverEvidence, RenameConflict, At, Go, FilesStay, MoveStays, Frame
  <2>5. at' \in {"rec-evidence-made", "rec-remove", "r-retire"}
    BY <1>0, <1>11, <2>3 DEF RecoverEvidence, RenameConflict, At, Go, FilesStay, MoveStays,
         Frame, Ended
  <2>6. mv' \in Moves /\ (mv'.phase = "none" \/ mv'.status \in Statuses)
        /\ (mv.phase # "none" => mv'.phase # "none")
    BY <1>e, <2>4 DEF TypedMove
  <2>7. i' \in 0 .. Len(story.links) + 1 /\ first' \in BOOLEAN
    BY <1>e, <2>4 DEF TypedLocal
  <2>8. sub' \in Calls /\ ok' \in BOOLEAN
    BY <1>0, <1>e, <1>11, <2>3 DEF RecoverEvidence, RenameConflict, At, Go, FilesStay,
         MoveStays, Frame, Ended, TypedLocal
  <2>9. TypedRename'
    BY <1>0, <1>e, <1>11, <2>3, <2>4 DEF RecoverEvidence, RenameConflict, At, Go, FilesStay,
         MoveStays, Frame, Ended, TypedRename, TypedLocal, Private, Aside
  <2>10. TypedFiles'
    BY <1>e, <2>4 DEF TypedFiles
  <2>11. Journalled'
    BY <1>j, <2>1, <2>4, <2>5, <2>6 DEF Journalled, InMove, InRename, InUndo
  <2>12. Indexed'
    BY <1>0, <1>e, <1>j, <1>11, <2>3, <2>1, <2>4, <2>5 DEF RecoverEvidence, RenameConflict, At,
         Go, FilesStay, MoveStays, Frame, Indexed, TypedLocal
  <2>13. Called'
    BY <1>0, <1>e, <1>j, <1>11, <2>3, <2>1, <2>4, <2>5 DEF Called, Calls
  <2>14. QED
    BY <1>e, <2>4, <2>5, <2>6, <2>7, <2>8, <2>9, <2>10, <2>11, <2>12, <2>13
       DEF TypeOK, Placed, TypedFiles, TypedRename, TypedLabels, Journalled, Label, Moves,
            Statuses
<1>12. CASE RecoverEvidenceMade
  <2>1. at = "rec-evidence-made" /\ sub.step = "none"
    BY <1>12 DEF RecoverEvidenceMade, At
  <2>4. UNCHANGED <<story, disk, copies, draft, mv, rn, kept, receipt, mode, i, first, sub,
                    ok, ret, touched, spent>>
    BY <1>12 DEF RecoverEvidenceMade, At, Go, FilesStay, MoveStays, Frame
  <2>5. at' \in {"rec-remove"}
    BY <1>0, <1>12 DEF RecoverEvidenceMade, At, Go, FilesStay, MoveStays, Frame
  <2>6. mv' \in Moves /\ (mv'.phase = "none" \/ mv'.status \in Statuses)
        /\ (mv.phase # "none" => mv'.phase # "none")
    BY <1>e, <2>4 DEF TypedMove
  <2>7. i' \in 0 .. Len(story.links) + 1 /\ first' \in BOOLEAN
    BY <1>e, <2>4 DEF TypedLocal
  <2>8. sub' \in Calls /\ ok' \in BOOLEAN
    BY <1>e, <2>4 DEF TypedLocal
  <2>9. TypedRename'
    BY <1>0, <1>e, <1>12, <2>4 DEF RecoverEvidenceMade, At, Go, FilesStay, MoveStays, Frame,
         TypedRename, TypedLocal, Private, Aside
  <2>10. TypedFiles'
    BY <1>e, <2>4 DEF TypedFiles
  <2>11. Journalled'
    BY <1>j, <2>1, <2>4, <2>5, <2>6 DEF Journalled, InMove, InRename, InUndo
  <2>12. Indexed'
    BY <1>0, <1>e, <1>j, <1>12, <2>1, <2>4, <2>5 DEF RecoverEvidenceMade, At, Go, FilesStay,
         MoveStays, Frame, Indexed, TypedLocal
  <2>13. Called'
    BY <1>0, <1>e, <1>j, <1>12, <2>1, <2>4, <2>5 DEF Called, Calls
  <2>14. QED
    BY <1>e, <2>4, <2>5, <2>6, <2>7, <2>8, <2>9, <2>10, <2>11, <2>12, <2>13
       DEF TypeOK, Placed, TypedFiles, TypedRename, TypedLabels, Journalled, Label, Moves,
            Statuses
<1>13. CASE RecoverRemove
  <2>1. at = "rec-remove" /\ sub.step = "none"
    BY <1>13 DEF RecoverRemove, At
  <2>3. /\ RenameEnds("manual-conflict") => Ended("manual-conflict")
    BY <1>0, <1>e, JournalEffects DEF Outcome, Published, TypedLocal
  <2>4. UNCHANGED <<story, copies, draft, mv, rn, aside, kept, mode, i, first, sub, ret,
                    touched, spent>>
    BY <1>13 DEF RecoverRemove, RenameConflict, At, Go, RenameStays, MoveStays, Frame
  <2>5. at' \in {"rec-removed", "r-retire"}
    BY <1>0, <1>13, <2>3 DEF RecoverRemove, RenameConflict, At, Go, RenameStays, MoveStays,
         Frame, Ended
  <2>6. mv' \in Moves /\ (mv'.phase = "none" \/ mv'.status \in Statuses)
        /\ (mv.phase # "none" => mv'.phase # "none")
    BY <1>e, <2>4 DEF TypedMove
  <2>7. i' \in 0 .. Len(story.links) + 1 /\ first' \in BOOLEAN
    BY <1>e, <2>4 DEF TypedLocal
  <2>8. sub' \in Calls /\ ok' \in BOOLEAN
    BY <1>0, <1>e, <1>13, <2>3 DEF RecoverRemove, RenameConflict, At, Go, RenameStays,
         MoveStays, Frame, Ended, TypedLocal
  <2>9. TypedRename'
    BY <1>0, <1>e, <1>13, <2>3, <2>4 DEF RecoverRemove, RenameConflict, At, Go, RenameStays,
         MoveStays, Frame, Ended, TypedRename, TypedLocal
  <2>10. TypedFiles'
    BY <1>0, <1>e, <1>j, <1>13, <2>3, <2>4 DEF RecoverRemove, RenameConflict, At, Go,
         RenameStays, MoveStays, Frame, TypedFiles, TypedLocal, Content, Calls, Called, NoDraft
  <2>11. Journalled'
    BY <1>j, <2>1, <2>4, <2>5, <2>6 DEF Journalled, InMove, InRename, InUndo
  <2>12. Indexed'
    BY <1>0, <1>e, <1>j, <1>13, <2>3, <2>1, <2>4, <2>5 DEF RecoverRemove, RenameConflict, At,
         Go, RenameStays, MoveStays, Frame, Indexed, TypedLocal
  <2>13. Called'
    BY <1>0, <1>e, <1>j, <1>13, <2>3, <2>1, <2>4, <2>5 DEF Called, Calls
  <2>14. QED
    BY <1>e, <2>4, <2>5, <2>6, <2>7, <2>8, <2>9, <2>10, <2>11, <2>12, <2>13
       DEF TypeOK, Placed, TypedFiles, TypedRename, TypedLabels, Journalled, Label, Moves,
            Statuses
<1>14. CASE RecoverRemoved
  <2>1. at = "rec-removed" /\ sub.step = "none"
    BY <1>14 DEF RecoverRemoved, At
  <2>3. /\ RenameEnds("committed") => Ended("committed")
        /\ RenameEnds("manual-conflict") => Ended("manual-conflict")
        /\ Install(<<"rn", "evidence">>, Src, "r-restored")
              => Installs(<<"rn", "evidence">>, Src) /\ at' = "r-restored"
    BY <1>0, <1>e, JournalEffects, CallEffects DEF Outcome, Published, Label, Aside, TypedLocal
  <2>4. UNCHANGED <<story, disk, copies, draft, mv, rn, aside, kept, mode, i, first, ret,
                    touched, spent>>
    BY <1>14 DEF RecoverRemoved, RenameConflict, At, FilesStay, RenameStays, MoveStays, Frame
  <2>5. at' \in {"r-restored", "r-retire"}
    BY <1>0, <1>14, <2>3 DEF RecoverRemoved, RenameConflict, At, FilesStay, RenameStays,
         MoveStays, Frame, Ended
  <2>6. mv' \in Moves /\ (mv'.phase = "none" \/ mv'.status \in Statuses)
        /\ (mv.phase # "none" => mv'.phase # "none")
    BY <1>e, <2>4 DEF TypedMove
  <2>7. i' \in 0 .. Len(story.links) + 1 /\ first' \in BOOLEAN
    BY <1>e, <2>4 DEF TypedLocal
  <2>8. sub' \in Calls /\ ok' \in BOOLEAN
    BY <1>0, <1>e, <1>14, <2>3 DEF RecoverRemoved, RenameConflict, At, FilesStay, RenameStays,
         MoveStays, Frame, Ended, Installs, TypedLocal
  <2>9. TypedRename'
    BY <1>0, <1>e, <1>14, <2>3, <2>4 DEF RecoverRemoved, RenameConflict, At, FilesStay,
         RenameStays, MoveStays, Frame, Ended, TypedRename, TypedLocal
  <2>10. TypedFiles'
    BY <1>e, <2>4 DEF TypedFiles
  <2>11. Journalled'
    BY <1>j, <2>1, <2>4, <2>5, <2>6 DEF Journalled, InMove, InRename, InUndo
  <2>12. Indexed'
    BY <1>0, <1>e, <1>j, <1>14, <2>3, <2>1, <2>4, <2>5 DEF RecoverRemoved, RenameConflict, At,
         FilesStay, RenameStays, MoveStays, Frame, Indexed, TypedLocal
  <2>13. Called'
    BY <1>0, <1>e, <1>j, <1>14, <2>3, <2>1, <2>4, <2>5 DEF RecoverRemoved, RenameConflict, At,
         FilesStay, RenameStays, MoveStays, Frame, Installs, UndoFor, Called, Calls
  <2>14. QED
    BY <1>e, <2>4, <2>5, <2>6, <2>7, <2>8, <2>9, <2>10, <2>11, <2>12, <2>13
       DEF TypeOK, Placed, TypedFiles, TypedRename, TypedLabels, Journalled, Label, Moves,
            Statuses
<1>15. CASE UndoCheck
  <2>1. at = "undo" /\ sub.step = "none"
    BY <1>15 DEF UndoCheck, At
  <2>4. UNCHANGED <<story, disk, copies, draft, mv, rn, kept, receipt, mode, i, first, sub,
                    ret, touched, spent>>
    BY <1>15 DEF UndoCheck, UndoEnds, UndoFor, At, Go, FilesStay, MoveStays, Frame
  <2>5. at' \in {"undo-install", "undo-stage", "rec-undone", "resume-restored"}
    BY <1>0, <1>15 DEF UndoCheck, UndoEnds, UndoFor, At, Go, FilesStay, MoveStays, Frame
  <2>6. mv' \in Moves /\ (mv'.phase = "none" \/ mv'.status \in Statuses)
        /\ (mv.phase # "none" => mv'.phase # "none")
    BY <1>e, <2>4 DEF TypedMove
  <2>7. i' \in 0 .. Len(story.links) + 1 /\ first' \in BOOLEAN
    BY <1>e, <2>4 DEF TypedLocal
  <2>8. sub' \in Calls /\ ok' \in BOOLEAN
    BY <1>0, <1>e, <1>15 DEF UndoCheck, UndoEnds, UndoFor, At, Go, FilesStay, MoveStays, Frame,
         TypedLocal
  <2>9. TypedRename'
    BY <1>0, <1>e, <1>15, <2>4 DEF UndoCheck, UndoEnds, UndoFor, At, Go, FilesStay, MoveStays,
         Frame, TypedRename, TypedLocal, Private, Aside
  <2>10. TypedFiles'
    BY <1>e, <2>4 DEF TypedFiles
  <2>n. /\ at' = "rec-undone" => rn # "none"
        /\ at' = "resume-restored" => rn = "none"
    BY <1>15 DEF UndoCheck, UndoEnds, Go
  <2>11. Journalled'
    BY <1>j, <2>1, <2>4, <2>5, <2>6, <2>n DEF Journalled, InMove, InRename, InUndo
  <2>12. Indexed'
    BY <1>0, <1>e, <1>j, <1>15, <2>1, <2>4, <2>5 DEF UndoCheck, UndoEnds, UndoFor, At, Go,
         FilesStay, MoveStays, Frame, Indexed, TypedLocal
  <2>13. Called'
    BY <1>0, <1>e, <1>j, <1>15, <2>1, <2>4, <2>5 DEF Called, Calls
  <2>14. QED
    BY <1>e, <2>4, <2>5, <2>6, <2>7, <2>8, <2>9, <2>10, <2>11, <2>12, <2>13
       DEF TypeOK, Placed, TypedFiles, TypedRename, TypedLabels, Journalled, Label, Moves,
            Statuses
<1>16. CASE UndoStage
  <2>1. at = "undo-stage" /\ sub.step = "none"
    BY <1>16 DEF UndoStage, At
  <2>4. UNCHANGED <<story, disk, copies, draft, mv, rn, kept, receipt, mode, i, first, sub,
                    ok, ret, touched, spent>>
    BY <1>16 DEF UndoStage, UndoFor, At, Go, FilesStay, MoveStays, Frame
  <2>5. at' \in {"undo-install"}
    BY <1>0, <1>16 DEF UndoStage, UndoFor, At, Go, FilesStay, MoveStays, Frame
  <2>6. mv' \in Moves /\ (mv'.phase = "none" \/ mv'.status \in Statuses)
        /\ (mv.phase # "none" => mv'.phase # "none")
    BY <1>e, <2>4 DEF TypedMove
  <2>7. i' \in 0 .. Len(story.links) + 1 /\ first' \in BOOLEAN
    BY <1>e, <2>4 DEF TypedLocal
  <2>8. sub' \in Calls /\ ok' \in BOOLEAN
    BY <1>e, <2>4 DEF TypedLocal
  <2>9. TypedRename'
    BY <1>0, <1>e, <1>16, <2>4 DEF UndoStage, UndoFor, At, Go, FilesStay, MoveStays, Frame,
         TypedRename, TypedLocal, Private, Aside
  <2>10. TypedFiles'
    BY <1>e, <2>4 DEF TypedFiles
  <2>11. Journalled'
    BY <1>j, <2>1, <2>4, <2>5, <2>6 DEF Journalled, InMove, InRename, InUndo
  <2>12. Indexed'
    BY <1>0, <1>e, <1>j, <1>16, <2>1, <2>4, <2>5 DEF UndoStage, UndoFor, At, Go, FilesStay,
         MoveStays, Frame, Indexed, TypedLocal
  <2>13. Called'
    BY <1>0, <1>e, <1>j, <1>16, <2>1, <2>4, <2>5 DEF Called, Calls
  <2>14. QED
    BY <1>e, <2>4, <2>5, <2>6, <2>7, <2>8, <2>9, <2>10, <2>11, <2>12, <2>13
       DEF TypeOK, Placed, TypedFiles, TypedRename, TypedLabels, Journalled, Label, Moves,
            Statuses
<1>17. CASE UndoInstall
  <2>1. at = "undo-install" /\ sub.step = "none"
    BY <1>17 DEF UndoInstall, At
  <2>3. /\ Install(<<UndoFor, "undo">>, Src, "undo-copied")
        => Installs(<<UndoFor, "undo">>, Src) /\ at' = "undo-copied"
    BY <1>0, <1>e, CallEffects DEF Label, Aside, UndoFor, TypedLocal
  <2>4. UNCHANGED <<story, disk, copies, draft, mv, rn, aside, kept, receipt, mode, i, first,
                    ok, ret, touched, spent>>
    BY <1>17 DEF UndoInstall, UndoFor, At, FilesStay, RenameStays, MoveStays, Frame
  <2>5. at' \in {"undo-copied"}
    BY <1>0, <1>17, <2>3 DEF UndoInstall, UndoFor, At, FilesStay, RenameStays, MoveStays, Frame
  <2>6. mv' \in Moves /\ (mv'.phase = "none" \/ mv'.status \in Statuses)
        /\ (mv.phase # "none" => mv'.phase # "none")
    BY <1>e, <2>4 DEF TypedMove
  <2>7. i' \in 0 .. Len(story.links) + 1 /\ first' \in BOOLEAN
    BY <1>e, <2>4 DEF TypedLocal
  <2>8. sub' \in Calls /\ ok' \in BOOLEAN
    BY <1>0, <1>e, <1>17, <2>3 DEF UndoInstall, UndoFor, At, FilesStay, RenameStays, MoveStays,
         Frame, Installs, TypedLocal
  <2>9. TypedRename'
    BY <1>e, <2>4 DEF TypedRename
  <2>10. TypedFiles'
    BY <1>e, <2>4 DEF TypedFiles
  <2>11. Journalled'
    BY <1>j, <2>1, <2>4, <2>5, <2>6 DEF Journalled, InMove, InRename, InUndo
  <2>12. Indexed'
    BY <1>0, <1>e, <1>j, <1>17, <2>3, <2>1, <2>4, <2>5 DEF UndoInstall, UndoFor, At, FilesStay,
         RenameStays, MoveStays, Frame, Indexed, TypedLocal
  <2>13. Called'
    BY <1>0, <1>e, <1>j, <1>17, <2>3, <2>1, <2>4, <2>5 DEF UndoInstall, UndoFor, At, FilesStay,
         RenameStays, MoveStays, Frame, Installs, Called, Calls
  <2>14. QED
    BY <1>e, <2>4, <2>5, <2>6, <2>7, <2>8, <2>9, <2>10, <2>11, <2>12, <2>13
       DEF TypeOK, Placed, TypedFiles, TypedRename, TypedLabels, Journalled, Label, Moves,
            Statuses
<1>18. CASE UndoCopied
  <2>1. at = "undo-copied" /\ sub.step = "none"
    BY <1>18 DEF UndoCopied, At
  <2>4. UNCHANGED <<story, copies, draft, mv, rn, aside, kept, receipt, mode, i, first, sub,
                    ret, touched, spent>>
    BY <1>18 DEF UndoCopied, UndoEnds, At, RenameStays, MoveStays, Frame
  <2>5. at' \in {"rec-undone", "resume-restored"}
    <3>1. UndoEnds(TRUE) \/ UndoEnds(FALSE)
      BY <1>18 DEF UndoCopied
    <3>2. QED
      BY <3>1 DEF UndoEnds, Go
  <2>6. mv' \in Moves /\ (mv'.phase = "none" \/ mv'.status \in Statuses)
        /\ (mv.phase # "none" => mv'.phase # "none")
    BY <1>e, <2>4 DEF TypedMove
  <2>7. i' \in 0 .. Len(story.links) + 1 /\ first' \in BOOLEAN
    BY <1>e, <2>4 DEF TypedLocal
  <2>8. sub' \in Calls /\ ok' \in BOOLEAN
    BY <1>0, <1>e, <1>18 DEF UndoCopied, UndoEnds, At, RenameStays, MoveStays, Frame, TypedLocal
  <2>9. TypedRename'
    BY <1>e, <2>4 DEF TypedRename
  <2>10. TypedFiles'
    BY <1>0, <1>e, <1>j, <1>18, <2>4 DEF UndoCopied, UndoEnds, At, RenameStays, MoveStays,
         Frame, TypedFiles, TypedLocal, Content, Calls, Called, NoDraft
  <2>n. /\ at' = "rec-undone" => rn # "none"
        /\ at' = "resume-restored" => rn = "none"
    BY <1>18 DEF UndoCopied, UndoEnds, Go
  <2>11. Journalled'
    BY <1>j, <2>1, <2>4, <2>5, <2>6, <2>n DEF Journalled, InMove, InRename, InUndo
  <2>12. Indexed'
    BY <1>0, <1>e, <1>j, <1>18, <2>1, <2>4, <2>5 DEF UndoCopied, UndoEnds, At, RenameStays,
         MoveStays, Frame, Indexed, TypedLocal
  <2>13. Called'
    BY <1>0, <1>e, <1>j, <1>18, <2>1, <2>4, <2>5 DEF Called, Calls
  <2>14. QED
    BY <1>e, <2>4, <2>5, <2>6, <2>7, <2>8, <2>9, <2>10, <2>11, <2>12, <2>13
       DEF TypeOK, Placed, TypedFiles, TypedRename, TypedLabels, Journalled, Label, Moves,
            Statuses
<1>19. QED
  BY <1>1, <1>2, <1>3, <1>4, <1>5, <1>6, <1>7, <1>8, <1>9, <1>10, <1>11, <1>12, <1>13, <1>14,
     <1>15, <1>16, <1>17, <1>18 DEF Recovering

-----------------------------------------------------------------------------
(* Opening, closing, and what goes wrong.                                  *)

(* Opening and closing the vault keep both.                                *)
LEMMA OpeningTyped ==
  ASSUME TypeOK, Placed, Open \/ Opened \/ Quit
  PROVE  TypeOK' /\ Placed'
<1>1. /\ UNCHANGED <<story, disk, copies, journals, i, first, sub, ok, ret, touched, spent>>
      /\ at \in {"down", "recover", "idle"}
      /\ <<mode', at'>> \in {<<"recovering", "recover">>, <<"open", "idle">>, <<"down",
            "down">>}
  BY DEF Open, Opened, Quit, Go, At, Placed, Journalled
<1>2. TypeOK'
  BY <1>1 DEF TypeOK, journals, Label, Statuses, Moves
<1>3. Journalled'
  BY <1>1 DEF Placed, Journalled, InMove, InUndo, InRename
<1>4. Indexed' /\ Called'
  BY <1>1 DEF Placed, Indexed, Called
<1>5. QED
  BY <1>2, <1>3, <1>4 DEF Placed

(* A stop forgets the running routine.                                     *)
LEMMA Forgotten ==
  ASSUME TypeOK, Forget
  PROVE  /\ sub' \in Calls /\ sub'.step = "none" /\ sub'.from = <<"rn", "blob">>
        /\ sub'.file = Src
         /\ i' = 0 /\ first' = FALSE /\ ok' = FALSE /\ ret' = "idle"
BY CallEffects DEF Forget, Return, Returned

(* The bounds are counted.                                                 *)
LEMMA Spent ==
  ASSUME TypeOK, NEW what \in {"ext", "crash", "fault"}, Spend(what)
  PROVE  spent' \in [{"ext", "crash", "fault"} -> Nat]
BY DEF TypeOK, Spend

(* A crash leaves files and journals as they are.                          *)
LEMMA CrashTyped ==
  ASSUME TypeOK, Placed, Crash
  PROVE  TypeOK' /\ Placed'
<1>1. UNCHANGED <<story, disk, copies, journals, touched>> /\ mode' = "down" /\ at' = "down"
      /\ Forget /\ Spend("crash")
  BY DEF Crash, Go
<1>2. /\ sub' \in Calls /\ sub'.step = "none" /\ sub'.from = <<"rn", "blob">> /\ sub'.file = Src
      /\ i' = 0 /\ first' = FALSE /\ ok' = FALSE /\ ret' = "idle"
  BY <1>1, Forgotten
<1>t. spent' \in [{"ext", "crash", "fault"} -> Nat] /\ 0 \in 0 .. Len(story.links) + 1
  BY <1>1, Spent, Links
<1>l. /\ at' \in Label /\ mode' \in {"down", "recovering", "open"} /\ ret' \in Label
      /\ i' \in 0 .. Len(story.links) + 1
  BY <1>1, <1>2, <1>t DEF Label
<1>3. TypeOK'
  BY <1>1, <1>2, <1>t, <1>l DEF TypeOK, journals, Statuses, Moves
<1>4. Journalled'
  BY <1>1, <1>2 DEF Journalled, InMove, InUndo, InRename
<1>5. Indexed' /\ Called'
  BY <1>1, <1>2 DEF Indexed, Called
<1>6. QED
  BY <1>3, <1>4, <1>5 DEF Placed

(* A failing call ends in one of its three ways.                           *)
LEMMA FaultTyped ==
  ASSUME TypeOK, Placed, Fault
  PROVE  TypeOK' /\ Placed'
<1>0. Dst \in File /\ Len(story.links) \in Nat /\ Journalled /\ Indexed /\ Called
  BY Links DEF Placed
<1>1. UNCHANGED <<story, copies, draft, mv, rn, aside, kept, touched>> /\ Spend("fault")
  BY DEF Fault
<1>2. spent' \in [{"ext", "crash", "fault"} -> Nat]
  BY <1>1, Spent
<1>b. Busy
  BY DEF Fault
<1>3. CASE /\ Undoing /\ UndoEnds(FALSE) /\ sub' = NoSub
           /\ UNCHANGED <<disk, mode, i, first, ret, receipt>>
  <2>1. Returned /\ ok' = FALSE
    BY <1>3, CallEffects DEF Return, UndoEnds
  <2>2. at' = IF rn # "none" THEN "rec-undone" ELSE "resume-restored"
    BY <1>3 DEF UndoEnds, Go
  <2>l. at' \in Label /\ sub' \in Calls /\ ok' \in BOOLEAN
    BY <2>1, <2>2 DEF Label, Returned
  <2>3. TypeOK'
    BY <1>1, <1>2, <1>3, <2>l DEF TypeOK, Statuses, Moves
  <2>4. Journalled'
    BY <1>0, <1>1, <1>3, <2>2 DEF Undoing, Journalled, InMove, InUndo, InRename
  <2>5. Indexed' /\ Called'
    BY <1>3, <2>1, <2>2 DEF Indexed, Called, Returned
  <2>6. QED
    BY <2>3, <2>4, <2>5 DEF Placed
<1>4. CASE /\ Refusable
           /\ \/ disk' = disk
              \/ at # "rec-installed" /\ ~Exists(Dst) /\ disk' = [disk EXCEPT ![Dst] = "old"]
           /\ \/ at = "rec-installed" /\ Return(FALSE) /\ UNCHANGED <<at, receipt>>
              \/ at = "publish-install" /\ Receipt("manual-conflict") /\ UNCHANGED <<sub, ok>>
              \/ at \in {"r-publish", "rec-publish"} /\ RenameConflict /\ UNCHANGED sub
           /\ UNCHANGED <<mode, i, first, ret>>
  <2>1. disk' \in [File -> Content]
    BY <1>0, <1>4 DEF TypeOK, Content
  <2>2. \/ at = "rec-installed" /\ at' = at /\ receipt' = receipt /\ Returned /\ ok' = FALSE
        \/ at' = "m-retire" /\ Recorded("manual-conflict") /\ UNCHANGED <<sub, ok>>
             /\ at = "publish-install"
        \/ at' = "r-retire" /\ Ended("manual-conflict") /\ sub' = sub
             /\ at \in {"r-publish", "rec-publish"}
    BY <1>4, JournalEffects, CallEffects DEF RenameConflict, Outcome, Recorded, Ended
  <2>3. /\ receipt' \in [move : Outcome, rename : Outcome] /\ ok' \in BOOLEAN /\ sub' \in Calls
        /\ at' \in {"rec-installed", "m-retire", "r-retire"}
    BY <2>2 DEF TypeOK, Recorded, Ended, Returned
  <2>4. TypeOK'
    BY <1>1, <1>2, <1>4, <2>1, <2>3 DEF TypeOK, Label, Statuses, Moves
  <2>5. Journalled'
    BY <1>0, <1>1, <1>4, <2>2 DEF Recorded, Ended, Journalled, InMove, InUndo, InRename
  <2>6. Indexed' /\ Called'
    BY <1>0, <1>4, <2>2, <2>3 DEF Indexed, Called, Returned
  <2>7. QED
    BY <2>4, <2>5, <2>6 DEF Placed
<1>5. CASE /\ ~Undoing /\ (Refusable => at = "r-publish")
           /\ Forget /\ mode' = IF mode = "recovering" THEN "down" ELSE mode
           /\ Go(IF mode = "recovering" THEN "down" ELSE "idle")
           /\ UNCHANGED <<disk, receipt>>
  <2>1. /\ sub' \in Calls /\ sub'.step = "none" /\ sub'.from = <<"rn", "blob">>
        /\ sub'.file = Src
        /\ i' = 0 /\ first' = FALSE /\ ok' = FALSE /\ ret' = "idle"
    BY <1>5, Forgotten
  <2>2. at' \in {"down", "idle"} /\ mode' \in {"down", mode}
    BY <1>5 DEF Go
  <2>l. /\ at' \in Label /\ mode' \in {"down", "recovering", "open"} /\ ret' \in Label
        /\ i' \in 0 .. Len(story.links) + 1
    BY <1>0, <2>1, <2>2 DEF TypeOK, Label
  <2>3. TypeOK'
    BY <1>1, <1>2, <1>5, <2>1, <2>l DEF TypeOK, Statuses, Moves
  <2>4. Journalled'
    BY <1>0, <1>5, <1>b, <2>1, <2>2 DEF Go, Busy, Journalled, InMove, InUndo, InRename
  <2>5. Indexed' /\ Called'
    BY <2>1, <2>2 DEF Indexed, Called
  <2>6. QED
    BY <2>3, <2>4, <2>5 DEF Placed
<1>6. QED
  BY <1>3, <1>4, <1>5 DEF Fault

(* An installation that cannot drop its private copy.                      *)
LEMMA UncleanedTyped ==
  ASSUME TypeOK, Placed, InstallUncleaned
  PROVE  TypeOK' /\ Placed'
<1>1. /\ disk' = [disk EXCEPT ![sub.file] = Rev]
      /\ UNCHANGED <<story, copies, journals, mode, at, i, first, ret, touched>>
  BY DEF InstallUncleaned
<1>2. spent' \in [{"ext", "crash", "fault"} -> Nat]
  BY Spent DEF InstallUncleaned
<1>3. Returned /\ ok' = FALSE
  BY CallEffects DEF InstallUncleaned
<1>4. disk' \in [File -> Content]
  BY <1>1, RevOwn DEF TypeOK, Content
<1>5. TypeOK'
  BY <1>1, <1>2, <1>3, <1>4 DEF TypeOK, Returned, journals, Statuses, Moves
<1>6. Journalled' /\ Indexed'
  BY <1>1 DEF Placed, Journalled, Indexed, journals
<1>7. Called'
  BY <1>1, <1>3 DEF Placed, Called, Returned
<1>8. QED
  BY <1>5, <1>6, <1>7 DEF Placed

(* Another program changes one file.                                       *)
LEMMA ExternalTyped ==
  ASSUME TypeOK, Placed, External
  PROVE  TypeOK' /\ Placed'
<1>1. PICK f \in File, c \in {"foreign", "absent", "old"} :
        disk' = [disk EXCEPT ![f] = c] /\ touched' = touched \cup {f}
  BY DEF External
<1>2. UNCHANGED <<story, copies, journals, mode, local>>
      /\ spent' \in [{"ext", "crash", "fault"} -> Nat]
  BY Spent DEF External
<1>3. disk' \in [File -> Content] /\ touched' \subseteq File
  BY <1>1 DEF TypeOK, Content
<1>4. TypeOK'
  BY <1>2, <1>3 DEF TypeOK, journals, local, Statuses, Moves
<1>5. Placed'
  BY <1>2 DEF Placed, Journalled, Indexed, Called, journals, local
<1>6. QED
  BY <1>4, <1>5

(* The request starts with no journal and every file as it was.            *)
LEMMA InitTyped == Init => TypeOK /\ Placed
<1> SUFFICES ASSUME Init PROVE TypeOK /\ Placed
  OBVIOUS
<1>1. /\ story \in Stories /\ disk = [f \in File |-> IF f = Dst THEN "absent" ELSE "old"]
      /\ copies = {} /\ draft = NoDraft /\ mv = NoMove /\ rn = "none"
      /\ aside = [a \in Aside |-> "absent"] /\ kept = FALSE
      /\ receipt = [move |-> "none", rename |-> "none"]
      /\ mode = "open" /\ at \in {"r-check", "m-check"}
      /\ i = 0 /\ first = FALSE /\ sub = NoSub /\ ok = FALSE /\ ret = "idle"
      /\ touched = {} /\ spent = [ext |-> 0, crash |-> 0, fault |-> 0]
  BY DEF Init
<1>2. Len(story.links) \in Nat
  BY <1>1, StoriesOK
<1>3. NoSub \in Calls /\ NoSub.step = "none" /\ NoSub.from = <<"rn", "blob">>
      /\ NoSub.file = Src
  BY DEF NoSub, Calls, Aside, File
<1>4. NoMove \in Moves /\ NoMove.phase = "none"
  BY DEF NoMove, Moves, MovePhase
<1>5. disk \in [File -> Content] /\ aside \in [Aside -> Private]
  BY <1>1 DEF Content, Private
<1>6. receipt \in [move : Outcome, rename : Outcome]
      /\ spent \in [{"ext", "crash", "fault"} -> Nat]
  BY <1>1 DEF Outcome
<1>7. TypeOK
  <2>1. at \in Label /\ ret \in Label /\ i \in 0 .. Len(story.links) + 1
    BY <1>1, <1>2 DEF Label
  <2>2. QED
    BY <1>1, <1>3, <1>4, <1>5, <1>6, <2>1 DEF TypeOK
<1>8. Journalled
  BY <1>1 DEF Journalled, InMove, InUndo, InRename
<1>9. Indexed /\ Called
  BY <1>1, <1>3 DEF Indexed, Called
<1>10. QED
  BY <1>7, <1>8, <1>9 DEF Placed

(* Every step keeps both.                                                  *)
LEMMA StepTyped == TypeOK /\ Placed /\ [Next]_vars => TypeOK' /\ Placed'
<1> SUFFICES ASSUME TypeOK, Placed, [Next]_vars PROVE TypeOK' /\ Placed'
  OBVIOUS
<1>1. CASE Next
  BY <1>1, WritingTyped, MovingTyped, RenamingTyped, RecoveringTyped, OpeningTyped, CrashTyped,
     FaultTyped, UncleanedTyped, ExternalTyped DEF Next, Program
<1>2. CASE UNCHANGED vars
  <2>1. UNCHANGED <<story, disk, copies, journals, mode, local, touched, spent>>
    BY <1>2 DEF vars
  <2>2. TypeOK'
    BY <2>1 DEF TypeOK, journals, local, Statuses, Moves
  <2>3. Placed'
    BY <2>1 DEF Placed, Journalled, Indexed, Called, journals, local
  <2>4. QED
    BY <2>2, <2>3
<1>3. QED
  BY <1>1, <1>2

(* Both hold always.                                                       *)
LEMMA AlwaysPlaced == Spec => [](TypeOK /\ Placed)
BY InitTyped, StepTyped, PTL DEF Spec

(* Every variable keeps its type; a note's place in the list of rewrites    *)
(* is one of the list, and every journalled status belongs to an entry.     *)
THEOREM TypeCorrect == Spec => []TypeOK
BY AlwaysPlaced, PTL

-----------------------------------------------------------------------------
(* Every step of the move but the publication leaves the vault as it is.   *)
LEMMA MovingFrame ==
  ASSUME TypeOK, Moving, ~PublishInstall
  PROVE  UNCHANGED <<disk, touched, kept>> /\ aside'[<<"rn", "evidence">>] = aside[<<"rn",
                     "evidence">>]
<1>1. CASE MoveCheck
  <2>1. UNCHANGED <<disk, touched, kept>>
    BY <1>1 DEF MoveCheck, FilesStay, Frame
  <2>2. aside' = aside
        \/ aside' = [aside EXCEPT ![<<"mv", "blob">>] = "ok", ![<<"mv", "evidence">>] = "ok"]
    BY <1>1 DEF MoveCheck
  <2>3. <<"rn", "evidence">> # <<"mv", "blob">> /\ <<"rn", "evidence">> # <<"mv", "evidence">>
    OBVIOUS
  <2>4. aside \in [Aside -> Private] /\ <<"rn", "evidence">> \in Aside
    BY DEF TypeOK, Aside
  <2>5. QED
    BY <2>1, <2>2, <2>3, <2>4
<1>2. CASE Continue \/ Publish \/ PublishVerify \/ AfterPublish \/ Apply \/ EntrySpoilt
  BY <1>2 DEF Continue, Publish, PublishVerify, AfterPublish, Apply, EntrySpoilt, FilesStay,
       RenameStays, Frame
<1>3. CASE EntryApplied \/ EntryPending \/ EntryWrote \/ Diverged \/ Spoilt \/ EntriesDone
  BY <1>3 DEF EntryApplied, EntryPending, EntryWrote, Diverged, Spoilt, EntriesDone, FilesStay,
       RenameStays, Frame
<1>4. CASE Verify \/ CheckCorpus \/ FinalCheck \/ Renamed \/ Committed \/ Resume
  BY <1>4 DEF Verify, CheckCorpus, FinalCheck, Renamed, Committed, Resume, FilesStay,
       RenameStays, Frame
<1>5. CASE ResumeRestored \/ Rollback \/ RollbackWrote \/ RolledBack \/ MoveRetire
  BY <1>5 DEF ResumeRestored, Rollback, RollbackWrote, RolledBack, MoveRetire, FilesStay,
       RenameStays, Frame
<1>6. QED
  BY <1>1, <1>2, <1>3, <1>4, <1>5 DEF Moving

(* Every step of the rename keeps the source secured: the steps that       *)
(* take a name away have the bytes under the other one, or in the copy.    *)
LEMMA RenamingSecured ==
  ASSUME TypeOK, Placed, Secured, Renaming
  PROVE  Secured'
<1>t. /\ disk \in [File -> Content] /\ aside \in [Aside -> Private] /\ Src \in File
      /\ Dst \in File
      /\ Src # Dst /\ Rev \in {"old", "new"} /\ ret \in {"idle", "renamed", "recover"}
      /\ \A j \in {"rn", "mv"}, p \in {"blob", "evidence", "undo"} : <<j, p>> \in Aside
  BY Links, RevOwn, Names DEF TypeOK, Placed, Journalled, Aside
<1>1. CASE RenameCheck
  <2>1. /\ at = "r-check" /\ UNCHANGED <<touched, kept>>
        /\ disk' = disk /\ Evidence' = Evidence
        /\ \/ at' = "r-final" /\ Own(Src)
           \/ at' = ret
    BY <1>t, <1>1 DEF RenameCheck, At, Go, FilesStay, Frame, Ready, Holds, Own, Evidence
  <2>2. QED
    BY <1>t, <2>1 DEF Secured, HasEvidence, Before, Evidence, Own, Content
<1>2. CASE RenameFinal
  <2>1. /\ at = "r-final" /\ UNCHANGED <<touched, kept>>
        /\ disk' = disk /\ Evidence' = Evidence
        /\ at' \in {"r-blob", "r-retire"}
    BY <1>t, <1>2 DEF RenameFinal, At, Go, FilesStay, Frame, RenameConflict, RenameEnds,
         Evidence
  <2>2. QED
    BY <1>t, <2>1 DEF Secured, HasEvidence, Before, Evidence, Own, Content
<1>3. CASE RenameBlob
  <2>1. /\ at = "r-blob" /\ UNCHANGED <<touched, kept>>
        /\ disk' = disk
        /\ at' = "r-evidence"
    BY <1>t, <1>3 DEF RenameBlob, At, Go, FilesStay, Frame
  <2>2. QED
    BY <1>t, <2>1 DEF Secured, HasEvidence, Before, Evidence, Own, Content
<1>4. CASE RenameEvidence
  <2>1. /\ at = "r-evidence" /\ UNCHANGED <<touched, kept>>
        /\ disk' = disk /\ Evidence'
        /\ at' = "r-staged"
    BY <1>t, <1>4 DEF RenameEvidence, At, Go, FilesStay, Frame, Evidence
  <2>2. QED
    BY <1>t, <2>1 DEF Secured, HasEvidence, Before, Evidence, Own, Content
<1>5. CASE RenameStaged
  <2>1. /\ at = "r-staged" /\ UNCHANGED <<touched, kept>>
        /\ disk' = disk /\ Evidence' = Evidence
        /\ at' \in {"r-retire", "r-installed", "r-publish"}
    BY <1>t, <1>5 DEF RenameStaged, At, Go, FilesStay, RenameStays, Frame, RenameConflict,
         RenameEnds, Install, Evidence
  <2>2. QED
    BY <1>t, <2>1 DEF Secured, HasEvidence, Before, Evidence, Own, Content
<1>6. CASE RenamePublish
  <2>1. /\ at = "r-publish" /\ UNCHANGED <<touched, kept>>
        /\ Evidence' = Evidence /\ disk' \in {disk, [disk EXCEPT ![Dst] = "old"]}
        /\ at' \in {"r-retire", "r-installed"}
    BY <1>t, <1>6 DEF RenamePublish, At, Go, Frame, RenameConflict, RenameEnds, NativePublish,
         Evidence, RenameStays
  <2>2. QED
    BY <1>t, <2>1 DEF Secured, HasEvidence, Before, Evidence, Own, Content
<1>7. CASE RenameInstalled
  <2>1. /\ at = "r-installed" /\ UNCHANGED <<touched, kept>>
        /\ disk' = disk /\ Evidence' = Evidence
        /\ at' \in {"r-retire", "r-linked"}
    BY <1>t, <1>7 DEF RenameInstalled, At, Go, FilesStay, Frame, RenameConflict, RenameEnds,
         Evidence
  <2>2. QED
    BY <1>t, <2>1 DEF Secured, HasEvidence, Before, Evidence, Own, Content
<1>8. CASE RenameLinkedStrict
  <2>1. /\ at = "r-linked" /\ UNCHANGED <<touched, kept>>
        /\ disk' = disk /\ Evidence' = Evidence
        /\ at' \in {"r-retire", "r-published"}
    BY <1>t, <1>8 DEF RenameLinkedStrict, At, Go, FilesStay, Frame, RenameConflict, RenameEnds,
         Evidence
  <2>2. QED
    BY <1>t, <2>1 DEF Secured, HasEvidence, Before, Evidence, Own, Content
<1>9. CASE RenamePublished
  <2>1. /\ at = "r-published" /\ UNCHANGED <<touched, kept>>
        /\ disk' = disk /\ Evidence' = Evidence
        /\ at' = "r-retire"
    BY <1>t, <1>9 DEF RenamePublished, At, Go, FilesStay, Frame, RenameConflict, RenameEnds,
         Evidence
  <2>2. QED
    BY <1>t, <2>1 DEF Secured, HasEvidence, Before, Evidence, Own, Content
<1>10. CASE RenameLinked
  <2>1. /\ at = "r-linked" /\ UNCHANGED <<touched, kept>>
        /\ Evidence' = Evidence
        /\ \/ at' = "r-remove" /\ disk' = disk
          
           \/ at' = "r-retire" /\ disk' \in {disk, [disk EXCEPT ![Dst] = "absent"]}
    BY <1>t, <1>10 DEF RenameLinked, At, Go, RenameStays, Frame, RenameConflict, RenameEnds,
         Evidence
  <2>2. QED
    BY <1>t, <2>1 DEF Secured, HasEvidence, Before, Evidence, Own, Content
<1>11. CASE RenameRemove
  <2>1. /\ at = "r-remove" /\ UNCHANGED <<touched, kept>>
        /\ disk' = disk /\ Evidence' = Evidence
        /\ \/ at' = "r-claim" /\ Own(Dst)
           \/ at' = "r-retire"
    BY <1>t, <1>11 DEF RenameRemove, At, Go, FilesStay, RenameStays, Frame, RenameConflict,
         RenameEnds, Doubled, Holds, Own, Evidence
  <2>2. QED
    BY <1>t, <2>1 DEF Secured, HasEvidence, Before, Evidence, Own, Content
<1>12. CASE RenameClaim
  <2>1. /\ at = "r-claim" /\ UNCHANGED <<touched, kept>>
        /\ Evidence' = Evidence
        /\ \/ at' = "r-removed" /\ disk' = [disk EXCEPT ![Src] = "absent"]
          
           \/ at' = "r-retire" /\ disk' = disk
    BY <1>t, <1>12 DEF RenameClaim, At, Go, RenameStays, Frame, RenameConflict, RenameEnds,
         Evidence
  <2>2. QED
    BY <1>t, <2>1 DEF Secured, HasEvidence, Before, Evidence, Own, Content
<1>13. CASE RenameRemoved
  <2>1. /\ at = "r-removed" /\ UNCHANGED <<touched, kept>>
        /\ disk' = disk /\ Evidence' = Evidence
        /\ at' \in {"r-retire", "r-restored"}
    BY <1>t, <1>13 DEF RenameRemoved, At, Go, FilesStay, Frame, RenameConflict, RenameEnds,
         Install, Evidence
  <2>2. QED
    BY <1>t, <2>1 DEF Secured, HasEvidence, Before, Evidence, Own, Content
<1>14. CASE RenameRestored
  <2>1. /\ at = "r-restored" /\ UNCHANGED <<touched, kept>>
        /\ disk' = disk /\ Evidence' = Evidence
        /\ at' = "r-retire"
    BY <1>t, <1>14 DEF RenameRestored, At, Go, FilesStay, RenameStays, Frame, RenameConflict,
         RenameEnds, Evidence
  <2>2. QED
    BY <1>t, <2>1 DEF Secured, HasEvidence, Before, Evidence, Own, Content
<1>15. CASE RenameRetire
  <2>1. /\ disk' = disk /\ touched' = touched /\ at' = ret
        /\ kept' = (kept \/ aside[<<"rn", "evidence">>] = "ok")
    BY <1>15 DEF RenameRetire, FilesStay, Frame, Go
  <2>2. QED
    BY <1>t, <2>1 DEF Secured, HasEvidence, Before, Evidence, Own
<1>16. QED
  BY <1>1, <1>2, <1>3, <1>4, <1>5, <1>6, <1>7, <1>8, <1>9, <1>10, <1>11, <1>12, <1>13, <1>14,
     <1>15 DEF Renaming

(* Every step of the recovery does.                                        *)
LEMMA RecoveringSecured ==
  ASSUME TypeOK, Placed, Secured, Recovering
  PROVE  Secured'
<1>t. /\ disk \in [File -> Content] /\ aside \in [Aside -> Private] /\ Src \in File
      /\ Dst \in File
      /\ Src # Dst /\ Rev \in {"old", "new"} /\ ret \in {"idle", "renamed", "recover"}
      /\ \A j \in {"rn", "mv"}, p \in {"blob", "evidence", "undo"} : <<j, p>> \in Aside
  BY Links, RevOwn, Names DEF TypeOK, Placed, Journalled, Aside
<1>1. CASE RecoverWrite
  <2>1. /\ at = "recover" /\ UNCHANGED <<touched, kept>>
        /\ disk' = disk /\ Evidence' = Evidence
        /\ at' = at
    BY <1>t, <1>1 DEF RecoverWrite, At, Go, RenameStays, Frame, local, Evidence
  <2>2. QED
    BY <1>t, <2>1 DEF Secured, HasEvidence, Before, Evidence, Own, Content
<1>2. CASE RecoverJournal
  <2>1. /\ at = "recover" /\ UNCHANGED <<touched, kept>>
        /\ disk' = disk /\ Evidence' = Evidence
        /\ at' \in {"rec-rename", "continue"}
    BY <1>t, <1>2 DEF RecoverJournal, At, Go, FilesStay, RenameStays, Frame, Evidence
  <2>2. QED
    BY <1>t, <2>1 DEF Secured, HasEvidence, Before, Evidence, Own, Content
<1>3. CASE RecoverRename
  <2>1. /\ at = "rec-rename" /\ UNCHANGED <<touched, kept>>
        /\ Evidence' = Evidence
        /\ \/ at' \in {"r-retire", "undo", "rec-stage"} /\ disk' = disk
          
           \/ at' = "r-retire" /\ Own(Src) /\ disk' = [disk EXCEPT ![Dst] = "absent"]
          
           \/ at' = "rec-evidence" /\ Own(Dst) /\ disk' = disk
    BY <1>t, <1>3 DEF RecoverRename, At, Go, RenameStays, Frame, RenameConflict, RenameEnds,
         Own, Evidence
  <2>2. QED
    BY <1>t, <2>1 DEF Secured, HasEvidence, Before, Evidence, Own, Content
<1>4. CASE RecoverPublished
  <2>1. /\ at = "rec-rename" /\ UNCHANGED <<touched, kept>>
        /\ disk' = disk /\ Evidence' = Evidence
        /\ \/ at' = "rec-publish" /\ Own(Src)
           \/ at' \in {"rec-published", "r-retire"}
    BY <1>t, <1>4 DEF RecoverPublished, At, Go, FilesStay, RenameStays, Frame, RenameConflict,
         RenameEnds, Ready, Holds, Own, Evidence
  <2>2. QED
    BY <1>t, <2>1 DEF Secured, HasEvidence, Before, Evidence, Own, Content
<1>5. CASE RecoverPublish
  <2>1. /\ at = "rec-publish" /\ UNCHANGED <<touched, kept>>
        /\ disk' \in {disk, [disk EXCEPT ![Dst] = "old"]}
        /\ at' \in {"rec-published", "r-retire"}
    BY <1>t, <1>5 DEF RecoverPublish, At, Go, Frame, RenameConflict, RenameEnds, NativePublish,
         RenameStays
  <2>2. QED
    BY <1>t, <2>1 DEF Secured, HasEvidence, Before, Evidence, Own, Content
<1>6. CASE RecoverPublishedEnd
  <2>1. /\ at = "rec-published" /\ UNCHANGED <<touched, kept>>
        /\ disk' = disk /\ Evidence' = Evidence
        /\ at' = "r-retire"
    BY <1>t, <1>6 DEF RecoverPublishedEnd, At, Go, FilesStay, RenameStays, Frame,
         RenameConflict, RenameEnds, Evidence
  <2>2. QED
    BY <1>t, <2>1 DEF Secured, HasEvidence, Before, Evidence, Own, Content
<1>7. CASE RecoverUndone
  <2>1. /\ at = "rec-undone" /\ UNCHANGED <<touched, kept>>
        /\ disk' = disk /\ Evidence' = Evidence
        /\ at' = "r-retire"
    BY <1>t, <1>7 DEF RecoverUndone, At, Go, FilesStay, RenameStays, Frame, RenameConflict,
         RenameEnds, Evidence
  <2>2. QED
    BY <1>t, <2>1 DEF Secured, HasEvidence, Before, Evidence, Own, Content
<1>8. CASE RecoverStage
  <2>1. /\ at = "rec-stage" /\ UNCHANGED <<touched, kept>>
        /\ disk' = disk /\ Evidence' = Evidence
        /\ at' \in {"r-retire", "rec-blob", "rec-installed"}
    BY <1>t, <1>8 DEF RecoverStage, At, Go, FilesStay, Frame, RenameConflict, RenameEnds,
         Install, Evidence
  <2>2. QED
    BY <1>t, <2>1 DEF Secured, HasEvidence, Before, Evidence, Own, Content
<1>9. CASE RecoverBlob
  <2>1. /\ at = "rec-blob" /\ UNCHANGED <<touched, kept>>
        /\ disk' = disk /\ Evidence' = Evidence
        /\ at' = "rec-stage"
    BY <1>t, <1>9 DEF RecoverBlob, At, Go, FilesStay, Frame, Evidence
  <2>2. QED
    BY <1>t, <2>1 DEF Secured, HasEvidence, Before, Evidence, Own, Content
<1>10. CASE RecoverInstalled
  <2>1. /\ at = "rec-installed" /\ UNCHANGED <<touched, kept>>
        /\ disk' = disk /\ Evidence' = Evidence
        /\ \/ at' = "rec-evidence" /\ Own(Dst)
           \/ at' = "r-retire"
    BY <1>t, <1>10 DEF RecoverInstalled, At, Go, FilesStay, RenameStays, Frame, RenameConflict,
         RenameEnds, Doubled, Holds, Own, Evidence
  <2>2. QED
    BY <1>t, <2>1 DEF Secured, HasEvidence, Before, Evidence, Own, Content
<1>11. CASE RecoverEvidence
  <2>1. /\ at = "rec-evidence" /\ UNCHANGED <<touched, kept>>
        /\ disk' = disk /\ (Evidence => Evidence')
        /\ \/ at' = "rec-remove" /\ Evidence
           \/ at' \in {"r-retire", "rec-evidence-made"}
    BY <1>t, <1>11 DEF RecoverEvidence, At, Go, FilesStay, Frame, RenameConflict, RenameEnds,
         Evidence
  <2>2. QED
    BY <1>t, <2>1 DEF Secured, HasEvidence, Before, Evidence, Own, Content
<1>12. CASE RecoverEvidenceMade
  <2>1. /\ at = "rec-evidence-made" /\ UNCHANGED <<touched, kept>>
        /\ disk' = disk /\ Evidence'
        /\ at' = "rec-remove"
    BY <1>t, <1>12 DEF RecoverEvidenceMade, At, Go, FilesStay, Frame, Evidence
  <2>2. QED
    BY <1>t, <2>1 DEF Secured, HasEvidence, Before, Evidence, Own, Content
<1>13. CASE RecoverRemove
  <2>1. /\ at = "rec-remove" /\ UNCHANGED <<touched, kept>>
        /\ Evidence' = Evidence
        /\ \/ at' = "rec-removed" /\ disk' = [disk EXCEPT ![Src] = "absent"]
          
           \/ at' = "r-retire" /\ disk' = disk
    BY <1>t, <1>13 DEF RecoverRemove, At, Go, RenameStays, Frame, RenameConflict, RenameEnds,
         Evidence
  <2>2. QED
    BY <1>t, <2>1 DEF Secured, HasEvidence, Before, Evidence, Own, Content
<1>14. CASE RecoverRemoved
  <2>1. /\ at = "rec-removed" /\ UNCHANGED <<touched, kept>>
        /\ disk' = disk /\ Evidence' = Evidence
        /\ at' \in {"r-retire", "r-restored"}
    BY <1>t, <1>14 DEF RecoverRemoved, At, Go, FilesStay, RenameStays, Frame, RenameConflict,
         RenameEnds, Install, Evidence
  <2>2. QED
    BY <1>t, <2>1 DEF Secured, HasEvidence, Before, Evidence, Own, Content
<1>15. CASE UndoCheck
  <2>1. /\ at = "undo" /\ UNCHANGED <<touched, kept>>
        /\ disk' = disk /\ Evidence' = Evidence
        /\ at' \in {"undo-install", "undo-stage", "rec-undone", "resume-restored"}
    BY <1>t, <1>15 DEF UndoCheck, At, Go, FilesStay, Frame, UndoFor, UndoEnds, Evidence
  <2>2. QED
    BY <1>t, <2>1 DEF Secured, HasEvidence, Before, Evidence, Own, Content
<1>16. CASE UndoStage
  <2>1. /\ at = "undo-stage" /\ UNCHANGED <<touched, kept>>
        /\ disk' = disk /\ Evidence' = Evidence
        /\ at' = "undo-install"
    BY <1>t, <1>16 DEF UndoStage, At, Go, FilesStay, Frame, UndoFor, Evidence
  <2>2. QED
    BY <1>t, <2>1 DEF Secured, HasEvidence, Before, Evidence, Own, Content
<1>17. CASE UndoInstall
  <2>1. /\ at = "undo-install" /\ UNCHANGED <<touched, kept>>
        /\ disk' = disk /\ Evidence' = Evidence
        /\ at' = "undo-copied"
    BY <1>t, <1>17 DEF UndoInstall, At, Go, FilesStay, RenameStays, Frame, Install, Evidence
  <2>2. QED
    BY <1>t, <2>1 DEF Secured, HasEvidence, Before, Evidence, Own, Content
<1>18. CASE UndoCopied
  <2>0. UNCHANGED <<touched, kept>> /\ Evidence' = Evidence
    BY <1>18 DEF UndoCopied, RenameStays, Frame, Evidence
  <2>h. Doubled => Own(Src)
    BY <1>t DEF Doubled, Holds, Own
  <2>1. /\ disk' # disk => Own(Src)
        /\ disk' # disk => disk' = [disk EXCEPT ![Dst] = "absent"]
    BY <1>18, <2>h DEF UndoCopied
  <2>2. UndoEnds(TRUE) \/ UndoEnds(FALSE)
    BY <1>18 DEF UndoCopied
  <2>3. at' \in {"rec-undone", "resume-restored"}
    BY <2>2 DEF UndoEnds, Go
  <2>4. QED
    BY <1>t, <2>0, <2>1, <2>3 DEF Secured, HasEvidence, Before, Evidence, Own
<1>19. QED
  BY <1>1, <1>2, <1>3, <1>4, <1>5, <1>6, <1>7, <1>8, <1>9, <1>10, <1>11, <1>12, <1>13, <1>14,
     <1>15, <1>16, <1>17, <1>18 DEF Recovering

(* Writing a rewrite or installing a copy does.                            *)
LEMMA WritingSecured ==
  ASSUME TypeOK, Placed, Secured, Writing \/ InstallUncleaned
  PROVE  Secured'
<1>t. /\ disk \in [File -> Content] /\ aside \in [Aside -> Private] /\ Src \in File
      /\ Dst \in File
      /\ Rev \in {"old", "new"} /\ sub \in Calls /\ Called /\ <<"rn", "evidence">> \in Aside
  BY Links, RevOwn DEF TypeOK, Placed, Aside
<1>1. UNCHANGED <<touched, kept, at>>
  BY DEF Writing, WriteStage, WriteSwap, WriteClose, InstallMake, InstallFill, InstallUncleaned,
         MoveStays, RenameStays, Frame, journals
<1>2. CASE WriteStage \/ WriteClose
  <2>1. disk' = disk /\ aside' = aside
    BY <1>2 DEF WriteStage, WriteClose, RenameStays
  <2>2. QED
    BY <1>1, <2>1 DEF Secured, Evidence, Own
<1>3. CASE WriteSwap
  <2>1. aside' = aside /\ sub.next \in {"old", "new"}
        /\ disk' \in {disk, [disk EXCEPT ![sub.file] = sub.next]}
    BY <1>3, <1>t DEF WriteSwap, RenameStays, Called
  <2>2. QED
    BY <1>t, <1>1, <2>1 DEF Secured, Evidence, Own
<1>4. CASE InstallMake
  <2>1. /\ aside' = aside
        /\ disk' # disk => disk[sub.file] = "absent"
        /\ disk' # disk => disk' = [disk EXCEPT ![sub.file] = "torn"]
    BY <1>4 DEF InstallMake, RenameStays, Exists
  <2>2. QED
    BY <1>t, <1>1, <2>1 DEF Secured, Evidence, Own
<1>5. CASE InstallFill
  <2>1. \/ UNCHANGED <<disk, aside>>
        \/ disk' = [disk EXCEPT ![sub.file] = Rev] /\ aside' = [aside EXCEPT ![sub.from] = "absent"]
    BY <1>5 DEF InstallFill
  <2>2. sub.from = <<"rn", "evidence">> => sub.file = Src /\ at = "r-restored"
    BY <1>t DEF Called
  <2>3. sub.from \in Aside /\ sub.file \in File
    BY <1>t DEF Calls
  <2>4. QED
    BY <1>t, <1>1, <2>1, <2>2, <2>3 DEF Secured, Evidence, Own, HasEvidence, Before
<1>6. CASE InstallUncleaned
  <2>1. disk' = [disk EXCEPT ![sub.file] = Rev] /\ aside' = aside
    BY <1>6 DEF InstallUncleaned, journals
  <2>2. QED
    BY <1>t, <1>1, <2>1 DEF Secured, Evidence, Own
<1>7. QED
  BY <1>2, <1>3, <1>4, <1>5, <1>6 DEF Writing

(* What Secured says of the step that is next.                             *)
Telling == HasEvidence \cup Before \cup {"rec-evidence", "rec-evidence-made"}

(* The move itself removes nothing.                                        *)
LEMMA MovingSecured ==
  ASSUME TypeOK, Placed, Secured, Moving
  PROVE  Secured'
<1>t. /\ disk \in [File -> Content] /\ aside \in [Aside -> Private] /\ Src \in File
      /\ Dst \in File
      /\ <<"rn", "evidence">> \in Aside
  BY Links DEF TypeOK, Aside
<1>a. at' \notin Telling
  BY MovingTyped DEF Leads, InMove, Telling, HasEvidence, Before
<1>1. CASE PublishInstall
  <2>1. /\ UNCHANGED <<touched, kept>>
        /\ \/ disk[Dst] = "absent" /\ disk' = [disk EXCEPT ![Dst] = "old"]
           \/ disk' = disk
        /\ \E p \in {"blob", "evidence"} : aside' \in {aside, [aside EXCEPT ![<<"mv",
              p>>] = "absent"]}
    BY <1>1 DEF PublishInstall, Frame, Exists, RenameStays
  <2>2. Evidence' = Evidence
    BY <1>t, <2>1 DEF Evidence
  <2>3. QED
    BY <1>t, <1>a, <2>1, <2>2 DEF Secured, Own, Telling, HasEvidence, Before
<1>2. CASE ~PublishInstall
  <2>1. UNCHANGED <<disk, touched, kept>>
        /\ aside'[<<"rn", "evidence">>] = aside[<<"rn", "evidence">>]
    BY <1>2, MovingFrame
  <2>2. QED
    BY <1>a, <2>1 DEF Secured, Own, Telling, HasEvidence, Before, Evidence
<1>3. QED
  BY <1>1, <1>2

(* Neither do a stop or a fault; another program is marked as touching.    *)
LEMMA RestSecured ==
  ASSUME TypeOK, Placed, Secured, Open \/ Opened \/ Quit \/ Crash \/ Fault \/ External
  PROVE  Secured'
<1>t. /\ disk \in [File -> Content] /\ Src \in File /\ Dst \in File
  BY Links DEF TypeOK
<1>1. CASE Open \/ Opened \/ Quit \/ Crash
  <2>1. UNCHANGED <<disk, touched, journals>> /\ at' \notin Telling
    BY <1>1 DEF Open, Opened, Quit, Crash, Go, Telling, HasEvidence, Before
  <2>2. QED
    BY <2>1 DEF journals, Secured, Own, Telling, HasEvidence, Before, Evidence
<1>2. CASE Fault
  <2>1. UNCHANGED <<touched, aside, kept>>
        /\ (disk' # disk => disk' = [disk EXCEPT ![Dst] = "old"])
    BY <1>2 DEF Fault
  <2>2. at' \in {"rec-undone", "resume-restored", "rec-installed", "m-retire", "r-retire",
        "down",
                 "idle"}
    BY <1>2 DEF Fault, UndoEnds, Go, Receipt, RenameConflict, RenameEnds
  <2>3. at' \notin Telling
    BY <2>2 DEF Telling, HasEvidence, Before
  <2>4. QED
    BY <1>t, <2>1, <2>3 DEF Secured, Own, Telling, HasEvidence, Before, Evidence
<1>3. CASE External
  <2>1. PICK f \in File, c \in {"foreign", "absent", "old"} :
          disk' = [disk EXCEPT ![f] = c] /\ touched' = touched \cup {f}
    BY <1>3 DEF External
  <2>2. UNCHANGED <<aside, kept, at>>
    BY <1>3 DEF External, journals, local
  <2>3. QED
    BY <1>t, <2>1, <2>2 DEF Secured, Own, Evidence
<1>4. QED
  BY <1>1, <1>2, <1>3

(* The source is secured always.                                           *)
LEMMA AlwaysSecured == Spec => []Secured
<1>1. Init => Secured
  BY Links, InitTyped, Names DEF Init, Secured, Own, HasEvidence, Before
<1>2. TypeOK /\ Placed /\ Secured /\ [Next]_vars => Secured'
  <2>1. CASE UNCHANGED vars
    BY <2>1 DEF vars, journals, local, Secured, Own, Evidence
  <2>2. CASE Next
    BY <2>2, WritingSecured, MovingSecured, RenamingSecured, RecoveringSecured, RestSecured
       DEF Next, Program
  <2>3. QED
    BY <2>1, <2>2
<1>3. QED
  BY <1>1, <1>2, AlwaysPlaced, PTL DEF Spec

(* The moved file is there, at every moment and whatever fails: under one   *)
(* of its two names or, once somebody changed the new one, in the recovery  *)
(* copy that the rename made before it removed the old one.                 *)
THEOREM SourceAlwaysSafe == Spec => []SourceSafe
<1>1. Secured => SourceSafe
  BY DEF Secured, SourceSafe, Evidence
<1>2. QED
  BY <1>1, AlwaysSecured, PTL

-----------------------------------------------------------------------------
(* The steps of the program and what others have put in the vault.         *)

\* A step that changes one file, whose bytes were the program's own.
Overwrites(f, c) == disk' # disk => disk[f] # "foreign" /\ disk' = [disk EXCEPT ![f] = c]
Spares == \A f \in File : disk[f] = "foreign" => disk'[f] = "foreign"

(* Such a step spares what others have written.                            *)
LEMMA Sparing ==
  ASSUME TypeOK, NEW f \in File, NEW c \in Content, Overwrites(f, c)
  PROVE  Spares
BY DEF TypeOK, Overwrites, Spares

(* The rename overwrites only its own bytes.                               *)
LEMMA RenamingSpares ==
  ASSUME TypeOK, Renaming
  PROVE  Spares
<1>t. Src \in File /\ Dst \in File /\ Rev \in {"old", "new"}
      /\ {"old", "absent"} \subseteq Content
  BY Links, RevOwn DEF Content
<1>1. CASE RenameCheck \/ RenameFinal \/ RenameBlob \/ RenameEvidence \/ RenameStaged
  <2>1. disk' = disk
    BY <1>1 DEF RenameCheck, RenameFinal, RenameBlob, RenameEvidence, RenameStaged, FilesStay
  <2>2. QED
    BY <2>1 DEF Spares
<1>2. CASE RenameInstalled \/ RenameLinkedStrict \/ RenamePublished \/ RenameRemove
      \/ RenameRemoved
  <2>1. disk' = disk
    BY <1>2 DEF RenameInstalled, RenameLinkedStrict, RenamePublished, RenameRemove,
       RenameRemoved, FilesStay
  <2>2. QED
    BY <2>1 DEF Spares
<1>3. CASE RenameRestored \/ RenameRetire
  <2>1. disk' = disk
    BY <1>3 DEF RenameRestored, RenameRetire, FilesStay
  <2>2. QED
    BY <2>1 DEF Spares
<1>4. CASE RenamePublish
  <2>1. disk' # disk => disk[Dst] # "foreign"
    BY <1>t, <1>4 DEF RenamePublish, NativePublish, Exists, RenameStays
  <2>2. disk' # disk => disk' = [disk EXCEPT ![Dst] = "old"]
    BY <1>4 DEF RenamePublish, NativePublish, RenameStays
  <2>3. QED
    BY <1>t, <2>1, <2>2, Sparing DEF Overwrites
<1>5. CASE RenameLinked
  <2>1. disk' # disk => disk[Dst] # "foreign"
    BY <1>t, <1>5 DEF RenameLinked, Holds
  <2>2. disk' # disk => disk' = [disk EXCEPT ![Dst] = "absent"]
    BY <1>5 DEF RenameLinked
  <2>3. QED
    BY <1>t, <2>1, <2>2, Sparing DEF Overwrites
<1>6. CASE RenameClaim
  <2>1. disk' # disk => disk[Src] # "foreign"
    BY <1>t, <1>6 DEF RenameClaim, Holds
  <2>2. disk' # disk => disk' = [disk EXCEPT ![Src] = "absent"]
    BY <1>6 DEF RenameClaim
  <2>3. QED
    BY <1>t, <2>1, <2>2, Sparing DEF Overwrites
<1>7. QED
  BY <1>1, <1>2, <1>3, <1>4, <1>5, <1>6 DEF Renaming

(* So does the recovery.                                                   *)
LEMMA RecoveringSpares ==
  ASSUME TypeOK, Recovering
  PROVE  Spares
<1>t. Src \in File /\ Dst \in File /\ Rev \in {"old", "new"}
      /\ {"old", "absent"} \subseteq Content
  BY Links, RevOwn DEF Content
<1>1. CASE RecoverWrite \/ RecoverJournal \/ RecoverPublished \/ RecoverPublishedEnd
      \/ RecoverUndone
  <2>1. disk' = disk
    BY <1>1 DEF RecoverWrite, RecoverJournal, RecoverPublished, RecoverPublishedEnd,
       RecoverUndone, FilesStay
  <2>2. QED
    BY <2>1 DEF Spares
<1>2. CASE RecoverStage \/ RecoverBlob \/ RecoverInstalled \/ RecoverEvidence
      \/ RecoverEvidenceMade
  <2>1. disk' = disk
    BY <1>2 DEF RecoverStage, RecoverBlob, RecoverInstalled, RecoverEvidence,
       RecoverEvidenceMade, FilesStay
  <2>2. QED
    BY <2>1 DEF Spares
<1>3. CASE RecoverRemoved \/ UndoCheck \/ UndoStage \/ UndoInstall
  <2>1. disk' = disk
    BY <1>3 DEF RecoverRemoved, UndoCheck, UndoStage, UndoInstall, FilesStay
  <2>2. QED
    BY <2>1 DEF Spares
<1>4. CASE RecoverRename
  <2>1. disk' # disk => disk[Dst] # "foreign"
    BY <1>t, <1>4 DEF RecoverRename
  <2>2. disk' # disk => disk' = [disk EXCEPT ![Dst] = "absent"]
    BY <1>4 DEF RecoverRename
  <2>3. QED
    BY <1>t, <2>1, <2>2, Sparing DEF Overwrites
<1>5. CASE RecoverPublish
  <2>1. disk' # disk => disk[Dst] # "foreign"
    BY <1>t, <1>5 DEF RecoverPublish, NativePublish, Exists, RenameStays
  <2>2. disk' # disk => disk' = [disk EXCEPT ![Dst] = "old"]
    BY <1>5 DEF RecoverPublish, NativePublish, RenameStays
  <2>3. QED
    BY <1>t, <2>1, <2>2, Sparing DEF Overwrites
<1>6. CASE RecoverRemove
  <2>1. disk' # disk => disk[Src] # "foreign"
    BY <1>t, <1>6 DEF RecoverRemove, Holds
  <2>2. disk' # disk => disk' = [disk EXCEPT ![Src] = "absent"]
    BY <1>6 DEF RecoverRemove
  <2>3. QED
    BY <1>t, <2>1, <2>2, Sparing DEF Overwrites
<1>7. CASE UndoCopied
  <2>1. disk' # disk => disk[Dst] # "foreign"
    BY <1>t, <1>7 DEF UndoCopied, Doubled, Holds
  <2>2. disk' # disk => disk' = [disk EXCEPT ![Dst] = "absent"]
    BY <1>7 DEF UndoCopied
  <2>3. QED
    BY <1>t, <2>1, <2>2, Sparing DEF Overwrites
<1>8. QED
  BY <1>1, <1>2, <1>3, <1>4, <1>5, <1>6, <1>7 DEF Recovering

(* So do a note write and an installation.                                 *)
LEMMA WritingSpares ==
  ASSUME TypeOK, Placed, Writing \/ InstallUncleaned
  PROVE  Spares
<1>t. sub.file \in File /\ Rev \in Content \ {"foreign"} /\ "torn" \in Content /\ Called
      /\ {"old", "new"} \subseteq Content
  BY RevOwn DEF TypeOK, Placed, Calls, Content
<1>1. CASE WriteStage \/ WriteClose
  <2>1. disk' = disk
    BY <1>1 DEF WriteStage, WriteClose
  <2>2. QED
    BY <2>1 DEF Spares
<1>2. CASE WriteSwap
  <2>1. sub.base \in {"old", "new"} /\ sub.next \in {"old", "new"}
    BY <1>t, <1>2 DEF WriteSwap, Called
  <2>2. disk' # disk => disk[sub.file] = sub.base
    BY <1>2 DEF WriteSwap, Holds
  <2>3. disk' # disk => disk' = [disk EXCEPT ![sub.file] = sub.next]
    BY <1>2 DEF WriteSwap
  <2>4. QED
    BY <1>t, <2>1, <2>2, <2>3, Sparing DEF Overwrites
<1>3. CASE InstallMake
  <2>1. disk' # disk => disk[sub.file] = "absent"
    BY <1>3 DEF InstallMake, Exists
  <2>2. disk' # disk => disk' = [disk EXCEPT ![sub.file] = "torn"]
    BY <1>3 DEF InstallMake
  <2>3. QED
    BY <1>t, <2>1, <2>2, Sparing DEF Overwrites
<1>4. CASE InstallFill \/ InstallUncleaned
  <2>1. disk' # disk => disk[sub.file] = "torn"
    BY <1>4 DEF InstallFill, InstallUncleaned, Holds
  <2>2. disk' # disk => disk' = [disk EXCEPT ![sub.file] = Rev]
    BY <1>4 DEF InstallFill, InstallUncleaned
  <2>3. QED
    BY <1>t, <2>1, <2>2, Sparing DEF Overwrites
<1>5. QED
  BY <1>1, <1>2, <1>3, <1>4 DEF Writing

(* So does every step that is not another program's.                       *)
LEMMA StepSpares ==
  ASSUME TypeOK, Placed, Next, ~External
  PROVE  Spares
<1>t. Dst \in File /\ "old" \in Content
  BY Links DEF Content
<1>1. CASE Moving /\ ~PublishInstall
  BY <1>1, MovingFrame DEF Spares
<1>2. CASE PublishInstall
  <2>1. disk' # disk => disk[Dst] # "foreign"
    BY <1>2 DEF PublishInstall, Exists, RenameStays
  <2>2. disk' # disk => disk' = [disk EXCEPT ![Dst] = "old"]
    BY <1>2 DEF PublishInstall, RenameStays
  <2>3. QED
    BY <1>t, <2>1, <2>2, Sparing DEF Overwrites
<1>3. CASE Open \/ Opened \/ Quit \/ Crash
  <2>1. disk' = disk
    BY <1>3 DEF Open, Opened, Quit, Crash
  <2>2. QED
    BY <2>1 DEF Spares
<1>4. CASE Fault
  <2>1. disk' # disk => disk[Dst] = "absent"
    BY <1>4 DEF Fault, Exists
  <2>2. disk' # disk => disk' = [disk EXCEPT ![Dst] = "old"]
    BY <1>4 DEF Fault
  <2>3. QED
    BY <1>t, <2>1, <2>2, Sparing DEF Overwrites
<1>5. QED
  BY <1>1, <1>2, <1>3, <1>4, WritingSpares, RenamingSpares, RecoveringSpares DEF Next, Program

(* No step of the move, of the rename, of a recovery or of a rollback, and  *)
(* no failing call, replaces or removes what another program has put under  *)
(* a name.                                                                  *)
THEOREM OthersAlwaysStay == Spec => OthersStay
<1>1. TypeOK /\ Placed /\ [Next]_vars
        => [~External => \A f \in File : disk[f] = "foreign" => disk'[f] = "foreign"]_vars
  BY StepSpares DEF Spares
<1>2. QED
  BY <1>1, AlwaysPlaced, PTL DEF Spec, OthersStay

-----------------------------------------------------------------------------
(* The links and the receipts: what is known of the files nobody else has   *)
(* changed.                                                                 *)

Ours(f) == f \notin touched
Bare == story.links = << >>
Places == 1 .. Len(story.links)
InWrite == {"entry-wrote", "diverged", "rollback-wrote"}
InPublish == {"publish", "publish-install", "publish-verify", "published"}
InEntries == {"entry", "entry-wrote", "diverged", "spoilt", "verify", "corpus", "final"}
InRollback == {"rollback", "rollback-wrote"}
InRecovery == {"rec-rename", "rec-publish", "rec-published", "rec-undone", "rec-stage", "rec-blob",
               "rec-installed", "rec-evidence", "rec-evidence-made", "rec-remove", "rec-removed"}

\* Which phase of the journal a step works in.
Phases ==
  /\ Bare => mv.phase = "none" /\ at \notin InMove \cup {"m-check", "m-retire"} /\ ret # "renamed"
  /\ ~Bare /\ mv.phase = "none" => at \in {"m-check", "idle", "down", "recover"} /\ rn = "none"
  /\ ~Bare /\ (rn # "none" \/ at \in InRename) => mv.phase = "renaming"
  /\ mv.phase \in {"intent", "renaming"} => ~story.strict
  /\ mv.phase \in {"publishing", "published"} => story.strict
  /\ at \in InEntries => mv.phase = "applying"
  /\ at \in InRollback => mv.phase = "rolling-back"
  /\ at \in {"resume", "resume-restored", "renamed"} => mv.phase = "renaming"
  /\ at = "committed" => mv.phase = "committed"
  /\ at = "renamed" => ret = "renamed"
  /\ at \in InPublish \cup {"final"} => story.strict
  /\ at \in InPublish \cup {"apply"} => mv.phase # "rolling-back"
  /\ at \in {"publish-install", "publish-verify", "apply"} => mv.phase # "committed"
  /\ at \in {"published", "apply"} => mv.phase # "publishing"
  /\ at \in InMove \cup {"m-check", "r-check", "m-retire"} => rn = "none"
  /\ at \in InRecovery \/ (at \in InUndo /\ rn # "none") => ret # "renamed"
  /\ at \in {"r-publish", "r-published", "rec-publish", "rec-published"} => story.strict

\* What is written where: an entry, or one of the two names.
Targets ==
  /\ sub.step \in {"write", "swap", "close"} => at \in InWrite /\ sub.file = Entry
  /\ sub.step \in {"make", "fill"} =>
       \/ at \in {"r-installed", "rec-installed"} /\ sub.file = Dst
       \/ at \in {"r-restored", "undo-copied"} /\ sub.file = Src

\* What the status of an entry says of its note.
EntryTrue(k) ==
  LET f == story.links[k]  s == mv.status[k] IN
  /\ mv.phase \in {"renaming", "committed"} => s = "applied"
  /\ s = "conflict" => copies # {}
  /\ Ours(f) =>
       /\ s # "conflict"
       /\ s = "rolled-back" => mv.phase = "rolling-back" /\ disk[f] = "old"
       /\ s = "applied" /\ mv.phase # "rolling-back"
            /\ (f # Src \/ mv.phase \notin {"renaming", "committed"}) => disk[f] = "new"
       /\ mv.phase \in {"intent", "publishing"} => disk[f] = "old"
       /\ f # Src => disk[f] \in {"old", "new"}
Entries == mv.phase # "none" => \A k \in Places : EntryTrue(k)

\* The entries before the one that is worked on, or behind it in a rollback.
Passed ==
  /\ at \in {"entry", "entry-wrote"} => \A k \in Places : k < i => mv.status[k] = "applied"
  /\ at \in {"verify", "corpus", "final"} => \A k \in Places : mv.status[k] = "applied"
  /\ at \in InRollback =>
       \A k \in Places : k > i /\ Ours(story.links[k]) => disk[story.links[k]] = "old"

\* The write of an entry nobody else has changed goes well.
Rewriting(base, next) ==
  /\ sub.step \in {"write", "swap", "close"} => sub.base = base /\ sub.next = next
  /\ Ours(Entry) /\ sub.step \in {"write", "swap"} => disk[Entry] = base
  /\ Ours(Entry) /\ sub.step \notin {"write", "swap"} => disk[Entry] = next
  /\ Ours(Entry) /\ sub.step = "none" => ok
Written ==
  /\ at = "entry-wrote" => mv.status[i] = "pending" /\ Rewriting("old", "new")
  /\ at = "rollback-wrote" => mv.status[i] \in {"pending", "applied"} /\ Rewriting("new", "old")
  /\ at = "diverged" => ~Ours(Entry)
  /\ at \in InWrite /\ sub.step = "none" /\ ~ok => copies # {}

\* The two names while the links are rewritten.
Still == mv.phase \in {"intent", "publishing", "published", "applying", "rolling-back"}
Standing ==
  /\ Still /\ Ours(Src) => Own(Src) /\ (Src \notin Linked => disk[Src] = "old")
  /\ mv.phase \in {"published", "applying"} /\ story.strict /\ Ours(Dst) => disk[Dst] = "old"
  /\ mv.phase \in {"published", "applying"} /\ at \in {"publish-install", "publish-verify"}
       => ~Ours(Dst)
  /\ mv.phase = "committed" /\ Ours(Src) => disk[Src] = IF story.strict THEN "old" ELSE "absent"
  /\ mv.phase = "committed" /\ Ours(Dst) => disk[Dst] = Rev

\* The two names while the file is renamed.
SrcHeld == Before \cup {"r-check", "rec-stage", "rec-blob", "rec-installed", "rec-evidence",
                        "rec-evidence-made", "rec-remove"}
DstHeld == InUndo \cup {"r-claim", "rec-evidence", "rec-evidence-made", "rec-remove",
                        "r-removed", "rec-removed"}
Either == disk[Src] = Rev \/ (disk[Src] \in {"absent", "torn"} /\ (Ours(Dst) => disk[Dst] = Rev))
Named ==
  /\ (Bare \/ mv.phase = "renaming") /\ Ours(Src) => Either
  /\ at \in SrcHeld /\ Ours(Src) => disk[Src] = Rev
  /\ at \in DstHeld /\ Ours(Dst) => disk[Dst] = Rev
  /\ at \in {"r-removed", "rec-removed"} /\ Ours(Src) => disk[Src] = "absent"
  /\ at = "r-removed" => Evidence
  /\ at = "r-restored" => ~Ours(Dst)
  /\ at = "r-restored" /\ Ours(Src) =>
       /\ sub.step = "make" => disk[Src] = "absent"
       /\ sub.step = "fill" => disk[Src] = "torn"
       /\ sub.step \notin {"make", "fill"} => disk[Src] = Rev
  /\ at \in {"r-retire", "renamed"} /\ ret = "renamed" =>
       /\ ~ok /\ Ours(Src) => disk[Src] = Rev
       /\ ok /\ Ours(Src) => disk[Src] = "absent"
       /\ ok /\ Ours(Dst) => disk[Dst] = Rev
  /\ at = "resume-restored" /\ ok /\ Ours(Src) => disk[Src] = Rev
  /\ at = "resume-restored" /\ ~ok /\ Ours(Dst) => disk[Dst] = Rev
  /\ at = "apply" /\ mv.phase = "renaming" /\ Ours(Src) => disk[Src] = Rev

\* How a move may end: all rewritten, all as before, or disturbed.
AllAre(c) == \A f \in Linked \ (touched \cup {Src}) : disk[f] = c
Forward ==
  /\ AllAre("new")
  /\ (Ours(Dst) => Own(Dst)) \/ (~Ours(Src) /\ receipt.move = "manual-conflict")
Backward == AllAre("old") /\ (Ours(Src) => Own(Src))
Halfway ==
  /\ touched # {} /\ \A f \in Linked \ (touched \cup {Src}) : disk[f] \in {"old", "new"}
  /\ (Ours(Src) => Own(Src)) /\ (Ours(Dst) => Own(Dst))
Finished ==
  /\ ~Bare /\ (at = "m-retire" \/ mv.phase = "none") => Forward \/ Backward \/ Halfway
  /\ at = "m-check" => Backward

Linking == Phases /\ Targets /\ Entries /\ Passed /\ Written /\ Standing /\ Named /\ Finished
(* The steps of the rename and of its recovery do not touch the notes: of   *)
(* the invariant only what it says of the two names is at stake.            *)
Renames ==
  /\ UNCHANGED <<story, touched, mv, i, first, copies, draft, ret>>
  /\ receipt'.move = receipt.move
  /\ \/ sub'.step = "none"
     \/ /\ sub'.step \in {"make", "fill"}
        /\ \/ at' \in {"r-installed", "rec-installed"} /\ sub'.file = Dst
           \/ at' \in {"r-restored", "undo-copied"} /\ sub'.file = Src
  /\ at \in InRename
  /\ at' \in InUndo => UNCHANGED rn
  /\ at' \in InMove \cup {"r-check"} => rn' = "none"
  /\ at' \in InRecovery => at \in InRecovery \cup InUndo /\ rn # "none"
  /\ at' \in InUndo => at \in InUndo \cup {"rec-rename"}
  /\ at' = "r-publish" => at = "r-staged" /\ story.strict
  /\ at' = "r-published" => at = "r-linked" /\ story.strict
  /\ at' \in {"rec-publish", "rec-published"} => at \in {"rec-publish", "rec-published"} \/ story.strict
  /\ at' \in InRename \/ at' = ret \/ (at' = "resume-restored" /\ at \in InUndo /\ rn = "none")
  /\ \A f \in File \ {Src, Dst} : disk'[f] = disk[f]

(* The rest is kept by every step of this kind.                             *)
LEMMA RenamesKeep ==
  ASSUME TypeOK, Placed, Linking, Renames
  PROVE  Phases' /\ Targets' /\ Entries' /\ Passed' /\ Written' /\ Standing' /\ Finished'
<1>1. ret \in {"idle", "renamed", "recover"} /\ (at \in InUndo /\ rn = "none" => mv.phase # "none")
  BY DEF Placed, Journalled
<1>2. /\ Bare => mv.phase = "none" /\ ret # "renamed"
      /\ ~Bare => mv.phase = "renaming"
      /\ mv.phase = "renaming" => ~story.strict
  BY DEF Linking, Phases, Renames
<1>3. /\ at' \notin InMove \ {"renamed", "resume-restored"} /\ at' \notin {"m-check", "m-retire"}
      /\ at' \in {"renamed", "resume-restored"} => ~Bare
  BY <1>1, <1>2 DEF Renames, InRename, InUndo, InMove
<1>4. Phases'
  BY <1>1, <1>2, <1>3 DEF Phases, Renames, Bare, Linking, InMove, InEntries, InRollback,
       InPublish, InWrite,
         InRename, InUndo, InRecovery
<1>5. Targets'
  BY DEF Targets, Renames
<1>6. Entries'
  <2>1. SUFFICES ASSUME mv.phase # "none", NEW k \in Places PROVE EntryTrue(k)'
    BY DEF Entries, Renames, Places
  <2>2. mv.phase = "renaming" /\ EntryTrue(k)
    BY <1>2, <2>1 DEF Linking, Entries
  <2>3. story.links[k] \in File \ {Dst}
    BY <2>1, Links DEF Places
  <2>4. QED
    BY <2>2, <2>3 DEF EntryTrue, Renames, Ours
<1>7. Passed'
  BY <1>3 DEF Passed, InMove, InRollback
<1>8. Written'
  BY <1>3 DEF Written, InMove, InWrite
<1>9. Standing'
  BY <1>2, <1>3 DEF Standing, Still, Renames, Ours, Own, Rev, InMove
<1>10. Finished'
  BY <1>2, <1>3 DEF Finished, Renames, Bare
<1>11. QED
  BY <1>4, <1>5, <1>6, <1>7, <1>8, <1>9, <1>10

(* The steps of the rename keep what is said of the two names.             *)
LEMMA RenamingNamed ==
  ASSUME TypeOK, Placed, Secured, Linking, Renaming
  PROVE  Renames /\ Named'
<1>t. /\ disk \in [File -> Content] /\ aside \in [Aside -> Private] /\ Src \in File /\ Dst \in File
      /\ Src # Dst /\ Rev \in {"old", "new"} /\ sub.file \in File
      /\ receipt \in [move : Outcome, rename : Outcome]
      /\ \A j \in {"rn", "mv"}, p \in {"blob", "evidence", "undo"} : <<j, p>> \in Aside
  BY Links, RevOwn, Names DEF TypeOK, Aside, Calls
<1>n. Named /\ (at \in HasEvidence => Evidence)
      /\ (Bare => ret # "renamed") /\ ret \in {"idle", "renamed", "recover"}
      /\ (at \in InMove \cup {"r-check", "m-retire"} => rn = "none")
      /\ (at \in InRecovery \/ (at \in InUndo /\ rn # "none") => ret # "renamed")
      /\ (at \in {"r-publish", "r-published", "rec-publish", "rec-published"} => story.strict)
      /\ (at \in InRename \ (InUndo \cup {"r-check"}) => rn # "none")
      /\ (at \in InRename /\ ~Bare => ~story.strict)
  BY DEF Linking, Phases, Secured, Placed, Journalled, InRename, InUndo
<1>1. CASE RenameCheck
  <2>1. Renames
    BY <1>t, <1>n, <1>1 DEF Renames, InRename, InUndo, InMove, InRecovery, RenameCheck, At, Go,
         FilesStay, MoveStays, Frame, Ready, Holds, Exists
  <2>2. Rev' = Rev
    BY <2>1 DEF Renames, Rev, Linked
  <2>3. Named'
    BY <1>t, <1>n, <1>1, <2>1, <2>2 DEF Renames, Named, Bare, Either, Ours, Evidence, InRename,
         InRecovery, InMove, SrcHeld, DstHeld, Before, HasEvidence, InUndo,
         RenameCheck, At, Go, FilesStay, MoveStays, Frame, Ready, Holds, Exists
  <2>4. QED
    BY <2>1, <2>3
<1>2. CASE RenameFinal
  <2>1. Renames
    BY <1>t, <1>n, <1>2 DEF Renames, InRename, InUndo, InMove, InRecovery, RenameFinal, At, Go,
         FilesStay, MoveStays, Frame, RenameConflict, Ready, RenameEnds, Holds, Exists
  <2>2. Rev' = Rev
    BY <2>1 DEF Renames, Rev, Linked
  <2>3. Named'
    BY <1>t, <1>n, <1>2, <2>1, <2>2 DEF Renames, Named, Bare, Either, Ours, Evidence, InRename,
         InRecovery, InMove, SrcHeld, DstHeld, Before, HasEvidence, InUndo,
         RenameFinal, At, Go, FilesStay, MoveStays, Frame, RenameConflict, Ready, RenameEnds,
         Holds, Exists
  <2>4. QED
    BY <2>1, <2>3
<1>3. CASE RenameBlob
  <2>1. Renames
    BY <1>t, <1>n, <1>3 DEF Renames, InRename, InUndo, InMove, InRecovery, RenameBlob, At, Go,
         FilesStay, MoveStays, Frame
  <2>2. Rev' = Rev
    BY <2>1 DEF Renames, Rev, Linked
  <2>3. Named'
    BY <1>t, <1>n, <1>3, <2>1, <2>2 DEF Renames, Named, Bare, Either, Ours, Evidence, InRename,
         InRecovery, InMove, SrcHeld, DstHeld, Before, HasEvidence, InUndo,
         RenameBlob, At, Go, FilesStay, MoveStays, Frame
  <2>4. QED
    BY <2>1, <2>3
<1>4. CASE RenameEvidence
  <2>1. Renames
    BY <1>t, <1>n, <1>4 DEF Renames, InRename, InUndo, InMove, InRecovery, RenameEvidence, At,
         Go, FilesStay, MoveStays, Frame
  <2>2. Rev' = Rev
    BY <2>1 DEF Renames, Rev, Linked
  <2>3. Named'
    BY <1>t, <1>n, <1>4, <2>1, <2>2 DEF Renames, Named, Bare, Either, Ours, Evidence, InRename,
         InRecovery, InMove, SrcHeld, DstHeld, Before, HasEvidence, InUndo,
         RenameEvidence, At, Go, FilesStay, MoveStays, Frame
  <2>4. QED
    BY <2>1, <2>3
<1>5. CASE RenameStaged
  <2>1. Renames
    BY <1>t, <1>n, <1>5 DEF Renames, InRename, InUndo, InMove, InRecovery, RenameStaged, At, Go,
         FilesStay, MoveStays, RenameStays, Frame, RenameConflict, Install, Ready, RenameEnds,
         NoSub, Holds, Exists
  <2>2. Rev' = Rev
    BY <2>1 DEF Renames, Rev, Linked
  <2>3. Named'
    BY <1>t, <1>n, <1>5, <2>1, <2>2 DEF Renames, Named, Bare, Either, Ours, Evidence, InRename,
         InRecovery, InMove, SrcHeld, DstHeld, Before, HasEvidence, InUndo,
         RenameStaged, At, Go, FilesStay, MoveStays, RenameStays, Frame, RenameConflict,
         Install, Ready, RenameEnds, NoSub, Holds, Exists
  <2>4. QED
    BY <2>1, <2>3
<1>6. CASE RenamePublish
  <2>1. Renames
    BY <1>t, <1>n, <1>6 DEF Renames, InRename, InUndo, InMove, InRecovery, RenamePublish, At,
         MoveStays, Frame, NativePublish, Exists, RenameConflict, Go, RenameEnds, RenameStays
  <2>2. Rev' = Rev
    BY <2>1 DEF Renames, Rev, Linked
  <2>3. Named'
    BY <1>t, <1>n, <1>6, <2>1, <2>2 DEF Renames, Named, Bare, Either, Ours, Evidence, InRename,
         InRecovery, InMove, SrcHeld, DstHeld, Before, HasEvidence, InUndo,
         RenamePublish, At, MoveStays, Frame, NativePublish, Exists, RenameConflict, Go,
         RenameEnds, RenameStays
  <2>4. QED
    BY <2>1, <2>3
<1>7. CASE RenameInstalled
  <2>1. Renames
    BY <1>t, <1>n, <1>7 DEF Renames, InRename, InUndo, InMove, InRecovery, RenameInstalled, At,
         Go, FilesStay, MoveStays, Frame, RenameConflict, Doubled, RenameEnds, Holds, Exists
  <2>2. Rev' = Rev
    BY <2>1 DEF Renames, Rev, Linked
  <2>3. Named'
    BY <1>t, <1>n, <1>7, <2>1, <2>2 DEF Renames, Named, Bare, Either, Ours, Evidence, InRename,
         InRecovery, InMove, SrcHeld, DstHeld, Before, HasEvidence, InUndo,
         RenameInstalled, At, Go, FilesStay, MoveStays, Frame, RenameConflict, Doubled,
         RenameEnds, Holds, Exists
  <2>4. QED
    BY <2>1, <2>3
<1>8. CASE RenameLinkedStrict
  <2>1. Renames
    BY <1>t, <1>n, <1>8 DEF Renames, InRename, InUndo, InMove, InRecovery, RenameLinkedStrict,
         At, Go, FilesStay, MoveStays, Frame, RenameConflict, RenameEnds
  <2>2. Rev' = Rev
    BY <2>1 DEF Renames, Rev, Linked
  <2>3. Named'
    BY <1>t, <1>n, <1>8, <2>1, <2>2 DEF Renames, Named, Bare, Either, Ours, Evidence, InRename,
         InRecovery, InMove, SrcHeld, DstHeld, Before, HasEvidence, InUndo,
         RenameLinkedStrict, At, Go, FilesStay, MoveStays, Frame, RenameConflict, RenameEnds
  <2>4. QED
    BY <2>1, <2>3
<1>9. CASE RenamePublished
  <2>1. Renames
    BY <1>t, <1>n, <1>9 DEF Renames, InRename, InUndo, InMove, InRecovery, RenamePublished, At,
         FilesStay, MoveStays, Frame, RenameConflict, Doubled, RenameEnds, Go, Holds, Exists
  <2>2. Rev' = Rev
    BY <2>1 DEF Renames, Rev, Linked
  <2>3. Named'
    BY <1>t, <1>n, <1>9, <2>1, <2>2 DEF Renames, Named, Bare, Either, Ours, Evidence, InRename,
         InRecovery, InMove, SrcHeld, DstHeld, Before, HasEvidence, InUndo,
         RenamePublished, At, FilesStay, MoveStays, Frame, RenameConflict, Doubled, RenameEnds,
         Go, Holds, Exists
  <2>4. QED
    BY <2>1, <2>3
<1>10. CASE RenameLinked
  <2>1. Renames
    BY <1>t, <1>n, <1>10 DEF Renames, InRename, InUndo, InMove, InRecovery, RenameLinked, At,
         Go, MoveStays, RenameStays, Frame, RenameConflict, Holds, RenameEnds
  <2>2. Rev' = Rev
    BY <2>1 DEF Renames, Rev, Linked
  <2>3. Named'
    BY <1>t, <1>n, <1>10, <2>1, <2>2 DEF Renames, Named, Bare, Either, Ours, Evidence, InRename,
         InRecovery, InMove, SrcHeld, DstHeld, Before, HasEvidence, InUndo,
         RenameLinked, At, Go, MoveStays, RenameStays, Frame, RenameConflict, Holds, RenameEnds
  <2>4. QED
    BY <2>1, <2>3
<1>11. CASE RenameRemove
  <2>1. Renames
    BY <1>t, <1>n, <1>11 DEF Renames, InRename, InUndo, InMove, InRecovery, RenameRemove, At,
         Go, FilesStay, MoveStays, RenameStays, Frame, RenameConflict, Doubled, RenameEnds,
         Holds, Exists
  <2>2. Rev' = Rev
    BY <2>1 DEF Renames, Rev, Linked
  <2>3. Named'
    BY <1>t, <1>n, <1>11, <2>1, <2>2 DEF Renames, Named, Bare, Either, Ours, Evidence, InRename,
         InRecovery, InMove, SrcHeld, DstHeld, Before, HasEvidence, InUndo,
         RenameRemove, At, Go, FilesStay, MoveStays, RenameStays, Frame, RenameConflict,
         Doubled, RenameEnds, Holds, Exists
  <2>4. QED
    BY <2>1, <2>3
<1>12. CASE RenameClaim
  <2>1. Renames
    BY <1>t, <1>n, <1>12 DEF Renames, InRename, InUndo, InMove, InRecovery, RenameClaim, At, Go,
         MoveStays, RenameStays, Frame, RenameConflict, Holds, RenameEnds
  <2>2. Rev' = Rev
    BY <2>1 DEF Renames, Rev, Linked
  <2>3. Named'
    BY <1>t, <1>n, <1>12, <2>1, <2>2 DEF Renames, Named, Bare, Either, Ours, Evidence, InRename,
         InRecovery, InMove, SrcHeld, DstHeld, Before, HasEvidence, InUndo,
         RenameClaim, At, Go, MoveStays, RenameStays, Frame, RenameConflict, Holds, RenameEnds
  <2>4. QED
    BY <2>1, <2>3
<1>13. CASE RenameRemoved
  <2>1. Renames
    BY <1>t, <1>n, <1>13 DEF Renames, InRename, InUndo, InMove, InRecovery, RenameRemoved, At,
         FilesStay, MoveStays, Frame, RenameConflict, Install, Holds, Exists, RenameEnds, Go,
         NoSub
  <2>2. Rev' = Rev
    BY <2>1 DEF Renames, Rev, Linked
  <2>3. Named'
    BY <1>t, <1>n, <1>13, <2>1, <2>2 DEF Renames, Named, Bare, Either, Ours, Evidence, InRename,
         InRecovery, InMove, SrcHeld, DstHeld, Before, HasEvidence, InUndo,
         RenameRemoved, At, FilesStay, MoveStays, Frame, RenameConflict, Install, Holds, Exists,
         RenameEnds, Go, NoSub
  <2>4. QED
    BY <2>1, <2>3
<1>14. CASE RenameRestored
  <2>1. Renames
    BY <1>t, <1>n, <1>14 DEF Renames, InRename, InUndo, InMove, InRecovery, RenameRestored, At,
         FilesStay, MoveStays, RenameStays, Frame, RenameConflict, RenameEnds, Go
  <2>2. Rev' = Rev
    BY <2>1 DEF Renames, Rev, Linked
  <2>3. Named'
    BY <1>t, <1>n, <1>14, <2>1, <2>2 DEF Renames, Named, Bare, Either, Ours, Evidence, InRename,
         InRecovery, InMove, SrcHeld, DstHeld, Before, HasEvidence, InUndo,
         RenameRestored, At, FilesStay, MoveStays, RenameStays, Frame, RenameConflict,
         RenameEnds, Go
  <2>4. QED
    BY <2>1, <2>3
<1>15. CASE RenameRetire
  <2>1. Renames
    BY <1>t, <1>n, <1>15 DEF Renames, InRename, InUndo, InMove, InRecovery, RenameRetire, At,
         Go, FilesStay, MoveStays, Frame
  <2>2. Rev' = Rev
    BY <2>1 DEF Renames, Rev, Linked
  <2>3. Named'
    BY <1>t, <1>n, <1>15, <2>1, <2>2 DEF Renames, Named, Bare, Either, Ours, Evidence, InRename,
         InRecovery, InMove, SrcHeld, DstHeld, Before, HasEvidence, InUndo,
         RenameRetire, At, Go, FilesStay, MoveStays, Frame
  <2>4. QED
    BY <2>1, <2>3
<1>q. QED
  BY <1>1, <1>2, <1>3, <1>4, <1>5, <1>6, <1>7, <1>8, <1>9, <1>10, <1>11, <1>12, <1>13, <1>14,
       <1>15 DEF Renaming

(* So do those of its recovery.                                            *)
LEMMA RecoveringNamed ==
  ASSUME TypeOK, Placed, Secured, Linking, Recovering, ~RecoverWrite, ~RecoverJournal
  PROVE  Renames /\ Named'
<1>t. /\ disk \in [File -> Content] /\ aside \in [Aside -> Private] /\ Src \in File /\ Dst \in File
      /\ Src # Dst /\ Rev \in {"old", "new"} /\ sub.file \in File
      /\ receipt \in [move : Outcome, rename : Outcome]
      /\ \A j \in {"rn", "mv"}, p \in {"blob", "evidence", "undo"} : <<j, p>> \in Aside
  BY Links, RevOwn, Names DEF TypeOK, Aside, Calls
<1>n. Named /\ (at \in HasEvidence => Evidence)
      /\ (Bare => ret # "renamed") /\ ret \in {"idle", "renamed", "recover"}
      /\ (at \in InMove \cup {"r-check", "m-retire"} => rn = "none")
      /\ (at \in InRecovery \/ (at \in InUndo /\ rn # "none") => ret # "renamed")
      /\ (at \in {"r-publish", "r-published", "rec-publish", "rec-published"} => story.strict)
      /\ (at \in InRename \ (InUndo \cup {"r-check"}) => rn # "none")
      /\ (at \in InRename /\ ~Bare => ~story.strict)
  BY DEF Linking, Phases, Secured, Placed, Journalled, InRename, InUndo
<1>1. CASE RecoverRename
  <2>1. Renames
    BY <1>t, <1>n, <1>1 DEF Renames, InRename, InUndo, InMove, InRecovery, RecoverRename, At,
         Go, MoveStays, RenameStays, Frame, RenameConflict, RenameEnds
  <2>2. Rev' = Rev
    BY <2>1 DEF Renames, Rev, Linked
  <2>3. Named'
    BY <1>t, <1>n, <1>1, <2>1, <2>2 DEF Renames, Named, Bare, Either, Ours, Evidence, InRename,
         InRecovery, InMove, SrcHeld, DstHeld, Before, HasEvidence, InUndo,
         RecoverRename, At, Go, MoveStays, RenameStays, Frame, RenameConflict, RenameEnds
  <2>4. QED
    BY <2>1, <2>3
<1>2. CASE RecoverPublished
  <2>1. Renames
    BY <1>t, <1>n, <1>2 DEF Renames, InRename, InUndo, InMove, InRecovery, RecoverPublished, At,
         Go, FilesStay, MoveStays, RenameStays, Frame, RenameConflict, Doubled, Ready,
         RenameEnds, Holds, Exists
  <2>2. Rev' = Rev
    BY <2>1 DEF Renames, Rev, Linked
  <2>3. Named'
    BY <1>t, <1>n, <1>2, <2>1, <2>2 DEF Renames, Named, Bare, Either, Ours, Evidence, InRename,
         InRecovery, InMove, SrcHeld, DstHeld, Before, HasEvidence, InUndo,
         RecoverPublished, At, Go, FilesStay, MoveStays, RenameStays, Frame, RenameConflict,
         Doubled, Ready, RenameEnds, Holds, Exists
  <2>4. QED
    BY <2>1, <2>3
<1>3. CASE RecoverPublish
  <2>1. Renames
    BY <1>t, <1>n, <1>3 DEF Renames, InRename, InUndo, InMove, InRecovery, RecoverPublish, At,
         MoveStays, Frame, NativePublish, Exists, RenameConflict, Go, RenameEnds, RenameStays
  <2>2. Rev' = Rev
    BY <2>1 DEF Renames, Rev, Linked
  <2>3. Named'
    BY <1>t, <1>n, <1>3, <2>1, <2>2 DEF Renames, Named, Bare, Either, Ours, Evidence, InRename,
         InRecovery, InMove, SrcHeld, DstHeld, Before, HasEvidence, InUndo,
         RecoverPublish, At, MoveStays, Frame, NativePublish, Exists, RenameConflict, Go,
         RenameEnds, RenameStays
  <2>4. QED
    BY <2>1, <2>3
<1>4. CASE RecoverPublishedEnd
  <2>1. Renames
    BY <1>t, <1>n, <1>4 DEF Renames, InRename, InUndo, InMove, InRecovery, RecoverPublishedEnd,
         At, FilesStay, MoveStays, RenameStays, Frame, RenameConflict, Doubled, RenameEnds, Go,
         Holds, Exists
  <2>2. Rev' = Rev
    BY <2>1 DEF Renames, Rev, Linked
  <2>3. Named'
    BY <1>t, <1>n, <1>4, <2>1, <2>2 DEF Renames, Named, Bare, Either, Ours, Evidence, InRename,
         InRecovery, InMove, SrcHeld, DstHeld, Before, HasEvidence, InUndo,
         RecoverPublishedEnd, At, FilesStay, MoveStays, RenameStays, Frame, RenameConflict,
         Doubled, RenameEnds, Go, Holds, Exists
  <2>4. QED
    BY <2>1, <2>3
<1>5. CASE RecoverUndone
  <2>1. Renames
    BY <1>t, <1>n, <1>5 DEF Renames, InRename, InUndo, InMove, InRecovery, RecoverUndone, At,
         FilesStay, MoveStays, RenameStays, Frame, RenameConflict, RenameEnds, Go
  <2>2. Rev' = Rev
    BY <2>1 DEF Renames, Rev, Linked
  <2>3. Named'
    BY <1>t, <1>n, <1>5, <2>1, <2>2 DEF Renames, Named, Bare, Either, Ours, Evidence, InRename,
         InRecovery, InMove, SrcHeld, DstHeld, Before, HasEvidence, InUndo,
         RecoverUndone, At, FilesStay, MoveStays, RenameStays, Frame, RenameConflict,
         RenameEnds, Go
  <2>4. QED
    BY <2>1, <2>3
<1>6. CASE RecoverStage
  <2>1. Renames
    BY <1>t, <1>n, <1>6 DEF Renames, InRename, InUndo, InMove, InRecovery, RecoverStage, At, Go,
         FilesStay, MoveStays, Frame, RenameConflict, Install, RenameEnds, NoSub
  <2>2. Rev' = Rev
    BY <2>1 DEF Renames, Rev, Linked
  <2>3. Named'
    BY <1>t, <1>n, <1>6, <2>1, <2>2 DEF Renames, Named, Bare, Either, Ours, Evidence, InRename,
         InRecovery, InMove, SrcHeld, DstHeld, Before, HasEvidence, InUndo,
         RecoverStage, At, Go, FilesStay, MoveStays, Frame, RenameConflict, Install, RenameEnds,
         NoSub
  <2>4. QED
    BY <2>1, <2>3
<1>7. CASE RecoverBlob
  <2>1. Renames
    BY <1>t, <1>n, <1>7 DEF Renames, InRename, InUndo, InMove, InRecovery, RecoverBlob, At, Go,
         FilesStay, MoveStays, Frame
  <2>2. Rev' = Rev
    BY <2>1 DEF Renames, Rev, Linked
  <2>3. Named'
    BY <1>t, <1>n, <1>7, <2>1, <2>2 DEF Renames, Named, Bare, Either, Ours, Evidence, InRename,
         InRecovery, InMove, SrcHeld, DstHeld, Before, HasEvidence, InUndo,
         RecoverBlob, At, Go, FilesStay, MoveStays, Frame
  <2>4. QED
    BY <2>1, <2>3
<1>8. CASE RecoverInstalled
  <2>1. Renames
    BY <1>t, <1>n, <1>8 DEF Renames, InRename, InUndo, InMove, InRecovery, RecoverInstalled, At,
         Go, FilesStay, MoveStays, RenameStays, Frame, RenameConflict, Doubled, RenameEnds,
         Holds, Exists
  <2>2. Rev' = Rev
    BY <2>1 DEF Renames, Rev, Linked
  <2>3. Named'
    BY <1>t, <1>n, <1>8, <2>1, <2>2 DEF Renames, Named, Bare, Either, Ours, Evidence, InRename,
         InRecovery, InMove, SrcHeld, DstHeld, Before, HasEvidence, InUndo,
         RecoverInstalled, At, Go, FilesStay, MoveStays, RenameStays, Frame, RenameConflict,
         Doubled, RenameEnds, Holds, Exists
  <2>4. QED
    BY <2>1, <2>3
<1>9. CASE RecoverEvidence
  <2>1. Renames
    BY <1>t, <1>n, <1>9 DEF Renames, InRename, InUndo, InMove, InRecovery, RecoverEvidence, At,
         Go, FilesStay, MoveStays, Frame, RenameConflict, RenameEnds
  <2>2. Rev' = Rev
    BY <2>1 DEF Renames, Rev, Linked
  <2>3. Named'
    BY <1>t, <1>n, <1>9, <2>1, <2>2 DEF Renames, Named, Bare, Either, Ours, Evidence, InRename,
         InRecovery, InMove, SrcHeld, DstHeld, Before, HasEvidence, InUndo,
         RecoverEvidence, At, Go, FilesStay, MoveStays, Frame, RenameConflict, RenameEnds
  <2>4. QED
    BY <2>1, <2>3
<1>10. CASE RecoverEvidenceMade
  <2>1. Renames
    BY <1>t, <1>n, <1>10 DEF Renames, InRename, InUndo, InMove, InRecovery, RecoverEvidenceMade,
         At, Go, FilesStay, MoveStays, Frame
  <2>2. Rev' = Rev
    BY <2>1 DEF Renames, Rev, Linked
  <2>3. Named'
    BY <1>t, <1>n, <1>10, <2>1, <2>2 DEF Renames, Named, Bare, Either, Ours, Evidence, InRename,
         InRecovery, InMove, SrcHeld, DstHeld, Before, HasEvidence, InUndo,
         RecoverEvidenceMade, At, Go, FilesStay, MoveStays, Frame
  <2>4. QED
    BY <2>1, <2>3
<1>11. CASE RecoverRemove
  <2>1. Renames
    BY <1>t, <1>n, <1>11 DEF Renames, InRename, InUndo, InMove, InRecovery, RecoverRemove, At,
         Go, MoveStays, RenameStays, Frame, RenameConflict, Holds, RenameEnds
  <2>2. Rev' = Rev
    BY <2>1 DEF Renames, Rev, Linked
  <2>3. Named'
    BY <1>t, <1>n, <1>11, <2>1, <2>2 DEF Renames, Named, Bare, Either, Ours, Evidence, InRename,
         InRecovery, InMove, SrcHeld, DstHeld, Before, HasEvidence, InUndo,
         RecoverRemove, At, Go, MoveStays, RenameStays, Frame, RenameConflict, Holds, RenameEnds
  <2>4. QED
    BY <2>1, <2>3
<1>12. CASE RecoverRemoved
  <2>1. Renames
    BY <1>t, <1>n, <1>12 DEF Renames, InRename, InUndo, InMove, InRecovery, RecoverRemoved, At,
         FilesStay, MoveStays, RenameStays, Frame, RenameConflict, Install, Holds, RenameEnds,
         Go, NoSub
  <2>2. Rev' = Rev
    BY <2>1 DEF Renames, Rev, Linked
  <2>3. Named'
    BY <1>t, <1>n, <1>12, <2>1, <2>2 DEF Renames, Named, Bare, Either, Ours, Evidence, InRename,
         InRecovery, InMove, SrcHeld, DstHeld, Before, HasEvidence, InUndo,
         RecoverRemoved, At, FilesStay, MoveStays, RenameStays, Frame, RenameConflict, Install,
         Holds, RenameEnds, Go, NoSub
  <2>4. QED
    BY <2>1, <2>3
<1>13. CASE UndoCheck
  <2>1. Renames
    BY <1>t, <1>n, <1>13 DEF Renames, InRename, InUndo, InMove, InRecovery, UndoCheck, At, Go,
         FilesStay, MoveStays, Frame, UndoEnds, UndoFor, Holds, Exists
  <2>2. Rev' = Rev
    BY <2>1 DEF Renames, Rev, Linked
  <2>3. Named'
    BY <1>t, <1>n, <1>13, <2>1, <2>2 DEF Renames, Named, Bare, Either, Ours, Evidence, InRename,
         InRecovery, InMove, SrcHeld, DstHeld, Before, HasEvidence, InUndo,
         UndoCheck, At, Go, FilesStay, MoveStays, Frame, UndoEnds, UndoFor, Holds, Exists
  <2>4. QED
    BY <2>1, <2>3
<1>14. CASE UndoStage
  <2>1. Renames
    BY <1>t, <1>n, <1>14 DEF Renames, InRename, InUndo, InMove, InRecovery, UndoStage, At, Go,
         FilesStay, MoveStays, Frame, UndoFor
  <2>2. Rev' = Rev
    BY <2>1 DEF Renames, Rev, Linked
  <2>3. Named'
    BY <1>t, <1>n, <1>14, <2>1, <2>2 DEF Renames, Named, Bare, Either, Ours, Evidence, InRename,
         InRecovery, InMove, SrcHeld, DstHeld, Before, HasEvidence, InUndo,
         UndoStage, At, Go, FilesStay, MoveStays, Frame, UndoFor
  <2>4. QED
    BY <2>1, <2>3
<1>15. CASE UndoInstall
  <2>1. Renames
    BY <1>t, <1>n, <1>15 DEF Renames, InRename, InUndo, InMove, InRecovery, UndoInstall, At,
         FilesStay, MoveStays, RenameStays, Frame, Install, UndoFor, Go, NoSub
  <2>2. Rev' = Rev
    BY <2>1 DEF Renames, Rev, Linked
  <2>3. Named'
    BY <1>t, <1>n, <1>15, <2>1, <2>2 DEF Renames, Named, Bare, Either, Ours, Evidence, InRename,
         InRecovery, InMove, SrcHeld, DstHeld, Before, HasEvidence, InUndo,
         UndoInstall, At, FilesStay, MoveStays, RenameStays, Frame, Install, UndoFor, Go, NoSub
  <2>4. QED
    BY <2>1, <2>3
<1>16. CASE UndoCopied
  <2>1. Renames
    BY <1>t, <1>n, <1>16 DEF Renames, InRename, InUndo, InMove, InRecovery, UndoCopied, At,
         MoveStays, RenameStays, Frame, UndoEnds, Doubled, Go, Holds, Exists
  <2>2. Rev' = Rev
    BY <2>1 DEF Renames, Rev, Linked
  <2>3. Named'
    BY <1>t, <1>n, <1>16, <2>1, <2>2 DEF Renames, Named, Bare, Either, Ours, Evidence, InRename,
         InRecovery, InMove, SrcHeld, DstHeld, Before, HasEvidence, InUndo,
         UndoCopied, At, MoveStays, RenameStays, Frame, UndoEnds, Doubled, Go, Holds, Exists
  <2>4. QED
    BY <2>1, <2>3
<1>q. QED
  BY <1>1, <1>2, <1>3, <1>4, <1>5, <1>6, <1>7, <1>8, <1>9, <1>10, <1>11, <1>12, <1>13, <1>14,
       <1>15, <1>16 DEF Recovering

(* A step that leaves the files alone and changes the phase, or one status, *)
(* keeps what the statuses say.                                             *)
LEMMA PhaseEntries ==
  ASSUME TypeOK, Entries, UNCHANGED <<story, disk, touched, copies>>, mv'.status = mv.status,
         mv.phase # "none", mv'.phase # "none",
         mv.phase = "rolling-back" => mv'.phase = "rolling-back",
         mv'.phase \in {"intent", "publishing"} => mv.phase = mv'.phase,
         mv'.phase \in {"renaming", "committed"} => \A k \in Places : mv.status[k] = "applied",
         mv.phase \in {"renaming", "committed"} /\ ~(mv'.phase \in {"renaming", "committed"})
           /\ Ours(Src) /\ Src \in Linked => disk[Src] = "new" \/ mv'.phase = "rolling-back"
  PROVE  Entries'
<1>1. SUFFICES ASSUME NEW k \in Places PROVE EntryTrue(k)'
  BY DEF Entries, Places
<1>2. EntryTrue(k) /\ (story.links[k] = Src => Src \in Linked)
  BY Links DEF Entries, Places, Linked
<1>3. QED
  BY <1>2 DEF EntryTrue, Ours, Places

(* The same when one status is changed and fits its note.                   *)
LEMMA MarkEntries ==
  ASSUME TypeOK, Entries, UNCHANGED <<story, disk, touched, copies>>, mv.phase # "none",
         NEW j \in Places, mv'.phase = mv.phase,
         \A k \in Places : k # j => mv'.status[k] = mv.status[k], EntryTrue(j)'
  PROVE  Entries'
<1>1. SUFFICES ASSUME NEW k \in Places, k # j PROVE EntryTrue(k)'
  BY DEF Entries, Places
<1>2. EntryTrue(k)
  BY DEF Entries
<1>3. QED
  BY <1>1, <1>2 DEF EntryTrue, Ours

\* A step that leaves files and journals alone.
LEMMA EntriesStay ==
  ASSUME Entries, UNCHANGED <<story, disk, touched, copies, mv>>
  PROVE  Entries'
BY DEF Entries, EntryTrue, Places, Ours

(* A step of the move that looks at the files and changes none.             *)
Looks ==
  /\ UNCHANGED <<story, disk, touched, copies, rn, ret, aside>>
  /\ at \in InMove /\ sub.step = "none"

(* A rollback begins with the two names in order.                           *)
LEMMA RollbackBegins ==
  ASSUME TypeOK, Placed, Linking, Looks, Turned, sub'.step = "none",
         mv.phase \in {"applying", "renaming"},
         Ours(Src) => Own(Src) /\ (Src \notin Linked => disk[Src] = "old")
  PROVE  Linking'
<1>t. /\ Len(story.links) \in Nat /\ Rev' = Rev /\ Src \in File /\ Dst \in File
      /\ rn = "none" /\ (Bare => mv.phase = "none") /\ at \in InMove
      /\ ret \in {"idle", "renamed", "recover"} /\ (Bare => ret # "renamed")
  BY Links DEF Rev, Linked, Looks, Linking, Phases, Placed, Journalled
<1>1. Phases'
  BY <1>t DEF Phases, Looks, Turned, Bare, InMove, InEntries, InRollback, InPublish, InRename,
       InUndo, InRecovery
<1>2. Targets'
  BY DEF Targets
<1>3. Entries'
  BY PhaseEntries DEF Linking, Looks, Turned
<1>4. Passed'
  BY <1>t DEF Passed, Turned, Looks, Places, InRollback
<1>5. Written'
  BY DEF Written, Turned, InWrite
<1>6. Standing'
  BY DEF Standing, Turned, Looks, Ours, Own, Linked
<1>7. Named'
  BY <1>t DEF Named, Turned, Looks, Bare, SrcHeld, DstHeld, Before, InUndo
<1>8. Finished'
  BY DEF Finished, Turned
<1>9. QED
  BY <1>1, <1>2, <1>3, <1>4, <1>5, <1>6, <1>7, <1>8 DEF Linking

(* A receipt is written when the move may end.                              *)
LEMMA ReceiptLinks ==
  ASSUME TypeOK, Placed, Linking, Looks, UNCHANGED <<mv, ok>>, at' = "m-retire", sub'.step = "none",
         \/ AllAre("new") /\ (Ours(Dst) => Own(Dst))
         \/ AllAre("new") /\ ~Ours(Src) /\ receipt'.move = "manual-conflict"
         \/ Backward \/ Halfway
  PROVE  Linking'
<1>t. /\ Rev' = Rev /\ rn = "none" /\ ret \in {"idle", "renamed", "recover"}
      /\ mv.phase # "none" /\ ~Bare
  BY DEF Rev, Linked, Looks, Linking, Phases, Placed, Journalled
<1>1. Phases'
  BY <1>t DEF Linking, Phases, Looks, Bare, InMove, InEntries, InRollback, InPublish, InRename,
       InUndo, InRecovery
<1>2. Targets'
  BY DEF Targets
<1>3. Entries'
  BY EntriesStay DEF Linking, Looks
<1>4. Passed'
  BY DEF Passed, InRollback
<1>5. Written'
  BY DEF Written, InWrite
<1>6. Standing'
  BY <1>t DEF Linking, Standing, Still, Looks, Ours, Own, Linked
<1>7. Named'
  BY <1>t DEF Linking, Named, Either, Looks, Bare, Ours, SrcHeld, DstHeld, Before, InUndo
<1>8. Finished'
  <2>1. \A c : AllAre(c)' <=> AllAre(c)
    BY DEF AllAre, Looks, Linked
  <2>2. Forward' \/ Backward' \/ Halfway'
    BY <2>1 DEF Forward, Backward, Halfway, Looks, Linked, Ours, Own
  <2>3. QED
    BY <2>2 DEF Finished
<1>9. QED
  BY <1>1, <1>2, <1>3, <1>4, <1>5, <1>6, <1>7, <1>8 DEF Linking

(* A step that goes on within the move, with the journal as it is.          *)
LEMMA GoesOn ==
  ASSUME TypeOK, Placed, Linking, Looks, mv' = mv, at' \in InMove,
         Phases', Targets', Passed', Written',
         at' \notin {"renamed", "resume-restored"},
         at' \in {"publish-install", "publish-verify"} /\ mv.phase \in {"published", "applying"}
           => ~Ours(Dst),
         at' = "apply" /\ mv.phase = "renaming" /\ Ours(Src) => disk[Src] = Rev
  PROVE  Linking'
<1>t. Rev' = Rev /\ mv.phase # "none"
  BY DEF Rev, Linked, Looks, Placed, Journalled
<1>3. Entries'
  BY EntriesStay DEF Linking, Looks
<1>6. Standing'
  BY <1>t DEF Linking, Standing, Still, Looks, Ours, Own, Linked
<1>7. Named'
  BY <1>t DEF Linking, Named, Either, Looks, Bare, Ours, SrcHeld, DstHeld, Before, InUndo, InMove
<1>8. Finished'
  BY <1>t DEF Finished, InMove
<1>9. QED
  BY <1>3, <1>6, <1>7, <1>8 DEF Linking

(* What is known when the two names are not both as before.                 *)
LEMMA Disturbed ==
  ASSUME TypeOK, Placed, Linking, mv.phase \in {"publishing", "published", "applying", "committed"},
         story.strict, ~BothOld \/ mv.phase = "publishing" \/ ~Ours(Dst)
  PROVE  \/ AllAre("new") /\ (Ours(Dst) => Own(Dst))
         \/ Backward \/ Halfway
<1>t. /\ \A f \in Linked \ (touched \cup {Src}) : \E k \in Places : story.links[k] = f /\ f # Src /\ Ours(f)
      /\ Src \notin Linked /\ Rev = "old" /\ Src \in File /\ Dst \in File /\ story \in Stories
  BY Links, StoriesOK DEF Linked, Places, Ours, Rev, TypeOK
<1>e. Entries /\ Standing
  BY DEF Linking
<1>1. CASE mv.phase = "publishing"
  <2>1. AllAre("old")
    BY <1>1, <1>t, <1>e DEF AllAre, Entries, EntryTrue
  <2>2. QED
    BY <1>1, <1>e, <2>1 DEF Backward, Standing, Still
<1>2. CASE mv.phase = "committed"
  <2>1. AllAre("new")
    BY <1>2, <1>t, <1>e DEF AllAre, Entries, EntryTrue
  <2>2. QED
    BY <1>2, <1>t, <1>e, <2>1 DEF Standing, Own
<1>3. CASE mv.phase \in {"published", "applying"}
  <2>1. \A f \in Linked \ (touched \cup {Src}) : disk[f] \in {"old", "new"}
    BY <1>3, <1>t, <1>e DEF Entries, EntryTrue
  <2>2. /\ Ours(Src) => disk[Src] = "old"
        /\ Ours(Dst) => disk[Dst] = "old"
    BY <1>3, <1>t, <1>e DEF Standing, Still
  <2>3. touched # {}
    BY <1>3, <2>2 DEF BothOld, Holds, Ours
  <2>4. QED
    BY <2>1, <2>2, <2>3 DEF Halfway, Own
<1>4. QED
  BY <1>1, <1>2, <1>3

(* The move begins, goes on where it was left, and looks at what it has     *)
(* published.                                                               *)
LEMMA BeginningLinks ==
  ASSUME TypeOK, Placed, Linking,
         MoveCheck \/ Continue \/ Publish \/ PublishVerify \/ AfterPublish \/ Apply
  PROVE  Linking'
<1>t. /\ Len(story.links) \in Nat /\ DOMAIN story.links = Places /\ i \in 0 .. Len(story.links) + 1
      /\ \A k \in Places : story.links[k] \in File \ {Dst}
      /\ Src \in File /\ Dst \in File /\ Src # Dst /\ disk \in [File -> Content]
      /\ sub \in Calls /\ (mv.phase # "none" => mv.status \in Statuses) /\ mv \in Moves
  BY Links, Names DEF TypeOK, Places
<1>e. Phases /\ Targets /\ Entries /\ Passed /\ Written /\ Standing /\ Named /\ Finished
  BY DEF Linking
<1>j. Journalled /\ Indexed
  BY DEF Placed
<1>1. CASE MoveCheck
  <2>0. aside'[<<"rn", "evidence">>] = aside[<<"rn", "evidence">>]
    BY <1>1, MovingFrame DEF MoveCheck, PublishInstall, At, Moving, RenameStays
  <2>a. /\ UNCHANGED <<story, disk, touched, copies, rn, ret, i, sub, ok>>
        /\ at = "m-check" /\ sub.step = "none"
    BY <1>1 DEF MoveCheck, At, FilesStay, Frame
  <2>1. /\ UNCHANGED <<story, disk, touched, copies, rn, ret, i, sub, ok>>
        /\ at = "m-check" /\ sub.step = "none" /\ rn = "none" /\ Rev' = Rev
        /\ aside'[<<"rn", "evidence">>] = aside[<<"rn", "evidence">>]
    BY <1>e, <2>0, <2>a DEF Phases, Rev, Linked
  <2>2. ~Bare /\ Backward
    BY <1>e, <2>1 DEF Phases, Finished
  <2>3. CASE at' = "idle"
    <3>1. mv' = mv
      BY <1>1, <2>3 DEF MoveCheck, Go
    <3>2. Phases' /\ Targets' /\ Passed' /\ Written'
      BY <1>e, <2>1, <2>2, <2>3, <3>1 DEF Phases, Targets, Passed, Written, Bare, InMove, InEntries,
           InRollback, InPublish, InRename, InUndo, InRecovery, InWrite
    <3>3. Entries'
      BY <1>e, <2>1, <3>1, EntriesStay
    <3>4. Standing' /\ Named'
      BY <1>e, <2>1, <2>2, <2>3, <3>1 DEF Standing, Still, Named, Either, Bare, Ours, Own, Linked,
           SrcHeld, DstHeld,
           Before, InUndo
    <3>5. Backward'
      BY <2>1, <2>2 DEF Backward, AllAre, Linked, Ours, Own
    <3>6. QED
      BY <2>3, <3>2, <3>3, <3>4, <3>5 DEF Linking, Finished
  <2>4. CASE at' # "idle"
    <3>1. /\ at' = "continue" /\ disk[Src] = "old" /\ \A f \in Linked : disk[f] = "old"
          /\ mv' = [phase |-> IF story.strict THEN "publishing" ELSE "intent",
                    status |-> [k \in DOMAIN story.links |-> "pending"], manual |-> FALSE]
      BY <1>1, <2>4 DEF MoveCheck, Go, Holds
    <3>2. /\ mv'.phase = IF story.strict THEN "publishing" ELSE "intent"
          /\ \A k \in Places : mv'.status[k] = "pending"
      BY <1>t, <3>1
    <3>3. Phases' /\ Targets' /\ Passed' /\ Written'
      BY <1>e, <2>1, <2>2, <3>1, <3>2 DEF Phases, Targets, Passed, Written, Bare, InMove, InEntries,
           InRollback, InPublish, InRename, InUndo, InRecovery, InWrite
    <3>4. Entries'
      <4>1. SUFFICES ASSUME NEW k \in Places PROVE EntryTrue(k)'
        BY <2>1 DEF Entries, Places
      <4>2. story.links[k] \in Linked
        BY <1>t DEF Linked
      <4>3. QED
        BY <2>1, <3>1, <3>2, <4>2 DEF EntryTrue
    <3>5. Standing' /\ Named'
      BY <2>1, <2>2, <3>1, <3>2 DEF Standing, Still, Named, Bare, Ours, Own, Linked, SrcHeld,
           DstHeld,
           Before, InUndo
    <3>6. Finished'
      BY <2>1, <3>1, <3>2 DEF Finished
    <3>7. QED
      BY <3>3, <3>4, <3>5, <3>6 DEF Linking
  <2>5. QED
    BY <2>3, <2>4
<1>2. CASE Continue
  <2>1. Looks /\ mv' = mv /\ at' \in {"rollback", "resume", "committed", "publish", "apply"}
        /\ UNCHANGED <<sub, ok>> /\ at = "continue" /\ mv.phase # "none"
    BY <1>2, <1>j DEF Continue, At, Go, FilesStay, RenameStays, Frame, Looks, InMove, Journalled
  <2>2. /\ at' = "rollback" => mv.phase = "rolling-back" /\ i' = Len(story.links)
        /\ at' = "resume" => mv.phase = "renaming"
        /\ at' = "committed" => mv.phase = "committed" /\ ~story.strict
        /\ at' = "publish" => story.strict /\ mv.phase \notin {"rolling-back", "renaming"}
        /\ at' = "apply" => mv.phase \notin {"rolling-back", "renaming"} /\ ~story.strict
                             /\ mv.phase # "committed"
    BY <1>2, <2>1 DEF Continue, Go
  <2>3. Phases'
    BY <1>e, <1>j, <2>1, <2>2 DEF Phases, Looks, Bare, InMove, InEntries, InRollback, InPublish,
         InRename,
         InUndo, InRecovery, Journalled
  <2>4. Targets' /\ Written'
    BY <2>1 DEF Targets, Written, Looks, InWrite
  <2>5. Passed'
    BY <1>t, <2>1, <2>2 DEF Passed, InRollback, Looks, Places
  <2>6. QED
    BY <2>1, <2>2, <2>3, <2>4, <2>5, GoesOn DEF InMove
<1>3. CASE Publish
  <2>1. /\ Looks /\ mv' = mv /\ UNCHANGED <<sub, ok>> /\ at = "publish" /\ mv.phase # "none"
        /\ story.strict /\ mv.phase # "rolling-back"
        /\ at' \in {"published", "publish-install", "m-retire"}
    BY <1>3, <1>e, <1>j DEF Publish, At, Go, FilesStay, RenameStays, MoveStays, Frame, Looks,
         InMove, Journalled,
         Phases, InPublish, Receipt
  <2>2. /\ at' = "published" => mv.phase # "publishing"
        /\ at' = "publish-install" => mv.phase # "committed" /\ ~Exists(Dst)
        /\ at' = "m-retire" => ~BothOld \/ mv.phase = "publishing"
    BY <1>3, <2>1 DEF Publish, Go, Receipt
  <2>p. mv.phase \in {"publishing", "published", "applying", "committed"}
    BY <1>t, <1>e, <2>1 DEF Phases, Moves, MovePhase
  <2>3. CASE at' = "m-retire"
    <3>1. QED
      BY <2>1, <2>2, <2>p, <2>3, Disturbed, ReceiptLinks DEF Looks
  <2>4. CASE at' # "m-retire"
    <3>1. Phases'
      BY <1>e, <1>j, <2>1, <2>2, <2>4, <2>p DEF Phases, Looks, Bare, InMove, InEntries,
           InRollback, InPublish,
           InRename, InUndo, InRecovery, Journalled
    <3>2. Targets' /\ Written' /\ Passed'
      BY <2>1, <2>4 DEF Targets, Written, Passed, Looks, InWrite, InRollback
    <3>3. at' \in {"publish-install", "publish-verify"} /\ mv.phase \in {"published", "applying"}
            => ~Ours(Dst)
      BY <1>e, <2>1, <2>2, <2>4 DEF Standing, Exists
    <3>4. QED
      BY <2>1, <2>4, <3>1, <3>2, <3>3, GoesOn DEF InMove
  <2>5. QED
    BY <2>3, <2>4
<1>4. CASE PublishVerify
  <2>1. /\ Looks /\ UNCHANGED <<sub, ok, i>> /\ at = "publish-verify" /\ mv.phase # "none" /\ story.strict
        /\ at' \in {"published", "m-retire"} /\ Rev' = Rev
    BY <1>4, <1>e, <1>j DEF PublishVerify, At, Go, FilesStay, RenameStays, Frame, Looks, InMove,
         Journalled,
         Phases, InPublish, Receipt, Rev, Linked
  <2>2. mv.phase \in {"publishing", "published", "applying"}
    BY <1>t, <1>e, <2>1 DEF Phases, Moves, MovePhase, InPublish
  <2>3. CASE at' = "m-retire"
    <3>1. mv' = mv /\ ~BothOld
      BY <1>4, <2>3 DEF PublishVerify, Go
    <3>2. QED
      BY <2>1, <2>2, <2>3, <3>1, Disturbed, ReceiptLinks DEF Looks
  <2>4. CASE at' = "published"
    <3>1. Phased("published") /\ BothOld
      BY <1>4, <2>4, JournalEffects DEF PublishVerify, Receipt, Go, MovePhase
    <3>2. Phases' /\ Targets' /\ Passed' /\ Written'
      BY <1>e, <1>j, <2>1, <2>4, <3>1 DEF Phases, Targets, Passed, Written, Phased, Looks, Bare,
           InMove,
           InEntries, InRollback, InPublish, InRename, InUndo, InRecovery, InWrite, Journalled
    <3>3. Entries'
      BY <1>e, <2>1, <2>2, <3>1, PhaseEntries DEF Phased, Looks
    <3>4. Standing'
      BY <1>e, <2>1, <2>2, <2>4, <3>1 DEF Standing, Still, Phased, Looks, Ours, Own, Linked,
           BothOld, Holds
    <3>5. Named'
      BY <1>e, <1>j, <2>1, <2>4, <3>1 DEF Phases, Named, Phased, Looks, Bare, SrcHeld, DstHeld,
           Before, InUndo
    <3>6. Finished'
      BY <2>4, <3>1 DEF Finished, Phased
    <3>7. QED
      BY <3>2, <3>3, <3>4, <3>5, <3>6 DEF Linking
  <2>5. QED
    BY <2>1, <2>3, <2>4
<1>5. CASE AfterPublish
  <2>1. /\ Looks /\ mv' = mv /\ UNCHANGED <<sub, ok>> /\ at = "published" /\ mv.phase # "none" /\ story.strict
        /\ mv.phase \notin {"publishing", "rolling-back"}
        /\ at' \in {"committed", "apply", "m-retire"}
    BY <1>5, <1>e, <1>j DEF AfterPublish, At, Go, FilesStay, RenameStays, MoveStays, Frame, Looks,
         InMove,
         Journalled, Phases, InPublish, Receipt
  <2>2. /\ at' = "committed" => mv.phase = "committed"
        /\ at' = "apply" => mv.phase # "committed"
        /\ at' = "m-retire" => ~BothOld
    BY <1>5, <2>1 DEF AfterPublish, Go, Receipt
  <2>p. mv.phase \in {"published", "applying", "committed"}
    BY <1>t, <1>e, <2>1 DEF Phases, Moves, MovePhase
  <2>3. CASE at' = "m-retire"
    BY <2>1, <2>2, <2>p, <2>3, Disturbed, ReceiptLinks DEF Looks
  <2>4. CASE at' # "m-retire"
    <3>1. Phases'
      BY <1>e, <1>j, <2>1, <2>2, <2>4, <2>p DEF Phases, Looks, Bare, InMove, InEntries,
           InRollback, InPublish,
           InRename, InUndo, InRecovery, Journalled
    <3>2. Targets' /\ Written' /\ Passed'
      BY <2>1, <2>4 DEF Targets, Written, Passed, Looks, InWrite, InRollback
    <3>3. QED
      BY <2>1, <2>4, <2>p, <3>1, <3>2, GoesOn DEF InMove
  <2>5. QED
    BY <2>3, <2>4
<1>6. CASE Apply
  <2>1. /\ Looks /\ UNCHANGED <<sub, ok>> /\ at = "apply" /\ mv.phase # "none" /\ Rev' = Rev
        /\ at' = "entry" /\ i' = 1 /\ Phased("applying")
    BY <1>6, <1>j, JournalEffects DEF Apply, At, Go, FilesStay, RenameStays, Frame, Looks, InMove,
         Journalled, Rev, Linked, MovePhase
  <2>2. mv.phase \in {"intent", "published", "applying", "renaming"} /\ (mv.phase = "renaming" => ~story.strict)
    BY <1>t, <1>e, <2>1 DEF Phases, Moves, MovePhase, InPublish
  <2>3. Phases' /\ Targets' /\ Passed' /\ Written'
    BY <1>t, <1>e, <1>j, <2>1 DEF Phases, Targets, Passed, Written, Phased, Looks, Bare, InMove,
         Places,
         InEntries, InRollback, InPublish, InRename, InUndo, InRecovery, InWrite, Journalled
  <2>4. Entries'
    BY <1>e, <2>1, <2>2, PhaseEntries DEF Phased, Looks, Named, Rev
  <2>5. Standing'
    <3>1. Ours(Src) => Own(Src) /\ (Src \notin Linked => disk[Src] = "old")
      BY <1>e, <2>1, <2>2 DEF Standing, Still, Named, Own, Rev
    <3>2. mv.phase \in {"intent", "renaming"} => ~story.strict
      BY <1>e DEF Phases
    <3>3. QED
      BY <1>e, <2>1, <2>2, <3>1, <3>2 DEF Standing, Phased, Looks, Ours, Own, Linked
  <2>6. Named'
    BY <1>e, <1>j, <2>1 DEF Phases, Named, Phased, Looks, Bare, SrcHeld, DstHeld, Before, InUndo
  <2>7. Finished'
    BY <2>1 DEF Finished, Phased
  <2>8. QED
    BY <2>3, <2>4, <2>5, <2>6, <2>7 DEF Linking
<1>7. QED
  BY <1>1, <1>2, <1>3, <1>4, <1>5, <1>6

(* The entries are worked off: rewritten, or given up for a rollback.       *)
LEMMA EntryLinks ==
  ASSUME TypeOK, Placed, Linking,
         \/ EntrySpoilt \/ Spoilt \/ EntryApplied \/ EntryPending \/ EntryWrote \/ Diverged
         \/ EntriesDone \/ Verify
  PROVE  Linking'
<1>t. /\ Len(story.links) \in Nat /\ DOMAIN story.links = Places /\ i \in 0 .. Len(story.links) + 1
      /\ \A k \in Places : story.links[k] \in File \ {Dst}
      /\ Src \in File /\ Dst \in File /\ Src # Dst /\ disk \in [File -> Content]
      /\ sub \in Calls /\ (mv.phase # "none" => mv.status \in Statuses) /\ mv \in Moves
  BY Links, Names DEF TypeOK, Places
<1>e. Phases /\ Targets /\ Entries /\ Passed /\ Written /\ Standing /\ Named /\ Finished
  BY DEF Linking
<1>j. Journalled /\ Indexed
  BY DEF Placed
<1>1. CASE EntrySpoilt \/ Spoilt
  <2>1. /\ Looks /\ UNCHANGED <<sub, ok>> /\ at \in {"entry", "spoilt"} /\ Turned
    BY <1>1, JournalEffects DEF EntrySpoilt, Spoilt, At, FilesStay, RenameStays, Frame, Looks,
         InMove
  <2>2. mv.phase = "applying"
    BY <1>e, <2>1 DEF Phases, InEntries
  <2>3. QED
    BY <1>e, <2>1, <2>2, RollbackBegins DEF Looks, Standing, Still
<1>2. CASE EntryApplied
  <2>1. /\ Looks /\ UNCHANGED <<mv, ok>> /\ at = "entry" /\ mv.phase = "applying"
        /\ i \in Places /\ mv.status[i] = "applied"
    BY <1>t, <1>2, <1>e, <1>j DEF EntryApplied, At, FilesStay, RenameStays, Frame, Looks, InMove,
         Indexed,
         Phases, InEntries, Places, Entry
  <2>2. \/ at' = "entry" /\ i' = i + 1 /\ sub' = sub
        \/ at' = "diverged" /\ i' = i /\ sub'.step = "write" /\ sub'.file = Entry /\ disk[Entry] # "new"
    <3>1. Entry \in File
      BY <1>t, <2>1 DEF Entry
    <3>2. QED
      BY <1>2, <3>1, CallEffects DEF EntryApplied, NextEntry, Go, Writes, Holds, Label
  <2>3. disk[Entry] # "new" => ~Ours(Entry)
    BY <1>e, <2>1 DEF Entries, EntryTrue, Entry
  <2>4. Phases' /\ Targets'
    BY <1>e, <1>j, <2>1, <2>2 DEF Phases, Targets, Looks, Bare, InMove, Entry,
         InEntries, InRollback, InPublish, InRename, InUndo, InRecovery, InWrite, Journalled
  <2>5. Passed'
    BY <1>t, <1>e, <2>1, <2>2 DEF Passed, Looks, Places, InRollback
  <2>6. Written'
    BY <2>1, <2>2, <2>3 DEF Written, Looks, InWrite, Ours, Entry
  <2>7. QED
    BY <2>1, <2>2, <2>4, <2>5, <2>6, GoesOn DEF InMove
<1>3. CASE EntryPending
  <2>1. /\ Looks /\ UNCHANGED <<ok>> /\ at = "entry" /\ mv.phase = "applying" /\ Rev' = Rev
        /\ i \in Places /\ mv.status[i] = "pending"
    BY <1>t, <1>3, <1>e, <1>j DEF EntryPending, At, FilesStay, RenameStays, Frame, Looks, InMove,
         Indexed,
         Phases, InEntries, Places, Rev, Linked
  <2>2. CASE Holds(Entry, "new") /\ Mark("applied") /\ NextEntry /\ UNCHANGED <<first, sub>>
    <3>1. Marked("applied", mv.manual) /\ at' = "entry" /\ i' = i + 1 /\ disk[Entry] = "new"
      BY <2>1, <2>2, JournalEffects DEF NextEntry, Go, Holds, Status, Places
    <3>2. Phases' /\ Targets' /\ Written'
      BY <1>e, <2>1, <2>2, <3>1 DEF Phases, Targets, Written, Marked, Looks, Bare, InMove, Entry,
           InEntries, InRollback, InPublish, InRename, InUndo, InRecovery, InWrite
    <3>3. Passed'
      BY <1>t, <1>e, <2>1, <3>1 DEF Passed, Marked, Looks, Places, InRollback
    <3>4. Entries'
      <4>0. PICK j \in Places : j = i
        BY <2>1
      <4>1. EntryTrue(j)'
        BY <1>e, <2>1, <3>1, <4>0 DEF Entries, EntryTrue, Marked, Looks, Ours, Entry
      <4>2. \A k \in Places : k # j => mv'.status[k] = mv.status[k]
        BY <3>1, <4>0 DEF Marked, Places
      <4>3. QED
        BY <1>e, <2>1, <3>1, <4>1, <4>2, MarkEntries DEF Marked, Looks
    <3>5. Standing' /\ Named' /\ Finished'
      BY <1>e, <2>1, <3>1 DEF Phases, Standing, Still, Named, Finished, Marked, Looks, Bare, Ours,
           Own, Linked, SrcHeld,
           DstHeld, Before, InUndo
    <3>6. QED
      BY <3>2, <3>3, <3>4, <3>5 DEF Linking
  <2>3. CASE BeginRollback /\ UNCHANGED <<first, sub>>
    <3>1. Turned /\ sub'.step = "none"
      BY <2>1, <2>3, JournalEffects DEF Looks
    <3>2. QED
      BY <1>e, <2>1, <3>1, RollbackBegins DEF Standing, Still
  <2>4. CASE /\ ~Holds(Entry, "new") /\ Write(Entry, "old", "new", "entry-wrote") /\ UNCHANGED <<mv, i>>
    <3>1. /\ sub'.step = "write" /\ sub'.file = Entry /\ sub'.base = "old" /\ sub'.next = "new"
          /\ at' = "entry-wrote" /\ Entry' = Entry /\ disk[Entry] # "new"
      <4>1. Entry \in File
        BY <1>t, <2>1 DEF Entry
      <4>2. QED
        BY <2>1, <2>4, <4>1, CallEffects DEF Writes, Holds, Entry, Looks, Label
    <3>2. Phases' /\ Targets'
      BY <1>e, <2>1, <2>4, <3>1 DEF Phases, Targets, Looks, Bare, InMove,
           InEntries, InRollback, InPublish, InRename, InUndo, InRecovery, InWrite
    <3>3. Passed'
      BY <1>e, <2>1, <2>4, <3>1 DEF Passed, Looks, Places, InRollback
    <3>4. Ours(Entry) => disk[Entry] = "old"
      <4>1. EntryTrue(i) /\ (Ours(Src) => Own(Src))
        BY <1>e, <2>1 DEF Entries, Standing, Still
      <4>2. QED
        BY <2>1, <3>1, <4>1 DEF EntryTrue, Entry, Own
    <3>5. Written'
      BY <2>1, <2>4, <3>1, <3>4 DEF Written, Rewriting, Looks, InWrite, Ours
    <3>6. QED
      BY <2>1, <2>4, <3>1, <3>2, <3>3, <3>5, GoesOn DEF InMove
  <2>5. QED
    BY <1>3, <2>2, <2>3, <2>4 DEF EntryPending
<1>4. CASE EntryWrote \/ Diverged
  <2>1. /\ Looks /\ UNCHANGED <<ok, sub>> /\ at \in {"entry-wrote", "diverged"} /\ mv.phase = "applying"
        /\ i \in Places /\ Rev' = Rev
    BY <1>t, <1>4, <1>e, <1>j DEF EntryWrote, Diverged, At, FilesStay, RenameStays, Frame, Looks,
         InMove, Indexed,
         Phases, InEntries, Places, Rev, Linked
  <2>2. PICK s \in {"applied", "conflict"} :
          /\ s = (IF ok THEN "applied" ELSE "conflict") /\ Marked(s, mv.manual)
          /\ \/ at = "entry-wrote" /\ ok /\ at' = "entry" /\ i' = i + 1
             \/ (at = "diverged" \/ ~ok) /\ at' = "spoilt" /\ i' = i
    BY <1>4, <2>1, JournalEffects DEF EntryWrote, Diverged, NextEntry, Go, At, Status, Places
  <2>3. Phases' /\ Targets' /\ Written'
    BY <1>e, <2>1, <2>2 DEF Phases, Targets, Written, Marked, Looks, Bare, InMove, Entry,
         InEntries, InRollback, InPublish, InRename, InUndo, InRecovery, InWrite
  <2>4. Passed'
    BY <1>t, <1>e, <2>1, <2>2 DEF Passed, Marked, Looks, Places, InRollback
  <2>5. Entries'
    <3>1. ~ok => copies # {}
      BY <1>e, <2>1 DEF Written, InWrite, Looks
    <3>2. Ours(Entry) => ok /\ disk[Entry] = "new"
      BY <1>e, <2>1 DEF Written, Rewriting, Looks
    <3>3. EntryTrue(i)
      BY <1>e, <2>1 DEF Entries
    <3>0. PICK j \in Places : j = i
      BY <2>1
    <3>4. EntryTrue(j)'
      BY <2>1, <2>2, <3>0, <3>1, <3>2, <3>3 DEF EntryTrue, Marked, Looks, Ours, Entry
    <3>5. \A k \in Places : k # j => mv'.status[k] = mv.status[k]
      BY <2>2, <3>0 DEF Marked, Places
    <3>6. QED
      BY <1>e, <2>1, <2>2, <3>4, <3>5, MarkEntries DEF Marked, Looks
  <2>6. Standing' /\ Named' /\ Finished'
    BY <1>e, <2>1, <2>2 DEF Phases, Standing, Still, Named, Finished, Marked, Looks, Bare, Ours,
         Own, Linked, SrcHeld,
         DstHeld, Before, InUndo
  <2>7. QED
    BY <2>3, <2>4, <2>5, <2>6 DEF Linking
<1>5. CASE EntriesDone
  <2>1. /\ Looks /\ UNCHANGED <<mv, ok, sub>> /\ at = "entry" /\ mv.phase = "applying"
        /\ i > Len(story.links) /\ i' = 1 /\ at' = "verify"
    BY <1>5, <1>e DEF EntriesDone, At, Go, FilesStay, RenameStays, Frame, Looks, InMove, Phases,
         InEntries
  <2>2. Phases' /\ Targets' /\ Written'
    BY <1>e, <2>1 DEF Phases, Targets, Written, Looks, Bare, InMove,
         InEntries, InRollback, InPublish, InRename, InUndo, InRecovery, InWrite
  <2>3. Passed'
    BY <1>t, <1>e, <2>1 DEF Passed, Looks, Places, InRollback
  <2>4. QED
    BY <2>1, <2>2, <2>3, GoesOn DEF InMove
<1>6. CASE Verify
  <2>1. /\ Looks /\ UNCHANGED <<mv, ok>> /\ at = "verify" /\ mv.phase = "applying"
    BY <1>6, <1>e DEF Verify, At, FilesStay, RenameStays, Frame, Looks, InMove, Phases, InEntries
  <2>2. \/ at' \in {"corpus", "verify"} /\ sub' = sub
        \/ /\ at' = "diverged" /\ i' = i /\ sub'.step = "write" /\ sub'.file = Entry /\ disk[Entry] # "new"
           /\ i \in Places /\ Entry' = Entry
    <3>1. CASE i <= Len(story.links)
      <4>1. i \in Places /\ Entry \in File
        BY <1>t, <1>j, <2>1, <3>1 DEF Places, Indexed, Entry
      <4>2. QED
        BY <1>6, <2>1, <3>1, <4>1, CallEffects DEF Verify, Go, Writes, Holds, Label, Entry, Looks
    <3>2. CASE ~(i <= Len(story.links))
      BY <1>6, <3>2 DEF Verify, Go
    <3>3. QED
      BY <3>1, <3>2
  <2>3. at' = "diverged" => ~Ours(Entry)
    <3>1. SUFFICES ASSUME at' = "diverged" PROVE ~Ours(Entry)
      OBVIOUS
    <3>2. EntryTrue(i) /\ mv.status[i] = "applied"
      BY <1>e, <2>1, <2>2, <3>1 DEF Entries, Passed
    <3>3. QED
      BY <2>1, <2>2, <3>1, <3>2 DEF EntryTrue, Entry
  <2>4. Phases' /\ Targets'
    BY <1>e, <2>1, <2>2 DEF Phases, Targets, Looks, Bare, InMove,
         InEntries, InRollback, InPublish, InRename, InUndo, InRecovery, InWrite
  <2>5. Passed' /\ Written'
    BY <1>e, <2>1, <2>2, <2>3 DEF Passed, Written, Rewriting, Looks, Places, InRollback, InWrite,
         Ours
  <2>6. QED
    BY <2>1, <2>2, <2>4, <2>5, GoesOn DEF InMove
<1>7. QED
  BY <1>1, <1>2, <1>3, <1>4, <1>5, <1>6

(* A move is committed when everything is as its receipt will say.          *)
LEMMA CommitLinks ==
  ASSUME TypeOK, Placed, Linking, Looks, sub' = sub, Phased("committed"), at' = "committed",
         mv.phase \in {"applying", "renaming"}, \A k \in Places : mv.status[k] = "applied",
         Ours(Src) => disk[Src] = IF story.strict THEN "old" ELSE "absent",
         Ours(Dst) => disk[Dst] = Rev
  PROVE  Linking'
<1>t. /\ Rev' = Rev /\ rn = "none" /\ ~Bare /\ (Bare <=> Bare') /\ ret \in {"idle", "renamed", "recover"}
  BY DEF Rev, Linked, Looks, Linking, Phases, Placed, Journalled, Bare
<1>1. Phases'
  BY <1>t DEF Phases, Phased, Looks, InMove, InEntries, InRollback, InPublish, InRename, InUndo,
       InRecovery
<1>2. Targets' /\ Passed' /\ Written'
  BY DEF Targets, Passed, Written, Looks, InRollback, InWrite
<1>3. Entries'
  BY PhaseEntries DEF Linking, Looks, Phased
<1>4. Standing' /\ Named' /\ Finished'
  BY <1>t DEF Standing, Still, Named, Finished, Phased, Looks, Ours, SrcHeld, DstHeld, Before,
       InUndo
<1>5. QED
  BY <1>1, <1>2, <1>3, <1>4 DEF Linking

(* The corpus is compared, the rename has ended, and the move is committed  *)
(* or turned back.                                                          *)
LEMMA EndingLinks ==
  ASSUME TypeOK, Placed, Linking,
         CheckCorpus \/ FinalCheck \/ Renamed \/ Committed \/ Resume \/ ResumeRestored
  PROVE  Linking'
<1>t. /\ Len(story.links) \in Nat /\ DOMAIN story.links = Places /\ i \in 0 .. Len(story.links) + 1
      /\ \A k \in Places : story.links[k] \in File \ {Dst}
      /\ Src \in File /\ Dst \in File /\ Src # Dst /\ disk \in [File -> Content]
      /\ sub \in Calls /\ (mv.phase # "none" => mv.status \in Statuses) /\ mv \in Moves
  BY Links, Names DEF TypeOK, Places
<1>e. Phases /\ Targets /\ Entries /\ Passed /\ Written /\ Standing /\ Named /\ Finished
  BY DEF Linking
<1>j. Journalled /\ Indexed
  BY DEF Placed
<1>r. /\ mv.phase \in {"renaming", "committed"} => AllAre("new") /\ \A k \in Places : mv.status[k] = "applied"
      /\ Rev = "old" \/ (Rev = "new" /\ Src \in Linked)
      /\ \A f \in Linked : \E k \in Places : f = story.links[k]
      /\ story.strict => Rev = "old"
  <2>1. \A f \in Linked : \E k \in Places : f = story.links[k]
    BY <1>t DEF Linked
  <2>2. ASSUME mv.phase \in {"renaming", "committed"} PROVE AllAre("new") /\ \A k \in Places : mv.status[k] = "applied"
    <3>1. \A k \in Places : EntryTrue(k)
      BY <1>e, <2>2 DEF Entries
    <3>2. QED
      BY <2>1, <2>2, <3>1 DEF EntryTrue, AllAre, Ours
  <2>3. story.strict => Src \notin Linked
    BY StoriesOK DEF TypeOK, Linked
  <2>4. QED
    BY <2>1, <2>2, <2>3 DEF Rev
<1>1. CASE CheckCorpus
  <2>1. /\ UNCHANGED <<story, disk, touched, copies, rn, aside, ok, sub>>
        /\ at = "corpus" /\ sub.step = "none" /\ mv.phase = "applying" /\ Rev' = Rev
        /\ rn = "none" /\ ~Bare /\ \A k \in Places : mv.status[k] = "applied"
    BY <1>1, <1>e, <1>j DEF CheckCorpus, At, FilesStay, RenameStays, Frame, InMove,
         Phases, InEntries, Rev, Linked, Passed
  <2>2. CASE BeginRollback /\ UNCHANGED ret
    <3>1. Turned /\ Looks
      BY <2>1, <2>2, JournalEffects DEF Looks, InMove
    <3>2. QED
      BY <1>e, <2>1, <3>1, RollbackBegins DEF Standing, Still
  <2>3. CASE story.strict /\ Go("final") /\ UNCHANGED <<mv, i, ret>>
    <3>1. Looks /\ at' = "final"
      BY <2>1, <2>3 DEF Looks, InMove, Go
    <3>2. Phases'
      BY <1>e, <2>1, <2>3, <3>1 DEF Phases, Looks, Bare, InMove, InEntries, InRollback, InPublish,
           InRename,
           InUndo, InRecovery
    <3>3. Targets' /\ Passed' /\ Written'
      BY <2>1, <2>3, <3>1 DEF Targets, Passed, Written, InRollback, InWrite, Places
    <3>4. QED
      BY <2>3, <3>1, <3>2, <3>3, GoesOn DEF InMove
  <2>4. CASE ~story.strict /\ Phase("renaming") /\ Go("r-check") /\ ret' = "renamed"
    <3>1. Phased("renaming") /\ at' = "r-check" /\ ret' = "renamed"
      BY <2>4, JournalEffects DEF Go, MovePhase
    <3>2. Phases'
      BY <1>e, <2>1, <2>4, <3>1 DEF Phases, Phased, Bare, InMove, InEntries, InRollback,
           InPublish, InRename,
           InUndo, InRecovery
    <3>3. Targets' /\ Passed' /\ Written'
      BY <2>1, <3>1 DEF Targets, Passed, Written, InRollback, InWrite
    <3>4. Entries'
      BY <1>e, <2>1, <3>1, PhaseEntries DEF Phased
    <3>5. Ours(Src) => disk[Src] = Rev
      <4>1. Src \in Linked /\ Ours(Src) => disk[Src] = "new"
        <5>1. ASSUME Src \in Linked, Ours(Src) PROVE disk[Src] = "new"
          <6>1. PICK k \in Places : Src = story.links[k]
            BY <1>r, <5>1
          <6>2. EntryTrue(k)
            BY <1>e, <2>1 DEF Entries
          <6>3. QED
            BY <2>1, <5>1, <6>1, <6>2 DEF EntryTrue
        <5>2. QED
          BY <5>1
      <4>2. QED
        BY <1>e, <2>1, <4>1 DEF Standing, Still, Rev
    <3>6. Standing' /\ Named' /\ Finished'
      BY <2>1, <3>1, <3>5 DEF Standing, Still, Named, Either, Finished, Phased, Ours, DstHeld,
           InUndo
    <3>7. QED
      BY <3>2, <3>3, <3>4, <3>6 DEF Linking
  <2>5. QED
    BY <1>1, <2>2, <2>3, <2>4 DEF CheckCorpus
<1>2. CASE FinalCheck
  <2>1. /\ Looks /\ sub' = sub /\ at = "final" /\ mv.phase = "applying" /\ story.strict
        /\ \A k \in Places : mv.status[k] = "applied"
    BY <1>2, <1>e DEF FinalCheck, At, FilesStay, RenameStays, Frame, Looks, InMove, Phases,
         InEntries, Passed
  <2>2. CASE BothOld
    <3>1. Phased("committed") /\ at' = "committed"
      BY <1>2, <2>2, JournalEffects DEF FinalCheck, Commit, Go, MovePhase
    <3>2. disk[Src] = "old" /\ disk[Dst] = "old" /\ Rev = "old"
      BY <1>r, <2>1, <2>2 DEF BothOld, Holds
    <3>3. QED
      BY <2>1, <3>1, <3>2, CommitLinks
  <2>3. CASE ~BothOld
    <3>1. Turned /\ sub'.step = "none"
      BY <1>2, <2>1, <2>3, JournalEffects DEF FinalCheck, Looks
    <3>2. QED
      BY <1>e, <2>1, <3>1, RollbackBegins DEF Standing, Still
  <2>4. QED
    BY <2>2, <2>3
<1>3. CASE Renamed
  <2>1. /\ Looks /\ sub' = sub /\ at = "renamed" /\ mv.phase = "renaming" /\ ~story.strict /\ ret = "renamed"
    BY <1>3, <1>e DEF Renamed, At, FilesStay, RenameStays, Frame, Looks, InMove, Phases
  <2>2. CASE ok
    <3>1. Phased("committed") /\ at' = "committed"
      BY <1>3, <2>2, JournalEffects DEF Renamed, Commit, Go, MovePhase
    <3>2. (Ours(Src) => disk[Src] = "absent") /\ (Ours(Dst) => disk[Dst] = Rev)
      BY <1>e, <2>1, <2>2 DEF Named
    <3>3. QED
      BY <1>r, <2>1, <3>1, <3>2, CommitLinks
  <2>3. CASE ~ok
    <3>1. Turned /\ sub'.step = "none"
      BY <1>3, <2>1, <2>3, JournalEffects DEF Renamed, Looks
    <3>2. Ours(Src) => disk[Src] = Rev
      BY <1>e, <2>1, <2>3 DEF Named
    <3>3. QED
      BY <1>r, <2>1, <3>1, <3>2, RollbackBegins DEF Own
  <2>4. QED
    BY <2>2, <2>3
<1>4. CASE Committed
  <2>1. /\ Looks /\ UNCHANGED <<mv, ok, sub>> /\ at = "committed" /\ mv.phase = "committed" /\ at' = "m-retire"
    BY <1>4, <1>e DEF Committed, At, FilesStay, MoveStays, RenameStays, Frame, Looks, InMove,
         Phases, Receipt, Go
  <2>2. Ours(Dst) => Own(Dst)
    BY <1>e, <1>r, <2>1 DEF Standing, Own
  <2>3. QED
    BY <1>r, <2>1, <2>2, ReceiptLinks DEF Looks
<1>5. CASE Resume
  <2>1. /\ Looks /\ UNCHANGED <<ok, sub>> /\ at = "resume" /\ mv.phase = "renaming" /\ ~story.strict
        /\ rn = "none" /\ ~Bare /\ Rev' = Rev
    BY <1>5, <1>e DEF Resume, At, FilesStay, RenameStays, Frame, Looks, InMove, Phases, Rev, Linked
  <2>2. Ours(Src) => Either
    BY <1>e, <2>1 DEF Named
  <2>3. CASE /\ disk[Src] \notin {"absent", Rev} \/ (disk[Src] = "absent" /\ disk[Dst] # Rev)
             /\ Receipt("manual-conflict") /\ UNCHANGED <<mv, i>>
    <3>1. at' = "m-retire" /\ receipt'.move = "manual-conflict"
      BY <2>3, JournalEffects DEF Recorded, Outcome
    <3>2. ~Ours(Src) \/ (Ours(Dst) => Own(Dst))
      BY <1>r, <2>2, <2>3 DEF Either, Own
    <3>3. QED
      BY <1>r, <2>1, <2>3, <3>1, <3>2, ReceiptLinks DEF Looks
  <2>4. CASE disk[Src] = "absent" /\ disk[Dst] = Rev /\ Commit
    <3>1. Phased("committed") /\ at' = "committed"
      BY <2>4, JournalEffects DEF Commit, Go, MovePhase
    <3>2. QED
      BY <1>r, <2>1, <2>4, <3>1, CommitLinks
  <2>5. CASE disk[Src] = "absent" /\ disk[Dst] = Rev /\ Go("undo") /\ UNCHANGED <<mv, i, receipt>>
    <3>1. at' = "undo" /\ mv' = mv
      BY <2>5 DEF Go
    <3>2. Phases'
      BY <1>e, <2>1, <3>1 DEF Phases, Looks, Bare, InMove, InEntries, InRollback, InPublish,
           InRename,
           InUndo, InRecovery
    <3>3. Targets' /\ Passed' /\ Written' /\ Finished'
      BY <2>1, <3>1 DEF Targets, Passed, Written, Finished, InRollback, InWrite, Looks
    <3>4. Entries'
      BY <1>e, <2>1, <3>1, EntriesStay DEF Looks
    <3>5. Standing' /\ Named'
      BY <1>e, <2>1, <2>2, <2>5, <3>1 DEF Standing, Still, Named, Either, Looks, Ours, SrcHeld,
           Before, Bare
    <3>6. QED
      BY <3>2, <3>3, <3>4, <3>5 DEF Linking
  <2>6. CASE disk[Src] = Rev /\ BeginRollback
    <3>1. Turned /\ sub'.step = "none"
      BY <2>1, <2>6, JournalEffects DEF Looks
    <3>2. QED
      BY <1>r, <2>1, <2>6, <3>1, RollbackBegins DEF Own
  <2>7. CASE disk[Src] = Rev /\ Go("apply") /\ UNCHANGED <<mv, i, receipt>>
    <3>1. at' = "apply" /\ mv' = mv
      BY <2>7 DEF Go
    <3>2. Phases'
      BY <1>e, <2>1, <3>1 DEF Phases, Looks, Bare, InMove, InEntries, InRollback, InPublish,
           InRename,
           InUndo, InRecovery
    <3>3. Targets' /\ Passed' /\ Written'
      BY <2>1, <3>1 DEF Targets, Passed, Written, InRollback, InWrite, Looks
    <3>4. QED
      BY <2>1, <2>7, <3>1, <3>2, <3>3, GoesOn DEF InMove
  <2>8. QED
    BY <1>5, <2>3, <2>4, <2>5, <2>6, <2>7 DEF Resume, Holds
<1>6. CASE ResumeRestored
  <2>1. /\ Looks /\ UNCHANGED <<ok, sub>> /\ at = "resume-restored" /\ mv.phase = "renaming"
    BY <1>6, <1>e DEF ResumeRestored, At, FilesStay, RenameStays, Frame, Looks, InMove, Phases
  <2>2. CASE ok
    <3>1. Turned /\ sub'.step = "none"
      BY <1>6, <2>1, <2>2, JournalEffects DEF ResumeRestored, Looks
    <3>2. Ours(Src) => disk[Src] = Rev
      BY <1>e, <2>1, <2>2 DEF Named
    <3>3. QED
      BY <1>r, <2>1, <3>1, <3>2, RollbackBegins DEF Own
  <2>3. CASE ~ok
    <3>1. at' = "m-retire" /\ mv' = mv
      BY <1>6, <2>3 DEF ResumeRestored, Receipt, Go
    <3>2. Ours(Dst) => Own(Dst)
      BY <1>e, <1>r, <2>1, <2>3 DEF Named, Own
    <3>3. QED
      BY <1>r, <2>1, <3>1, <3>2, ReceiptLinks DEF Looks
  <2>4. QED
    BY <2>2, <2>3
<1>7. QED
  BY <1>1, <1>2, <1>3, <1>4, <1>5, <1>6

(* The rollback restores the entries from the last to the first.           *)
LEMMA RollbackLinks ==
  ASSUME TypeOK, Placed, Linking, Rollback \/ RollbackWrote \/ RolledBack \/ MoveRetire
  PROVE  Linking'
<1>t. /\ Len(story.links) \in Nat /\ DOMAIN story.links = Places /\ i \in 0 .. Len(story.links) + 1
      /\ \A k \in Places : story.links[k] \in File \ {Dst}
      /\ Src \in File /\ Dst \in File /\ Src # Dst /\ disk \in [File -> Content]
      /\ sub \in Calls /\ (mv.phase # "none" => mv.status \in Statuses) /\ mv \in Moves
  BY Links, Names DEF TypeOK, Places
<1>e. Phases /\ Targets /\ Entries /\ Passed /\ Written /\ Standing /\ Named /\ Finished
  BY DEF Linking
<1>j. Journalled /\ Indexed
  BY DEF Placed
<1>1. CASE Rollback
  <2>1. /\ Looks /\ ok' = ok /\ at = "rollback" /\ mv.phase = "rolling-back" /\ Rev' = Rev
        /\ i \in Places /\ EntryTrue(i) /\ ~Bare /\ rn = "none"
    BY <1>t, <1>1, <1>e, <1>j DEF Rollback, At, FilesStay, RenameStays, Frame, Looks, InMove,
         Indexed,
         Phases, InRollback, Places, Rev, Linked, Entries
  <2>2. CASE /\ mv.status[i] \in {"rolled-back", "conflict"}
             /\ i' = i - 1 /\ UNCHANGED <<at, mv, sub>>
    <3>1. Phases' /\ Targets' /\ Written'
      BY <1>e, <2>1, <2>2 DEF Phases, Targets, Written, Looks, Bare, InMove,
         InEntries, InRollback, InPublish, InRename, InUndo, InRecovery, InWrite
    <3>2. Passed'
      <4>1. Ours(Entry) => disk[Entry] = "old"
        BY <2>1, <2>2 DEF EntryTrue, Entry
      <4>2. QED
        BY <1>t, <1>e, <2>1, <2>2, <4>1 DEF Passed, Looks, Places, InRollback, Ours, Entry
    <3>3. QED
      BY <2>1, <2>2, <3>1, <3>2, GoesOn DEF InMove
  <2>3. CASE Holds(Entry, "old") /\ Mark("rolled-back") /\ i' = i - 1 /\ UNCHANGED <<at, sub>>
    <3>1. Marked("rolled-back", mv.manual) /\ disk[Entry] = "old"
      BY <2>1, <2>3, JournalEffects DEF Holds, Status, Places
    <3>2. Phases' /\ Targets' /\ Written'
      BY <1>e, <2>1, <2>3, <3>1 DEF Phases, Targets, Written, Marked, Looks, Bare, InMove,
         InEntries, InRollback, InPublish, InRename, InUndo, InRecovery, InWrite
    <3>3. Passed'
      BY <1>t, <1>e, <2>1, <2>3, <3>1 DEF Passed, Marked, Looks, Places, InRollback, Ours, Entry
    <3>4. Entries'
      <4>0. PICK j \in Places : j = i
        BY <2>1
      <4>1. EntryTrue(j)'
        BY <2>1, <3>1, <4>0 DEF EntryTrue, Marked, Looks, Ours, Entry
      <4>2. \A k \in Places : k # j => mv'.status[k] = mv.status[k]
        BY <3>1, <4>0 DEF Marked, Places
      <4>3. QED
        BY <1>e, <2>1, <3>1, <4>1, <4>2, MarkEntries DEF Marked, Looks
    <3>5. Standing' /\ Named' /\ Finished'
      BY <1>e, <2>1, <2>3, <3>1 DEF Phases, Standing, Still, Named, Finished, Marked, Looks, Bare,
           Ours, Own, Linked,
           SrcHeld, DstHeld, Before, InUndo
    <3>6. QED
      BY <3>2, <3>3, <3>4, <3>5 DEF Linking
  <2>4. CASE /\ mv.status[i] \notin {"rolled-back", "conflict"} /\ ~Holds(Entry, "old")
             /\ Write(Entry, "new", "old", "rollback-wrote") /\ UNCHANGED <<mv, i>>
    <3>1. /\ sub'.step = "write" /\ sub'.file = Entry /\ sub'.base = "new" /\ sub'.next = "old"
          /\ at' = "rollback-wrote" /\ Entry' = Entry /\ disk[Entry] # "old"
      <4>1. Entry \in File
        BY <1>t, <2>1 DEF Entry
      <4>2. QED
        BY <2>1, <2>4, <4>1, CallEffects DEF Writes, Holds, Entry, Looks, Label
    <3>2. Phases' /\ Targets'
      BY <1>e, <2>1, <2>4, <3>1 DEF Phases, Targets, Looks, Bare, InMove,
         InEntries, InRollback, InPublish, InRename, InUndo, InRecovery, InWrite
    <3>3. Passed'
      BY <1>e, <2>1, <2>4, <3>1 DEF Passed, Looks, Places, InRollback, Ours
    <3>4. (Ours(Entry) => disk[Entry] = "new") /\ mv.status[i] \in {"pending", "applied"}
      <4>1. Ours(Src) => Own(Src)
        BY <1>e, <2>1 DEF Standing, Still
      <4>2. mv.status[i] \in Status
        BY <1>t, <2>1 DEF Statuses
      <4>3. QED
        BY <2>1, <2>4, <3>1, <4>1, <4>2 DEF EntryTrue, Entry, Own, Status
    <3>5. Written'
      BY <2>1, <2>4, <3>1, <3>4 DEF Written, Rewriting, Looks, InWrite, Ours
    <3>6. QED
      BY <2>1, <2>4, <3>1, <3>2, <3>3, <3>5, GoesOn DEF InMove
  <2>5. QED
    BY <1>1, <2>2, <2>3, <2>4 DEF Rollback
<1>2. CASE RollbackWrote
  <2>1. /\ Looks /\ UNCHANGED <<ok, sub>> /\ at = "rollback-wrote" /\ mv.phase = "rolling-back" /\ Rev' = Rev
        /\ i \in Places /\ EntryTrue(i) /\ ~Bare /\ rn = "none" /\ at' = "rollback" /\ i' = i - 1
    BY <1>t, <1>2, <1>e, <1>j DEF RollbackWrote, At, Go, FilesStay, RenameStays, Frame, Looks,
         InMove, Indexed,
         Phases, InRollback, Places, Rev, Linked, Entries
  <2>2. /\ mv'.phase = mv.phase /\ mv'.status[i] = IF ok THEN "rolled-back" ELSE "conflict"
        /\ \A k \in Places : k # i => mv'.status[k] = mv.status[k]
    BY <1>t, <1>2, <2>1 DEF RollbackWrote, Moves, Statuses
  <2>3. (Ours(Entry) => ok /\ disk[Entry] = "old") /\ (~ok => copies # {})
    BY <1>e, <2>1 DEF Written, Rewriting, InWrite, Looks
  <2>4. Phases' /\ Targets' /\ Written'
    BY <1>e, <2>1, <2>2 DEF Phases, Targets, Written, Looks, Bare, InMove,
         InEntries, InRollback, InPublish, InRename, InUndo, InRecovery, InWrite
  <2>5. Passed'
    BY <1>t, <1>e, <2>1, <2>2, <2>3 DEF Passed, Looks, Places, InRollback, Ours, Entry
  <2>6. Entries'
    <3>0. PICK j \in Places : j = i
      BY <2>1
    <3>1. EntryTrue(j)'
      BY <2>1, <2>2, <2>3, <3>0 DEF EntryTrue, Looks, Ours, Entry
    <3>2. QED
      BY <1>e, <2>1, <2>2, <3>0, <3>1, MarkEntries DEF Looks
  <2>7. Standing' /\ Named' /\ Finished'
    BY <1>e, <2>1, <2>2 DEF Standing, Still, Named, Finished, Looks, Bare, Ours, Own, Linked,
         SrcHeld,
         DstHeld, Before, InUndo
  <2>8. QED
    BY <2>4, <2>5, <2>6, <2>7 DEF Linking
<1>3. CASE RolledBack
  <2>1. /\ Looks /\ UNCHANGED <<mv, ok, sub>> /\ at = "rollback" /\ i = 0 /\ mv.phase = "rolling-back"
        /\ at' = "m-retire"
    BY <1>3, <1>e DEF RolledBack, At, FilesStay, MoveStays, RenameStays, Frame, Looks, InMove,
         Phases,
         InRollback, Receipt, Go
  <2>2. Backward
    BY <1>t, <1>e, <2>1 DEF Backward, AllAre, Passed, InRollback, Places, Linked, Ours, Standing,
         Still
  <2>3. QED
    BY <2>1, <2>2, ReceiptLinks DEF Looks
<1>4. CASE MoveRetire
  <2>1. /\ UNCHANGED <<story, disk, touched, copies, rn, ret, aside, receipt, sub, ok>>
        /\ at = "m-retire" /\ sub.step = "none" /\ at' \in {"idle", "recover"}
        /\ mv'.phase = "none" /\ ~Bare /\ rn = "none" /\ Rev' = Rev
    BY <1>4, <1>e DEF MoveRetire, At, Go, FilesStay, RenameStays, Frame, Phases, NoMove, Rev, Linked
  <2>2. Phases'
    BY <1>e, <2>1 DEF Phases, Bare, InMove, InEntries, InRollback, InPublish, InRename, InUndo,
         InRecovery
  <2>3. Targets' /\ Entries' /\ Passed' /\ Written' /\ Standing'
    BY <2>1 DEF Targets, Entries, Passed, Written, Standing, Still, InRollback, InWrite, InEntries
  <2>4. Named'
    BY <2>1 DEF Named, Bare, SrcHeld, DstHeld, Before, InUndo
  <2>5. Finished'
    <3>1. \A c : AllAre(c)' <=> AllAre(c)
      BY <2>1 DEF AllAre, Linked
    <3>2. Forward \/ Backward \/ Halfway
      BY <1>e, <2>1 DEF Finished
    <3>3. Forward' \/ Backward' \/ Halfway'
      BY <2>1, <3>1, <3>2 DEF Forward, Backward, Halfway, Linked, Ours, Own
    <3>4. QED
      BY <2>1, <3>3 DEF Finished
  <2>6. QED
    BY <2>2, <2>3, <2>4, <2>5 DEF Linking
<1>5. QED
  BY <1>1, <1>2, <1>3, <1>4

(* The publication gives the new name its bytes, or finds it taken.         *)
LEMMA PublicationLinks ==
  ASSUME TypeOK, Placed, Linking, at = "publish-install", sub.step = "none",
         UNCHANGED <<story, touched, copies, rn, ret, mv, ok, sub>>,
         aside'[<<"rn", "evidence">>] = aside[<<"rn", "evidence">>],
         disk' = disk \/ (disk[Dst] = "absent" /\ disk' = [disk EXCEPT ![Dst] = "old"]),
         \/ /\ at' = "m-retire" /\ receipt'.move = "manual-conflict"
            /\ disk' = disk => ~BothOld \/ mv.phase = "publishing" \/ ~Ours(Dst)
         \/ at' = "publish-verify"
  PROVE  Linking'
<1>t. /\ Len(story.links) \in Nat /\ DOMAIN story.links = Places /\ i \in 0 .. Len(story.links) + 1
      /\ \A k \in Places : story.links[k] \in File \ {Dst}
      /\ Src \in File /\ Dst \in File /\ Src # Dst /\ disk \in [File -> Content]
      /\ sub \in Calls /\ (mv.phase # "none" => mv.status \in Statuses) /\ mv \in Moves
  BY Links, Names DEF TypeOK, Places
<1>e. Phases /\ Targets /\ Entries /\ Passed /\ Written /\ Standing /\ Named /\ Finished
  BY DEF Linking
<1>j. Journalled /\ Indexed
  BY DEF Placed
<1>p. /\ mv.phase \in {"publishing", "published", "applying"} /\ story.strict /\ rn = "none" /\ ~Bare
      /\ Rev' = Rev /\ Rev = "old" /\ Src \notin Linked /\ Dst \notin Linked
  <2>1. mv.phase # "none" /\ story.strict /\ rn = "none" /\ mv.phase \notin {"rolling-back", "committed"}
    BY <1>e, <1>j DEF Journalled, InMove, Phases, InPublish
  <2>2. Src \notin Linked /\ Dst \notin Linked
    BY <1>t, <2>1, StoriesOK DEF TypeOK, Linked
  <2>3. QED
    BY <1>t, <1>e, <2>1, <2>2 DEF Phases, Moves, MovePhase, Bare, Rev, Linked
<1>1. /\ \A f \in File \ {Dst} : disk'[f] = disk[f]
      /\ disk' \in [File -> Content]
      /\ disk'[Dst] = disk[Dst] \/ disk'[Dst] = "old"
  BY <1>t DEF Content
<1>2. Phases' /\ Targets' /\ Passed' /\ Written'
  BY <1>e, <1>p DEF Phases, Targets, Passed, Written, Bare, InMove, InEntries, InRollback,
       InPublish, InRename,
       InUndo, InRecovery, InWrite
<1>3. Entries'
  <2>1. SUFFICES ASSUME NEW k \in Places PROVE EntryTrue(k)'
    BY DEF Entries, Places
  <2>2. EntryTrue(k)
    BY <1>e, <1>p DEF Entries
  <2>3. QED
    BY <1>1, <1>t, <2>2 DEF EntryTrue, Ours
<1>4. Standing' /\ Named'
  BY <1>e, <1>p, <1>1, <1>t DEF Standing, Still, Named, Bare, Ours, Own, Linked, SrcHeld, DstHeld,
       Before, InUndo
<1>5. Finished'
  <2>1. CASE at' = "m-retire"
    <3>1. CASE disk' # disk
      <4>1. disk[Dst] = "absent" /\ disk'[Dst] = "old" /\ ~BothOld
        BY <1>t, <3>1 DEF BothOld, Holds
      <4>2. (AllAre("new") /\ (Ours(Dst) => Own(Dst))) \/ Backward \/ Halfway
        BY <1>p, <4>1, Disturbed
      <4>3. \A c : AllAre(c)' <=> AllAre(c)
        BY <1>t, <1>1, <1>p DEF AllAre, Linked
      <4>4. Forward' \/ Backward' \/ Halfway'
        BY <1>t, <1>1, <1>p, <4>1, <4>2, <4>3 DEF Forward, Backward, Halfway, Linked, Ours, Own
      <4>5. QED
        BY <4>4, <2>1 DEF Finished
    <3>2. CASE disk' = disk
      <4>1. ~BothOld \/ mv.phase = "publishing" \/ ~Ours(Dst)
        BY <2>1, <3>2
      <4>2. (AllAre("new") /\ (Ours(Dst) => Own(Dst))) \/ Backward \/ Halfway
        BY <1>p, <4>1, Disturbed
      <4>3. \A c : AllAre(c)' <=> AllAre(c)
        BY <3>2 DEF AllAre, Linked
      <4>4. Forward' \/ Backward' \/ Halfway'
        BY <3>2, <4>2, <4>3 DEF Forward, Backward, Halfway, Linked, Ours, Own
      <4>5. QED
        BY <4>4, <2>1 DEF Finished
    <3>3. QED
      BY <3>1, <3>2
  <2>2. CASE at' = "publish-verify"
    BY <1>p, <2>2 DEF Finished
  <2>3. QED
    BY <2>1, <2>2
<1>6. QED
  BY <1>2, <1>3, <1>4, <1>5 DEF Linking

(* Which of the two it is, the publication looks at once more.             *)
LEMMA PublishLinks ==
  ASSUME TypeOK, Placed, Linking, PublishInstall
  PROVE  Linking'
<1>1. /\ at = "publish-install" /\ sub.step = "none"
      /\ UNCHANGED <<story, touched, copies, rn, ret, mv, ok, sub>>
  BY DEF PublishInstall, At, MoveStays, Frame, RenameStays
<1>2. /\ <<"mv", "blob">> \in Aside /\ <<"mv", "evidence">> \in Aside /\ <<"rn", "evidence">> \in Aside
      /\ <<"mv", "blob">> # <<"rn", "evidence">> /\ <<"mv", "evidence">> # <<"rn", "evidence">>
      /\ aside \in [Aside -> Private]
  BY DEF Aside, TypeOK
<1>3. aside'[<<"rn", "evidence">>] = aside[<<"rn", "evidence">>]
  BY <1>2 DEF PublishInstall, RenameStays
<1>4. CASE Exists(Dst)
  <2>1. disk' = disk /\ at' = "m-retire" /\ receipt'.move = "manual-conflict"
    BY <1>4, JournalEffects DEF PublishInstall, Recorded, Outcome, RenameStays
  <2>2. mv.phase \in {"publishing", "published", "applying"}
    <3>1. mv.phase # "none" /\ mv.phase \notin {"rolling-back", "committed", "intent", "renaming"}
      BY <1>1 DEF Linking, Phases, Placed, Journalled, InMove, InPublish
    <3>2. QED
      BY <3>1 DEF TypeOK, Moves, MovePhase
  <2>3. mv.phase = "publishing" \/ ~Ours(Dst)
    BY <1>1, <2>2 DEF Linking, Standing
  <2>4. QED
    BY <1>1, <1>3, <2>1, <2>3, PublicationLinks
<1>5. CASE ~Exists(Dst)
  <2>1. disk[Dst] = "absent" /\ disk' = [disk EXCEPT ![Dst] = "old"] /\ at' = "publish-verify"
    BY <1>5 DEF PublishInstall, Exists, Go, RenameStays
  <2>2. QED
    BY <1>1, <1>3, <2>1, PublicationLinks
<1>6. QED
  BY <1>4, <1>5

(* A step of the write of a note touches that note, its conflict copies and *)
(* its journal.                                                             *)
WritesEntry ==
  /\ UNCHANGED <<story, touched, mv, i, first, at, rn, ret, aside, receipt>>
  /\ at \in InWrite /\ sub.file = Entry /\ sub.step \in {"write", "swap", "close"}
  /\ copies \subseteq copies'
  /\ \A f \in File \ {Entry} : disk'[f] = disk[f]
  /\ disk'[Entry] = disk[Entry] \/ (disk[Entry] = sub.base /\ disk'[Entry] = sub.next)
  /\ sub'.step \in {"none", "swap", "close"}
  /\ sub'.step # "none" => UNCHANGED ok /\ sub'.file = sub.file /\ sub'.base = sub.base /\ sub'.next = sub.next
  /\ ~ok' /\ sub'.step = "none" => copies' # {}
  /\ disk[Entry] = sub.base /\ sub.step \in {"write", "swap"} => sub'.step # "none"
  /\ sub'.step = "swap" => sub.step = "write" /\ disk'[Entry] = disk[Entry]
  /\ sub'.step = "close" => disk'[Entry] = sub.next
  /\ sub.step = "close" => disk'[Entry] = disk[Entry] /\ sub'.step = "none" /\ (disk[Entry] = sub.next => ok')

(* It keeps the invariant: a note of our own is rewritten, and one that is   *)
(* not gets a conflict copy.                                                *)
LEMMA NoteLinks ==
  ASSUME TypeOK, Placed, Linking, WritesEntry
  PROVE  Linking'
<1>e. Phases /\ Targets /\ Entries /\ Passed /\ Written /\ Standing /\ Named /\ Finished
  BY DEF Linking
<1>t. /\ Len(story.links) \in Nat /\ i \in Places /\ \A k \in Places : story.links[k] \in File \ {Dst}
      /\ Src \in File /\ Dst \in File /\ Entry \in File \ {Dst} /\ Entry' = Entry /\ Rev' = Rev
      /\ \A k \in Places : story.links[k] = Entry => k = i
  <2>1. \A m, n \in DOMAIN story.links : story.links[m] = story.links[n] => m = n
    BY StoriesOK DEF TypeOK
  <2>2. i \in Places
    BY DEF Placed, Indexed, WritesEntry, InWrite, Places
  <2>3. QED
    BY <2>1, <2>2, Links DEF WritesEntry, Entry, Places, Rev, Linked
<1>b. {sub.base, sub.next} \subseteq {"old", "new"} /\ rn = "none"
  BY <1>e DEF Placed, Called, WritesEntry, Phases, InWrite, InMove
<1>p. /\ mv.phase \in {"applying", "rolling-back"} /\ ~Bare
      /\ at \in {"entry-wrote", "diverged"} => mv.phase = "applying"
      /\ at = "rollback-wrote" => mv.phase = "rolling-back"
  BY <1>e DEF Phases, WritesEntry, InWrite, InEntries, InRollback
<1>1. Phases' /\ Targets'
  BY <1>e, <1>t, <1>p DEF Phases, Targets, WritesEntry, Bare, InWrite
<1>2. Written'
  <2>1. at = "entry-wrote" => sub.base = "old" /\ sub.next = "new" /\ mv.status[i] = "pending"
                              /\ (Ours(Entry) => disk[Entry] = IF sub.step = "close" THEN "new" ELSE "old")
    BY <1>e DEF Written, Rewriting, WritesEntry
  <2>2. at = "rollback-wrote" => sub.base = "new" /\ sub.next = "old" /\ mv.status[i] \in {"pending", "applied"}
                              /\ (Ours(Entry) => disk[Entry] = IF sub.step = "close" THEN "old" ELSE "new")
    BY <1>e DEF Written, Rewriting, WritesEntry
  <2>3. at = "diverged" => ~Ours(Entry)
    BY <1>e DEF Written
  <2>4. Ours(Entry)' <=> Ours(Entry)
    BY <1>t DEF Ours, WritesEntry
  <2>5. at = "entry-wrote" => Rewriting("old", "new")'
    BY <1>t, <2>1, <2>4 DEF Rewriting, WritesEntry
  <2>6. at = "rollback-wrote" => Rewriting("new", "old")'
    BY <1>t, <2>2, <2>4 DEF Rewriting, WritesEntry
  <2>7. QED
    BY <2>1, <2>2, <2>3, <2>4, <2>5, <2>6 DEF Written, WritesEntry
<1>3. Entries'
  <2>1. SUFFICES ASSUME NEW k \in Places PROVE EntryTrue(k)'
    BY DEF Entries, Places, WritesEntry
  <2>2. EntryTrue(k)
    BY <1>e, <1>p DEF Entries
  <2>3. CASE k # i
    <3>1. disk'[story.links[k]] = disk[story.links[k]]
      BY <1>t, <2>3 DEF WritesEntry
    <3>2. QED
      BY <2>2, <3>1 DEF EntryTrue, Ours, WritesEntry
  <2>4. CASE k = i
    <3>1. Ours(Entry) => disk'[Entry] \in {"old", "new"} \/ Entry = Src
      BY <1>b, <2>2, <2>4 DEF EntryTrue, WritesEntry, Entry
    <3>2. Ours(Entry) => \/ at = "entry-wrote" /\ mv.status[i] = "pending"
                         \/ at = "rollback-wrote" /\ mv.status[i] \in {"pending", "applied"}
      BY <1>e DEF Written, WritesEntry, InWrite
    <3>3. QED
      BY <1>p, <2>2, <2>4, <3>1, <3>2 DEF EntryTrue, Ours, WritesEntry, Entry
  <2>5. QED
    BY <2>3, <2>4
<1>4. Passed'
  <2>1. \A k \in Places : k > i => disk'[story.links[k]] = disk[story.links[k]]
    <3>1. SUFFICES ASSUME NEW k \in Places, k > i PROVE disk'[story.links[k]] = disk[story.links[k]]
      OBVIOUS
    <3>2. k # i
      BY <1>t, <3>1 DEF Places
    <3>3. QED
      BY <1>t, <3>2 DEF WritesEntry
  <2>2. QED
    BY <1>e, <2>1 DEF Passed, WritesEntry, InWrite, Places, InRollback, Ours
<1>5. Standing'
  <2>1. Entry \in Linked /\ Linked' = Linked /\ disk'[Dst] = disk[Dst]
    <3>1. DOMAIN story.links = Places
      BY Links DEF Places
    <3>2. QED
      BY <1>t, <3>1 DEF Linked, Entry, WritesEntry
  <2>2. Ours(Src) => disk'[Src] = disk[Src] \/ (Src \in Linked /\ disk'[Src] \in {"old", "new"})
    BY <1>t, <1>b, <2>1 DEF WritesEntry
  <2>3. QED
    BY <1>e, <1>t, <1>p, <2>1, <2>2 DEF Standing, Still, WritesEntry, InWrite, Ours, Own
<1>f. Named' /\ Finished'
  BY <1>t, <1>b, <1>p DEF Named, Finished, WritesEntry, InWrite, Bare, SrcHeld, DstHeld, Before,
       InUndo
<1>6. QED
  BY <1>1, <1>2, <1>3, <1>4, <1>5, <1>f DEF Linking

(* The note write and the installation keep the invariant.                  *)
LEMMA WritingLinks ==
  ASSUME TypeOK, Placed, Linking, Writing \/ InstallUncleaned
  PROVE  Linking'
<1>t. /\ disk \in [File -> Content] /\ aside \in [Aside -> Private] /\ Src \in File /\ Dst \in File /\ Src # Dst
      /\ sub \in Calls /\ sub.file \in File /\ <<"rn", "evidence">> \in Aside
      /\ Rev \in {"old", "new"}
  BY Links, Names, RevOwn DEF TypeOK, Calls, Aside
<1>e. Phases /\ Targets /\ Named /\ Journalled
  BY DEF Linking, Placed
<1>1. CASE WriteStage \/ WriteSwap \/ WriteClose
  <2>1. /\ UNCHANGED <<story, touched, mv, i, first, at, rn, ret, aside, receipt>>
        /\ sub.step \in {"write", "swap", "close"} /\ copies \subseteq copies'
    BY <1>1 DEF WriteStage, WriteSwap, WriteClose, MoveStays, RenameStays, Frame
  <2>2. at \in InWrite /\ sub.file = Entry
    BY <1>e, <2>1 DEF Targets
  <2>3. CASE WriteStage
    <3>1. CASE Holds(sub.file, sub.base)
      <4>1. UNCHANGED <<disk, copies, ok>> /\ Advanced("swap")
        BY <1>t, <2>3, <3>1, CallEffects DEF WriteStage
      <4>2. sub.step = "write"
        BY <2>3 DEF WriteStage
      <4>3. WritesEntry
        BY <2>1, <2>2, <4>1, <4>2 DEF WritesEntry, Advanced
      <4>4. QED
        BY <4>3, NoteLinks
    <3>2. CASE ~Holds(sub.file, sub.base)
      <4>1. /\ disk' = disk /\ copies' = copies \cup {<<sub.file, sub.next>>}
            /\ Returned /\ ok' = FALSE /\ sub.step = "write" /\ disk[Entry] # sub.base
        BY <2>2, <2>3, <3>2, CallEffects DEF WriteStage, Holds
      <4>2. WritesEntry
        BY <2>1, <2>2, <4>1 DEF WritesEntry, Returned
      <4>3. QED
        BY <4>2, NoteLinks
    <3>3. QED
      BY <3>1, <3>2
  <2>4. CASE WriteSwap
    <3>1. CASE Holds(sub.file, sub.base)
      <4>1. /\ disk' = [disk EXCEPT ![sub.file] = sub.next] /\ ok' = ok /\ Advanced("close")
            /\ sub.step = "swap" /\ disk[Entry] = sub.base
        BY <1>t, <2>2, <2>4, <3>1, CallEffects DEF WriteSwap, Holds
      <4>2. disk'[Entry] = sub.next /\ \A f \in File \ {Entry} : disk'[f] = disk[f]
        BY <1>t, <2>2, <4>1
      <4>3. WritesEntry
        BY <2>1, <2>2, <4>1, <4>2 DEF WritesEntry, Advanced
      <4>4. QED
        BY <4>3, NoteLinks
    <3>2. CASE ~Holds(sub.file, sub.base)
      <4>1. /\ disk' = disk /\ copies' = copies \cup {<<sub.file, sub.next>>}
            /\ Returned /\ ok' = FALSE /\ sub.step = "swap" /\ disk[Entry] # sub.base
        BY <2>2, <2>4, <3>2, CallEffects DEF WriteSwap, Holds
      <4>2. WritesEntry
        BY <2>1, <2>2, <4>1 DEF WritesEntry, Returned
      <4>3. QED
        BY <4>2, NoteLinks
    <3>3. QED
      BY <3>1, <3>2
  <2>5. CASE WriteClose
    <3>1. /\ disk' = disk /\ sub.step = "close" /\ Returned /\ ok' = (disk[Entry] = sub.next)
          /\ ~ok' => copies' # {}
      BY <2>2, <2>5, CallEffects DEF WriteClose, Holds
    <3>2. WritesEntry
      BY <2>1, <2>2, <3>1 DEF WritesEntry, Returned
    <3>3. QED
      BY <3>2, NoteLinks
  <2>6. QED
    BY <1>1, <2>3, <2>4, <2>5
<1>2. CASE InstallMake \/ InstallFill \/ InstallUncleaned
  <2>1. /\ UNCHANGED <<story, touched, mv, i, first, at, rn, ret, copies, draft, receipt>>
        /\ sub.step \in {"make", "fill"} /\ Rev' = Rev
    BY <1>2 DEF InstallMake, InstallFill, InstallUncleaned, MoveStays, RenameStays, Frame,
         journals, Rev, Linked
  <2>2. \/ at \in {"r-installed", "rec-installed"} /\ sub.file = Dst
        \/ at \in {"r-restored", "undo-copied"} /\ sub.file = Src
    BY <1>e, <2>1 DEF Targets
  <2>3. /\ \A f \in File \ {sub.file} : disk'[f] = disk[f]
        /\ \/ disk' = disk /\ sub'.step = "none"
              /\ (sub.step = "make" => disk[sub.file] # "absent") /\ (sub.step = "fill" => disk[sub.file] # "torn")
           \/ /\ sub.step = "make" /\ disk[sub.file] = "absent" /\ disk'[sub.file] = "torn"
              /\ sub'.step = "fill" /\ sub'.file = sub.file
           \/ sub.step = "fill" /\ disk[sub.file] = "torn" /\ disk'[sub.file] = Rev /\ sub'.step = "none"
    <3>1. CASE InstallMake
      <4>1. Return(FALSE) => sub'.step = "none"
        BY CallEffects DEF Returned
      <4>2. sub' = [sub EXCEPT !.step = "fill"] => sub'.step = "fill" /\ sub'.file = sub.file
        BY <1>t, CallEffects DEF Advanced
      <4>3. QED
        BY <1>t, <3>1, <4>1, <4>2 DEF InstallMake, Exists
    <3>2. CASE InstallFill \/ InstallUncleaned
      <4>1. (Return(FALSE) \/ Return(TRUE)) => sub'.step = "none"
        BY CallEffects DEF Returned
      <4>2. QED
        BY <1>t, <3>2, <4>1 DEF InstallFill, InstallUncleaned, Holds
    <3>3. QED
      BY <1>2, <3>1, <3>2
  <2>4. Renames
    <3>1. \A f \in File \ {Src, Dst} : disk'[f] = disk[f]
      BY <2>2, <2>3
    <3>2. at \in InRename /\ (at = "rec-installed" => rn # "none") /\ at \notin InMove
      BY <1>e, <2>2 DEF Journalled, InRename, InUndo, InMove
    <3>3. QED
      BY <2>1, <2>2, <2>3, <3>1, <3>2 DEF Renames, InUndo, InRecovery
  <2>5. Named'
    BY <1>t, <1>e, <2>1, <2>2, <2>3 DEF Named, Either, Bare, Ours, SrcHeld, DstHeld, Before, InUndo
  <2>6. QED
    BY <2>4, <2>5, RenamesKeep DEF Linking
<1>3. QED
  BY <1>1, <1>2 DEF Writing

(* Starting, stopping and giving up leave the files and the journals.       *)
Rests ==
  /\ UNCHANGED <<story, disk, touched, mv, rn, aside, receipt>> /\ copies \subseteq copies'
  /\ sub'.step = "none" /\ at' \in {"down", "idle", "recover", "rec-rename", "continue"}
  /\ ret' = ret \/ ret' \in {"idle", "recover"}
  /\ at' = "continue" => rn = "none" /\ mv.phase # "none"
  /\ at' = "rec-rename" => rn # "none" /\ ret' = "recover"

(* Such a step keeps the invariant.                                         *)
LEMMA RestingLinks ==
  ASSUME TypeOK, Placed, Linking, Rests
  PROVE  Linking'
<1>e. Phases /\ Entries /\ Standing /\ Named /\ Finished
  BY DEF Linking
<1>t. Rev' = Rev /\ (Bare' <=> Bare)
  BY DEF Rests, Rev, Linked, Bare
<1>1. Phases'
  BY <1>e, <1>t DEF Phases, Rests, InMove, InEntries, InRollback, InPublish, InRename, InUndo,
       InRecovery
<1>2. Targets' /\ Passed' /\ Written'
  BY DEF Targets, Passed, Written, Rests, InRollback, InWrite
<1>3. Entries'
  <2>1. SUFFICES ASSUME mv.phase # "none", NEW k \in Places PROVE EntryTrue(k)'
    BY DEF Entries, Rests, Places
  <2>2. EntryTrue(k)
    BY <1>e, <2>1 DEF Entries
  <2>3. QED
    BY <2>2 DEF EntryTrue, Ours, Rests
<1>4. Standing' /\ Named'
  BY <1>e, <1>t DEF Standing, Still, Named, Either, Rests, Ours, Own, Linked, SrcHeld, DstHeld,
       Before, InUndo
<1>5. Finished'
  <2>1. \A c : AllAre(c)' <=> AllAre(c)
    BY DEF AllAre, Rests, Linked
  <2>2. ~Bare /\ mv.phase = "none" => Forward' \/ Backward' \/ Halfway'
    BY <1>e, <2>1 DEF Finished, Forward, Backward, Halfway, Rests, Linked, Ours, Own
  <2>3. QED
    BY <1>t, <2>2 DEF Finished, Rests
<1>6. QED
  BY <1>1, <1>2, <1>3, <1>4, <1>5 DEF Linking

(* A file another program changes is no longer ours.                        *)
LEMMA ExternalLinks ==
  ASSUME TypeOK, Placed, Linking, External
  PROVE  Linking'
<1>e. Phases /\ Targets /\ Entries /\ Passed /\ Written /\ Standing /\ Named /\ Finished
  BY DEF Linking
<1>1. /\ UNCHANGED <<story, copies, journals, mode, local>>
      /\ \E f \in File : touched' = touched \cup {f} /\ \A g \in File \ {f} : disk'[g] = disk[g]
  <2>1. PICK f \in File, c \in {"foreign", "absent", "old"} :
          disk' = [disk EXCEPT ![f] = c] /\ touched' = touched \cup {f}
    BY DEF External
  <2>2. \A g \in File \ {f} : disk'[g] = disk[g]
    BY <2>1 DEF TypeOK
  <2>3. QED
    BY <2>1, <2>2 DEF External
<1>2. /\ UNCHANGED <<story, copies, mv, rn, aside, receipt, at, i, sub, ok, ret>>
      /\ touched \subseteq touched' /\ touched' # {} /\ \A f \in File : Ours(f)' => Ours(f) /\ disk'[f] = disk[f]
  BY <1>1 DEF journals, local, Ours
<1>t. /\ \A k \in Places : story.links[k] \in File \ {Dst}
      /\ Src \in File /\ Dst \in File /\ Rev' = Rev /\ (Bare' <=> Bare) /\ Entry' = Entry /\ Linked' = Linked
      /\ Linked \subseteq File /\ (at \in InWrite => Entry \in File)
  <2>1. DOMAIN story.links = Places
    BY Links DEF Places
  <2>2. QED
    BY <1>2, <2>1, Links DEF Rev, Linked, Bare, Entry, Places, Placed, Indexed, InWrite
<1>3. Phases' /\ Targets'
  BY <1>e, <1>2, <1>t DEF Phases, Targets
<1>4. Entries'
  <2>1. SUFFICES ASSUME mv.phase # "none", NEW k \in Places PROVE EntryTrue(k)'
    BY <1>2 DEF Entries, Places
  <2>2. EntryTrue(k)
    BY <1>e, <2>1 DEF Entries
  <2>3. QED
    BY <1>2, <1>t, <2>2 DEF EntryTrue
<1>5. Passed'
  BY <1>e, <1>2, <1>t DEF Passed, Places
<1>6. Written'
  BY <1>e, <1>2, <1>t DEF Written, Rewriting, InWrite
<1>7. Standing'
  BY <1>e, <1>2, <1>t DEF Standing, Still, Own
<1>8. Named'
  BY <1>e, <1>2, <1>t DEF Named, Either, Evidence
<1>9. Finished'
  <2>1. \A c : AllAre(c) => AllAre(c)'
    BY <1>2, <1>t DEF AllAre, Ours
  <2>2. Forward => Forward'
    BY <1>2, <1>t, <2>1 DEF Forward, Own
  <2>3. Backward => Backward'
    BY <1>2, <1>t, <2>1 DEF Backward, Own
  <2>4. Halfway => Halfway'
    BY <1>2, <1>t DEF Halfway, Own, Ours
  <2>5. QED
    BY <1>e, <1>2, <1>t, <2>2, <2>3, <2>4 DEF Finished
<1>10. QED
  BY <1>3, <1>4, <1>5, <1>6, <1>7, <1>8, <1>9 DEF Linking

(* A call that fails leaves what is known of the files.                     *)
LEMMA FaultLinks ==
  ASSUME TypeOK, Placed, Linking, Fault
  PROVE  Linking'
<1>e. Phases /\ Targets /\ Named /\ Journalled
  BY DEF Linking, Placed
<1>t. /\ UNCHANGED <<story, copies, draft, mv, rn, aside, kept, touched>> /\ Rev' = Rev
      /\ Src \in File /\ Dst \in File /\ Src # Dst /\ disk \in [File -> Content]
      /\ receipt \in [move : Outcome, rename : Outcome]
  BY Links, Names DEF Fault, Rev, Linked, TypeOK
<1>1. CASE /\ Undoing /\ UndoEnds(FALSE) /\ sub' = NoSub
           /\ UNCHANGED <<disk, mode, i, first, ret, receipt>>
  <2>1. /\ at \in InUndo /\ sub'.step = "none" /\ ok' = FALSE
        /\ at' = IF rn # "none" THEN "rec-undone" ELSE "resume-restored"
    BY <1>1 DEF Undoing, InUndo, UndoEnds, Go, NoSub
  <2>2. Renames
    BY <1>1, <1>t, <2>1 DEF Renames, InRename, InUndo, InMove, InRecovery
  <2>3. Named'
    BY <1>1, <1>e, <1>t, <2>1 DEF Named, Either, Bare, Ours, SrcHeld, DstHeld, Before, InUndo
  <2>4. QED
    BY <2>2, <2>3, RenamesKeep DEF Linking
<1>2. CASE /\ Refusable
           /\ \/ disk' = disk
              \/ at # "rec-installed" /\ ~Exists(Dst) /\ disk' = [disk EXCEPT ![Dst] = "old"]
           /\ \/ at = "rec-installed" /\ Return(FALSE) /\ UNCHANGED <<at, receipt>>
              \/ at = "publish-install" /\ Receipt("manual-conflict") /\ UNCHANGED <<sub, ok>>
              \/ at \in {"r-publish", "rec-publish"} /\ RenameConflict /\ UNCHANGED sub
           /\ UNCHANGED <<mode, i, first, ret>>
  <2>1. /\ \A f \in File \ {Dst} : disk'[f] = disk[f]
        /\ at = "rec-installed" => disk' = disk
        /\ disk' = disk \/ (disk[Dst] = "absent" /\ disk' = [disk EXCEPT ![Dst] = "old"])
        /\ disk' = disk \/ (disk[Dst] = "absent" /\ disk'[Dst] = "old")
    BY <1>2, <1>t DEF Exists
  <2>2. CASE at = "rec-installed"
    <3>1. sub'.step = "none" /\ at' = at /\ receipt' = receipt /\ rn # "none"
      BY <1>2, <1>e, <2>2, CallEffects DEF Returned, Journalled, InRename, InUndo
    <3>2. Renames
      BY <1>2, <1>t, <2>1, <2>2, <3>1 DEF Renames, InRename, InUndo, InMove, InRecovery
    <3>3. Named'
      BY <1>2, <1>e, <1>t, <2>1, <2>2, <3>1 DEF Named, Either, Bare, Ours, SrcHeld, DstHeld,
           Before, InUndo
    <3>4. QED
      BY <3>2, <3>3, RenamesKeep DEF Linking
  <2>3. CASE at = "publish-install"
    <3>1. sub.step = "none" /\ at' = "m-retire" /\ receipt'.move = "manual-conflict" /\ UNCHANGED <<sub, ok>>
      <4>1. Recorded("manual-conflict")
        BY <1>2, <2>3, JournalEffects DEF Outcome
      <4>2. sub.step \in {"none", "write", "swap", "close", "make", "fill"}
        BY DEF TypeOK, Calls
      <4>3. QED
        BY <1>2, <1>e, <2>3, <4>1, <4>2 DEF Recorded, Targets, InWrite
    <3>2. mv.phase = "publishing" \/ ~Ours(Dst)
      <4>1. mv.phase \in MovePhase
        BY DEF TypeOK, Moves
      <4>2. QED
        BY <1>e, <2>3, <4>1 DEF Linking, Standing, Phases, InPublish, Journalled, InMove, MovePhase
    <3>3. QED
      BY <1>2, <1>t, <2>1, <2>3, <3>1, <3>2, PublicationLinks
  <2>4. CASE at \in {"r-publish", "rec-publish"}
    <3>1. sub.step = "none" /\ Ended("manual-conflict") /\ sub' = sub
      <4>1. Ended("manual-conflict")
        BY <1>2, <2>4, JournalEffects DEF RenameConflict, Outcome
      <4>2. sub.step \in {"none", "write", "swap", "close", "make", "fill"}
        BY DEF TypeOK, Calls
      <4>3. QED
        BY <1>2, <1>e, <2>4, <4>1, <4>2 DEF Targets, InWrite
    <3>2. Renames
      BY <1>2, <1>t, <2>1, <2>4, <3>1 DEF Renames, Ended, InRename, InUndo, InMove, InRecovery
    <3>3. story.strict /\ Bare /\ ret # "renamed"
      BY <1>e, <2>4 DEF Phases, InRename, InUndo
    <3>4. Ours(Src) => disk[Src] = Rev
      BY <1>e, <2>4 DEF Named, SrcHeld, Before, Either
    <3>5. Named'
      BY <1>2, <1>t, <2>1, <3>1, <3>3, <3>4 DEF Named, Either, Ended, Ours, SrcHeld, DstHeld,
           Before, InUndo
    <3>6. QED
      BY <3>2, <3>5, RenamesKeep DEF Linking
  <2>5. QED
    BY <1>2, <2>2, <2>3, <2>4
<1>3. CASE /\ Forget /\ Go(IF mode = "recovering" THEN "down" ELSE "idle")
           /\ UNCHANGED <<disk, receipt>>
  <2>1. sub'.step = "none" /\ ret' = "idle" /\ at' \in {"down", "idle"}
    BY <1>3, Forgotten DEF Go
  <2>2. Rests
    BY <1>3, <1>t, <2>1 DEF Rests
  <2>3. QED
    BY <2>2, RestingLinks
<1>4. QED
  BY <1>1, <1>2, <1>3 DEF Fault

(* In the beginning nothing has been touched.                               *)
LEMMA InitLinks == Init => Linking
<1> SUFFICES ASSUME Init PROVE Linking
  OBVIOUS
<1>1. /\ story \in Stories /\ \A f \in File : f # Dst => disk[f] = "old"
      /\ disk[Dst] = "absent" /\ mv.phase = "none" /\ rn = "none" /\ sub.step = "none"
      /\ at = (IF Bare THEN "r-check" ELSE "m-check") /\ ret = "idle" /\ touched = {}
  BY DEF Init, Bare, NoMove, NoSub, File
<1>2. /\ Linked \subseteq File \ {Dst} /\ Src \in File /\ Src # Dst
      /\ Bare => Rev = "old"
  <2>1. story.links \in Seq(Notes \cup {Src})
    BY <1>1, StoriesOK
  <2>2. \A k \in DOMAIN story.links : story.links[k] \in Notes \cup {Src}
    BY <2>1
  <2>3. Bare => DOMAIN story.links = {}
    BY DEF Bare
  <2>4. QED
    BY <2>2, <2>3, Names DEF Linked, File, Rev
<1>3. Phases /\ Targets /\ Entries /\ Passed /\ Written /\ Standing
  BY <1>1 DEF Phases, Targets, Entries, Passed, Written, Standing, Still, InMove, InEntries,
       InRollback, InPublish,
       InRename, InUndo, InRecovery, InWrite
<1>4. Named
  BY <1>1, <1>2 DEF Named, Either, SrcHeld, DstHeld, Before, InUndo
<1>5. Finished
  BY <1>1, <1>2 DEF Finished, Backward, AllAre, Own
<1>6. QED
  BY <1>3, <1>4, <1>5 DEF Linking

(* Every step keeps it.                                                     *)
LEMMA StepLinks == TypeOK /\ Placed /\ Secured /\ Linking /\ [Next]_vars => Linking'
<1> SUFFICES ASSUME TypeOK, Placed, Secured, Linking, [Next]_vars PROVE Linking'
  OBVIOUS
<1>1. CASE Writing \/ InstallUncleaned
  BY <1>1, WritingLinks
<1>2. CASE Moving
  BY <1>2, BeginningLinks, PublishLinks, EntryLinks, EndingLinks, RollbackLinks DEF Moving
<1>3. CASE Renaming
  BY <1>3, RenamingNamed, RenamesKeep DEF Linking
<1>4. CASE Recovering
  <2>1. CASE RecoverWrite
    <3>1. Rests
      BY <2>1 DEF Rests, RecoverWrite, At, local, RenameStays, Frame
    <3>2. QED
      BY <3>1, RestingLinks
  <2>2. CASE RecoverJournal
    <3>1. Rests
      BY <2>2 DEF Rests, RecoverJournal, At, Go, FilesStay, MoveStays, RenameStays, Frame
    <3>2. QED
      BY <3>1, RestingLinks
  <2>3. CASE ~RecoverWrite /\ ~RecoverJournal
    BY <1>4, <2>3, RecoveringNamed, RenamesKeep DEF Linking
  <2>4. QED
    BY <2>1, <2>2, <2>3
<1>5. CASE Open \/ Opened \/ Quit
  <2>1. /\ UNCHANGED <<story, disk, copies, touched, mv, rn, aside, receipt, sub, ret>>
        /\ at \in {"down", "recover", "idle"} /\ at' \in {"recover", "idle", "down"}
    BY <1>5 DEF Open, Opened, Quit, At, Go, journals, Placed, Journalled
  <2>2. sub.step = "none"
    <3>1. sub.step \in {"none", "write", "swap", "close", "make", "fill"}
      BY DEF TypeOK, Calls
    <3>2. QED
      BY <2>1, <3>1 DEF Linking, Targets, InWrite
  <2>3. QED
    BY <2>1, <2>2, RestingLinks DEF Rests
<1>6. CASE Crash
  <2>1. Rests
    BY <1>6, Forgotten DEF Rests, Crash, Go, journals
  <2>2. QED
    BY <2>1, RestingLinks
<1>7. CASE Fault
  BY <1>7, FaultLinks
<1>8. CASE External
  BY <1>8, ExternalLinks
<1>9. CASE UNCHANGED vars
  <2>1. UNCHANGED <<story, disk, copies, mv, rn, aside, receipt, at, i, sub, ok, ret, touched>>
    BY <1>9 DEF vars, journals, local
  <2>2. Rev' = Rev /\ Linked' = Linked /\ Entry' = Entry /\ Places' = Places
    BY <2>1 DEF Rev, Linked, Entry, Places
  <2>3. Phases' /\ Targets' /\ Passed' /\ Written' /\ Standing' /\ Named'
    BY <2>1, <2>2 DEF Linking, Phases, Targets, Passed, Written, Rewriting, Standing, Still,
         Named, Either, Bare, Ours,
         Own, Evidence
  <2>4. Entries'
    BY <2>1, EntriesStay DEF Linking
  <2>5. Finished'
    BY <2>1, <2>2 DEF Linking, Finished, Bare, Forward, Backward, Halfway, AllAre, Ours, Own
  <2>6. QED
    BY <2>3, <2>4, <2>5 DEF Linking
<1>10. QED
  BY <1>1, <1>2, <1>3, <1>4, <1>5, <1>6, <1>7, <1>8, <1>9 DEF Next, Program

(* What is known of links and names holds always.                           *)
LEMMA AlwaysLinking == Spec => []Linking
<1>1. Init => Linking
  BY InitLinks
<1>2. Spec => [](TypeOK /\ Placed)
  BY AlwaysPlaced
<1>3. Spec => []Secured
  BY AlwaysSecured
<1>4. TypeOK /\ Placed /\ Secured /\ Linking /\ [Next]_vars => Linking'
  BY StepLinks
<1>5. QED
  BY <1>1, <1>2, <1>3, <1>4, PTL DEF Spec

(* Once everything is settled, every note nobody else changed links to a    *)
(* name under which the file is, or which somebody else changed, and all    *)
(* agree when nobody changed anything: for any list of links, however often *)
(* the kernel stops and whatever fails.                                     *)
THEOREM LinksAlwaysReach == Spec => []LinksReach
<1>1. ASSUME TypeOK, Linking PROVE LinksReach
  <2>1. SUFFICES ASSUME Settled PROVE
          /\ \A f \in Linked \ (touched \cup {Src}) :
               \/ disk[f] = "new" /\ (Own(Dst) \/ Dst \in touched)
               \/ disk[f] = "new" /\ Src \in touched /\ receipt.move = "manual-conflict"
               \/ disk[f] = "old" /\ (Own(Src) \/ Src \in touched)
          /\ touched = {} => \A f, g \in Linked \ {Src} : disk[f] = disk[g]
    BY DEF LinksReach
  <2>2. CASE Bare
    <3>1. Linked = {}
      BY <2>2 DEF Bare, Linked
    <3>2. QED
      BY <3>1
  <2>3. CASE ~Bare
    <3>1. Forward \/ Backward \/ Halfway
      BY <1>1, <2>1, <2>3 DEF Linking, Finished, Settled, Pending
    <3>2. CASE Forward
      BY <3>2 DEF Forward, AllAre, Ours
    <3>3. CASE Backward
      BY <3>3 DEF Backward, AllAre, Ours
    <3>4. CASE Halfway
      BY <3>4 DEF Halfway, Ours
    <3>5. QED
      BY <3>1, <3>2, <3>3, <3>4
  <2>4. QED
    BY <2>2, <2>3
<1>2. QED
  BY <1>1, AlwaysPlaced, AlwaysLinking, PTL

(* A receipt that only reports what went wrong claims nothing.              *)
LEMMA Modest == \A o \in {"manual-conflict", "rejected"} : Says(o)
BY DEF Says, Published

(* What a move's receipt says, the invariant knows.                         *)
LEMMA MovingSays ==
  ASSUME TypeOK, Placed, Linking, Moving
  PROVE  receipt'.rename = receipt.rename /\ (receipt'.move = receipt.move \/ Says(receipt'.move))
<1>t. /\ receipt \in [move : Outcome, rename : Outcome] /\ {"manual-conflict", "rejected"} \subseteq Outcome
      /\ \A k \in Places : story.links[k] \in File \ {Dst}
      /\ \A f \in Linked : \E k \in Places : f = story.links[k]
      /\ DOMAIN story.links = Places /\ Len(story.links) \in Nat
      /\ story.strict \in BOOLEAN /\ (story.strict => Src \notin Linked) /\ Src \in File /\ Dst \in File
  BY Links, StoriesOK DEF TypeOK, Outcome, Places, Linked
<1>1. CASE MoveCheck
  <2>1. receipt' = receipt \/ receipt' = [receipt EXCEPT !.move = "rejected"]
    BY <1>1 DEF MoveCheck
  <2>2. receipt' = receipt \/ (receipt'.move = "rejected" /\ receipt'.rename = receipt.rename)
    BY <1>t, <2>1
  <2>3. QED
    BY <2>2, Modest
<1>2. CASE Publish \/ PublishInstall \/ PublishVerify \/ AfterPublish \/ Resume \/ ResumeRestored
  <2>1. receipt' = receipt \/ Receipt("manual-conflict")
    BY <1>2 DEF Publish, PublishInstall, PublishVerify, AfterPublish, Resume, ResumeRestored,
         RenameStays
  <2>2. receipt' = receipt \/ (receipt'.move = "manual-conflict" /\ receipt'.rename = receipt.rename)
    BY <1>t, <2>1, JournalEffects DEF Recorded
  <2>3. QED
    BY <2>2, Modest
<1>3. CASE Committed
  <2>1. at = "committed" /\ Receipt(IF story.strict THEN Published ELSE "committed")
    BY <1>3 DEF Committed, At
  <2>2. /\ receipt'.move = IF story.strict THEN Published ELSE "committed"
        /\ receipt'.rename = receipt.rename
    BY <2>1, JournalEffects DEF Recorded, Published, Outcome
  <2>3. mv.phase = "committed" /\ \A k \in Places : EntryTrue(k)
    BY <2>1 DEF Linking, Phases, Entries
  <2>4. \A f \in Linked \ (touched \cup {Src}) : disk[f] = "new"
    BY <1>t, <2>3 DEF EntryTrue, Ours
  <2>5. /\ Src \notin touched => disk[Src] = IF story.strict THEN "old" ELSE "absent"
        /\ Dst \notin touched => disk[Dst] = Rev
    BY <2>3 DEF Linking, Standing, Ours
  <2>6. CASE story.strict
    <3>1. Src \notin Linked /\ Rev = "old"
      BY <1>t, <2>6 DEF Rev
    <3>2. Says(Published)
      BY <2>4, <2>5, <2>6, <3>1 DEF Says, Published, Holds
    <3>3. QED
      BY <2>2, <2>6, <3>2
  <2>7. CASE ~story.strict
    <3>1. Says("committed")
      BY <2>4, <2>5, <2>7 DEF Says, Published, Holds, Exists
    <3>2. QED
      BY <2>2, <2>7, <3>1
  <2>8. QED
    BY <2>6, <2>7
<1>4. CASE RolledBack
  <2>1. /\ at = "rollback" /\ i = 0
        /\ \E o \in {"manual-conflict", "conflict-copy", "rolled-back"} :
             /\ Receipt(o) /\ (o = "conflict-copy" => \E k \in DOMAIN mv.status : mv.status[k] = "conflict")
    BY <1>4 DEF RolledBack, At
  <2>2. PICK o \in {"manual-conflict", "conflict-copy", "rolled-back"} :
          /\ receipt'.move = o /\ receipt'.rename = receipt.rename
          /\ o = "conflict-copy" => \E k \in DOMAIN mv.status : mv.status[k] = "conflict"
    BY <2>1, JournalEffects DEF Recorded, Outcome
  <2>3. mv.phase = "rolling-back" /\ \A k \in Places : EntryTrue(k)
    BY <2>1 DEF Linking, Phases, Entries, InRollback
  <2>4. CASE o = "conflict-copy"
    <3>1. DOMAIN mv.status = Places
      BY <1>t, <2>3 DEF TypeOK, Statuses
    <3>2. copies # {}
      BY <2>2, <2>3, <2>4, <3>1 DEF EntryTrue
    <3>3. Says("conflict-copy")
      BY <3>2 DEF Says, Published
    <3>4. QED
      BY <2>2, <2>4, <3>3
  <2>5. CASE o = "rolled-back"
    <3>1. \A f \in Linked \ touched : disk[f] = "old"
      <4>1. \A k \in Places : k > i
        BY <2>1 DEF Places
      <4>2. QED
        BY <1>t, <2>1, <4>1 DEF Linking, Passed, InRollback, Ours
    <3>2. Src \in touched \/ disk[Src] = "old"
      BY <2>3, <3>1 DEF Linking, Standing, Still, Ours
    <3>3. Says("rolled-back")
      BY <3>1, <3>2 DEF Says, Published, Holds
    <3>4. QED
      BY <2>2, <2>5, <3>3
  <2>6. QED
    BY <2>2, <2>4, <2>5, Modest
<1>5. CASE \/ Continue \/ Apply \/ EntrySpoilt \/ EntryApplied \/ EntryPending \/ EntryWrote \/ Diverged \/ Spoilt
           \/ EntriesDone \/ Verify \/ CheckCorpus \/ FinalCheck \/ Renamed \/ Rollback \/ RollbackWrote \/ MoveRetire
  BY <1>5 DEF Continue, Apply, EntrySpoilt, EntryApplied, EntryPending, EntryWrote, Diverged,
       Spoilt,
       EntriesDone, Verify, CheckCorpus, FinalCheck, Renamed, Rollback, RollbackWrote, MoveRetire
<1>6. QED
  BY <1>1, <1>2, <1>3, <1>4, <1>5 DEF Moving

(* A rename ends committed, or published, when the two names are as that     *)
(* says, and then every note has been rewritten.                            *)
LEMMA RenamingSays ==
  ASSUME TypeOK, Placed, Linking, Renaming \/ Recovering
  PROVE  receipt'.rename = receipt.rename \/ Says(receipt'.rename)
<1>t. /\ receipt \in [move : Outcome, rename : Outcome]
      /\ {"manual-conflict", "rejected", "committed", Published} \subseteq Outcome
      /\ \A f \in Linked : \E k \in Places : f = story.links[k]
  BY Links DEF TypeOK, Outcome, Places, Linked, Published
<1>a. at \in InRename => /\ \A f \in Linked \ (touched \cup {Src}) : disk[f] = "new"
                         /\ story.strict => Linked = {} /\ Rev = "old"
  <2>1. SUFFICES ASSUME at \in InRename
        PROVE /\ \A f \in Linked \ (touched \cup {Src}) : disk[f] = "new"
              /\ story.strict => Linked = {} /\ Rev = "old"
    OBVIOUS
  <2>2. Bare => Linked = {}
    BY DEF Bare, Linked
  <2>3. ~Bare => ~story.strict /\ mv.phase = "renaming" /\ \A k \in Places : EntryTrue(k)
    BY <2>1 DEF Linking, Phases, Entries
  <2>4. QED
    BY <1>t, <2>2, <2>3 DEF EntryTrue, Ours, Rev
<1>b. ASSUME at \in InRename, Src \in touched \/ ~Exists(Src), Dst \in touched \/ Holds(Dst, Rev)
      PROVE  Says("committed")
  BY <1>a, <1>b DEF Says, Published
<1>c. ASSUME at \in InRename, story.strict, Doubled
      PROVE  Says(Published)
  BY <1>a, <1>c DEF Says, Published, Doubled, Holds
<1>d. \A o \in Outcome : RenameEnds(o) => receipt'.rename = o
  BY JournalEffects DEF Ended
<1>1. CASE RenameCheck
  <2>1. receipt' = receipt \/ receipt'.rename = "rejected"
    BY <1>t, <1>1 DEF RenameCheck
  <2>2. QED
    BY <2>1, Modest
<1>2. CASE RenamePublished \/ RecoverPublishedEnd
  <2>1. at \in InRename /\ story.strict /\ ((Doubled /\ RenameEnds(Published)) \/ RenameConflict)
    BY <1>2 DEF RenamePublished, RecoverPublishedEnd, At, InRename, Linking, Phases
  <2>2. (Doubled /\ receipt'.rename = Published) \/ receipt'.rename = "manual-conflict"
    BY <1>t, <1>d, <2>1 DEF RenameConflict
  <2>3. QED
    BY <1>c, <2>1, <2>2, Modest
<1>3. CASE RenameRemoved \/ RecoverRename \/ RecoverRemoved
  <2>1. at \in InRename
    BY <1>3 DEF RenameRemoved, RecoverRename, RecoverRemoved, At, InRename
  <2>2. \/ receipt' = receipt \/ RenameConflict
        \/ /\ RenameEnds("committed") /\ Holds(Dst, Rev)
           /\ ~Exists(Src) \/ at = "rec-removed"
    BY <1>3 DEF RenameRemoved, RecoverRename, RecoverRemoved, At, Holds, Exists
  <2>3. at = "rec-removed" => Src \in touched \/ ~Exists(Src)
    BY DEF Linking, Named, Ours, Exists
  <2>4. \/ receipt' = receipt \/ receipt'.rename = "manual-conflict"
        \/ /\ receipt'.rename = "committed" /\ Holds(Dst, Rev)
           /\ Src \in touched \/ ~Exists(Src)
    BY <1>t, <1>d, <2>2, <2>3 DEF RenameConflict
  <2>5. QED
    BY <1>b, <2>1, <2>4, Modest
<1>4. CASE \/ RenameFinal \/ RenameBlob \/ RenameEvidence \/ RenameStaged \/ RenamePublish
           \/ RenameInstalled \/ RenameLinkedStrict \/ RenameLinked \/ RenameRemove
           \/ RenameClaim \/ RenameRestored \/ RenameRetire
  <2>1. receipt' = receipt \/ RenameConflict
    BY <1>4 DEF RenameFinal, RenameBlob, RenameEvidence, RenameStaged, RenamePublish, NativePublish,
         RenameInstalled, RenameLinkedStrict, RenameLinked, RenameRemove, RenameClaim,
         RenameRestored, RenameRetire, RenameStays
  <2>2. QED
    BY <1>t, <1>d, <2>1, Modest DEF RenameConflict
<1>5. CASE \/ RecoverWrite \/ RecoverJournal \/ RecoverPublished \/ RecoverPublish \/ RecoverUndone
           \/ RecoverStage \/ RecoverBlob \/ RecoverInstalled \/ RecoverEvidence \/ RecoverEvidenceMade
           \/ RecoverRemove \/ UndoCheck \/ UndoStage \/ UndoInstall \/ UndoCopied
  <2>1. receipt' = receipt \/ RenameConflict
    BY <1>5 DEF RecoverWrite, RecoverJournal, RecoverPublished, RecoverPublish, NativePublish,
         RecoverUndone,
         RecoverStage, RecoverBlob, RecoverInstalled, RecoverEvidence, RecoverEvidenceMade,
         RecoverRemove, UndoCheck, UndoStage, UndoInstall, UndoCopied, RenameStays
  <2>2. QED
    BY <1>t, <1>d, <2>1, Modest DEF RenameConflict
<1>6. QED
  BY <1>1, <1>2, <1>3, <1>4, <1>5 DEF Renaming, Recovering

(* Every receipt is true when it is written.                                *)
LEMMA StepSays ==
  TypeOK /\ Placed /\ Secured /\ Linking /\ [Next]_vars
    => /\ receipt'.move # receipt.move => Says(receipt'.move)
       /\ receipt'.rename # receipt.rename => Says(receipt'.rename)
<1> SUFFICES ASSUME TypeOK, Placed, Secured, Linking, [Next]_vars
    PROVE  /\ receipt'.move # receipt.move => Says(receipt'.move)
           /\ receipt'.rename # receipt.rename => Says(receipt'.rename)
  OBVIOUS
<1>1. CASE Moving
  BY <1>1, MovingSays
<1>2. CASE Renaming \/ Recovering
  <2>1. receipt'.move = receipt.move
    <3>1. CASE RecoverWrite \/ RecoverJournal
      BY <3>1 DEF RecoverWrite, RecoverJournal
    <3>2. CASE ~RecoverWrite /\ ~RecoverJournal
      BY <1>2, <3>2, RenamingNamed, RecoveringNamed DEF Renames
    <3>3. QED
      BY <3>1, <3>2
  <2>2. QED
    BY <1>2, <2>1, RenamingSays
<1>3. CASE Fault
  <2>1. receipt' = receipt \/ Receipt("manual-conflict") \/ RenameEnds("manual-conflict")
    BY <1>3 DEF Fault, RenameConflict
  <2>2. \/ receipt' = receipt
        \/ receipt'.move = "manual-conflict" /\ receipt'.rename = receipt.rename
        \/ receipt'.rename = "manual-conflict" /\ receipt'.move = receipt.move
    BY <2>1, JournalEffects DEF Recorded, Ended, Outcome
  <2>3. QED
    BY <2>2, Modest
<1>4. CASE \/ Writing \/ InstallUncleaned \/ Open \/ Opened \/ Quit \/ Crash \/ External \/ UNCHANGED vars
  <2>1. receipt' = receipt
    BY <1>4 DEF Writing, WriteStage, WriteSwap, WriteClose, InstallMake, InstallFill,
         InstallUncleaned, Open, Opened,
         Quit, Crash, External, vars, journals
  <2>2. QED
    BY <2>1
<1>5. QED
  BY <1>1, <1>2, <1>3, <1>4 DEF Next, Program

(* What a receipt says is so when it is written, for every file nobody else *)
(* has changed: the notes of a committed move are rewritten and the file is *)
(* under its new name, those of one that was rolled back are as before, a   *)
(* conflict that is reported has its copy.                                  *)
THEOREM ReceiptsTrue == Spec => ReceiptTrue
<1>1. Spec => [](TypeOK /\ Placed)
  BY AlwaysPlaced
<1>2. Spec => []Secured
  BY AlwaysSecured
<1>3. Spec => []Linking
  BY AlwaysLinking
<1>4. TypeOK /\ Placed /\ Secured /\ Linking /\ [Next]_vars
        => [/\ receipt'.move # receipt.move => Says(receipt'.move)
            /\ receipt'.rename # receipt.rename => Says(receipt'.rename)]_vars
  BY StepSays
<1>5. QED
  BY <1>1, <1>2, <1>3, <1>4, PTL DEF Spec, ReceiptTrue
=============================================================================
