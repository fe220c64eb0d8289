------------------------- MODULE EditorSessionProofs -------------------------
(***************************************************************************)
(* Proofs about EditorSession: an edit stays in the editor until it is     *)
(* taken or typed over, a clean editor shows what was published last, the  *)
(* draft file mirrors the edit and belongs to it, a flush covers every     *)
(* edit.  Every function of the renderer is taken by itself first: what it *)
(* makes of any pane that is in order, and then of drafts and counts.      *)
(***************************************************************************)
EXTENDS EditorSession, TLAPS, SequenceTheorems, FiniteSetTheorems, WellFoundedInduction
-----------------------------------------------------------------------------
(* What a pane holds, and what it knows of the vault.                      *)

RealView  == [path : Path, content : Text]
RealNote  == {n \in [path : Path, content : Text, rev : Text] : n.content = n.rev}
RealDraft == [id : DraftId, path : Path, base : Text, text : Text]
Shown     == RealView \cup {NoView}
NoteOrNone == RealNote \cup {NoNote}
Opened    == [path : Path, content : MaybeText, rev : Text]

\* A pane shows no note and nothing, or a note with a text; what it has under
\* way belongs to a note.
Document(u) ==
  /\ u.snap \in Shown /\ u.pending \in NoteOrNone
  /\ \/ u.loaded = NoNote /\ u.text = Absent /\ ~u.dirty
     \/ u.loaded \in Opened /\ u.text \in Text
Storing(u) ==
  \A k \in DOMAIN u.queue : u.queue[k].op = "save" => u.queue[k].draft \in RealDraft
Holding(u) ==
  /\ Saving(u) => u.save.path \in Path /\ u.save.content \in Text /\ u.save.rev \in Text
  /\ u.restore = "found" => u.found \in RealDraft
Fit(u) == u \in Pane /\ Document(u) /\ Storing(u) /\ Holding(u)

\* A clean text is the revision that is loaded.
Clean(u) == ~u.dirty => u.text = u.loaded.rev
\* What is loaded is what the last snapshot showed, unless the text is dirty
\* and a change is pending.
Agrees(u) == ~u.dirty \/ ~u.changed => u.loaded = Note(u.snap)
Sound(u) == Fit(u) /\ Clean(u) /\ Agrees(u)

\* The last view on its way to the pane, or the one it has taken, is the last
\* that was published.
Showing == {"push", "reply"}
Current(box, snap, view) ==
  \/ snap = view /\ \A k \in DOMAIN box : box[k].kind \notin Showing
  \/ \E k \in DOMAIN box :
       /\ box[k].kind \in Showing /\ box[k].view = view
       /\ \A j \in DOMAIN box : j > k => box[j].kind \notin Showing

Letter(m) ==
  /\ m \in Message
  /\ m.kind \in Showing => m.view \in Shown
  /\ m.kind = "flush" => m.flush \in Flush
Working ==
  /\ job.step # "none" => job.path \in Path
  /\ job.step = "write" => job.content \in Text /\ job.rev \in Text
Whole ==
  /\ Sound(ui)
  /\ draft \in RealDraft \cup {NoDraft} /\ sent \in Shown /\ Working
  /\ \A k \in DOMAIN inbox : Letter(inbox[k])
  /\ IF alive THEN Current(inbox, ui.snap, sent) ELSE inbox = <<>>
Inv == TypeOK /\ Whole

-----------------------------------------------------------------------------
(* The two choices of the model.                                           *)

\* There is always an identity that nothing refers to.
LEMMA FreshIds ==
  ASSUME NEW u \in Pane
  PROVE  FreshId(u) \in DraftId
<1> DEFINE n == Len(u.queue)
           Free(i) == /\ i # draft.id /\ i # u.found.id
                      /\ \A k \in 1 .. n : i # u.queue[k].draft.id
<1>1. n \in Nat
  BY LenProperties DEF Pane
<1>2. \E i \in 1 .. n + 3 : Free(i)
  <2> SUFFICES ASSUME \A i \in 1 .. n + 3 : ~Free(i) PROVE FALSE
    OBVIOUS
  <2> DEFINE Place(i) == IF i = draft.id THEN n + 1
                         ELSE IF i = u.found.id THEN n + 2
                         ELSE CHOOSE k \in 1 .. n : i = u.queue[k].draft.id
             f == [i \in 1 .. n + 3 |-> Place(i)]
  <2>1. \A i \in 1 .. n + 3 : i # draft.id /\ i # u.found.id =>
          Place(i) \in 1 .. n /\ i = u.queue[Place(i)].draft.id
    <3> HIDE DEF n
    <3>1. QED
      BY Zenon
  <2>2. \A i \in 1 .. n + 3 : /\ i = draft.id => Place(i) = n + 1
                              /\ i # draft.id /\ i = u.found.id => Place(i) = n + 2
    <3> HIDE DEF n
    <3>1. QED
      BY Zenon
  <2> HIDE DEF Place
  <2>3. f \in [1 .. n + 3 -> 1 .. n + 2]
    <3> HIDE DEF n
    <3>1. \A i \in 1 .. n + 3 : Place(i) \in 1 .. n + 2
      BY <1>1, <2>1, <2>2
    <3>2. QED
      BY <3>1
  <2>4. \A i \in 1 .. n + 3 : f[i] = Place(i)
    OBVIOUS
  <2> HIDE DEF f
  <2>5. IsFiniteSet(1 .. n + 3) /\ IsFiniteSet(1 .. n + 2)
        /\ Cardinality(1 .. n + 2) < Cardinality(1 .. n + 3)
    <3> HIDE DEF n
    <3>1. /\ IsFiniteSet(1 .. n + 3) /\ Cardinality(1 .. n + 3) = n + 3
      BY <1>1, FS_Interval
    <3>2. /\ IsFiniteSet(1 .. n + 2) /\ Cardinality(1 .. n + 2) = n + 2
      BY <1>1, FS_Interval
    <3>3. QED
      BY <1>1, <3>1, <3>2
  <2>6. \E x, y \in 1 .. n + 3 : x # y /\ f[x] = f[y]
    <3> DEFINE S == 1 .. n + 3
               T == 1 .. n + 2
    <3>1. IsFiniteSet(S) /\ IsFiniteSet(T) /\ Cardinality(T) < Cardinality(S) /\ f \in [S -> T]
      BY <2>3, <2>5
    <3> HIDE DEF S, T
    <3>2. \E x, y \in S : x # y /\ f[x] = f[y]
      BY <3>1, FS_PigeonHole
    <3>3. QED
      BY <3>2 DEF S
  <2>7. QED
    <3> HIDE DEF n
    <3>1. QED
      BY <1>1, <2>1, <2>2, <2>4, <2>6
<1>3. FreshId(u) \in 1 .. n + 3
  <2>1. FreshId(u) = CHOOSE i \in 1 .. n + 3 : Free(i)
    BY DEF FreshId
  <2> HIDE DEF n, Free
  <2>2. QED
    BY <1>2, <2>1, Zenon
<1>4. QED
  <2> HIDE DEF n
  <2>1. QED
    BY <1>1, <1>3 DEF DraftId

\* While a copy has room, the next one is the first that is free.
LEMMA CopyPaths ==
  ASSUME \E p \in Path \ {0} : disk[p] = Absent
  PROVE  CopyPath \in Path
<1> DEFINE T == {p \in Path \ {0} : disk[p] = Absent}
           Free(p) == /\ p > 0 /\ disk[p] = Absent
                       /\ \A q \in 1 .. p - 1 : disk[q] # Absent
<1>1. MaxCopy \in Nat /\ Path = 0 .. MaxCopy
  BY Bounds DEF Path
<1>2. \E p \in T : \A q \in T : ~(q < p)
  <2>1. T \subseteq Nat /\ T # {}
    BY <1>1
  <2>2. \E p \in T : \A q \in T : <<q, p>> \notin OpToRel(<, Nat)
    BY <2>1, NatLessThanWellFounded, WFMin
  <2>3. \A p, q \in Nat : q < p => <<q, p>> \in OpToRel(<, Nat)
    BY DEF OpToRel
  <2>4. QED
    BY <2>1, <2>2, <2>3
<1>3. \E p \in Path : Free(p)
  BY <1>1, <1>2
<1>4. CopyPath = CHOOSE p \in Path : Free(p)
  BY DEF CopyPath
<1> HIDE DEF Free
<1>5. QED
  BY <1>3, <1>4, Zenon

LEMMA Destinations ==
  ASSUME NEW j, j.path \in Path, Room(j)
  PROVE  Destination(j) \in Path
BY CopyPaths DEF Destination, Room

-----------------------------------------------------------------------------
(* The operators of a pane that leave its document alone.                  *)

SameDocument(u, w) ==
  /\ w.text = u.text /\ w.loaded = u.loaded /\ w.snap = u.snap
  /\ w.dirty = u.dirty /\ w.pending = u.pending /\ w.changed = u.changed
SameWork(u, w) ==
  w.queue = u.queue /\ w.save = u.save /\ w.restore = u.restore /\ w.found = u.found
Same(u, w) == w \in Pane /\ SameDocument(u, w) /\ Storing(w) /\ Holding(w)

\* What such an operator keeps.
LEMMA SameFit ==
  ASSUME NEW u, NEW w, Fit(u), Same(u, w)
  PROVE  Fit(w) /\ (Clean(u) => Clean(w)) /\ (Agrees(u) => Agrees(w))
BY DEF Fit, Same, SameDocument, Document, Clean, Agrees

LEMMA SameTrans ==
  ASSUME NEW u, NEW v, NEW w, Same(u, v), Same(v, w)
  PROVE  Same(u, w)
BY DEF Same, SameDocument

LEMMA SameWorkFit ==
  ASSUME NEW u, NEW w, Fit(u), w \in Pane, SameDocument(u, w), SameWork(u, w)
  PROVE  Same(u, w)
BY DEF Fit, Same, SameWork, Storing, Holding, Saving

LEMMA ChangedSame ==
  ASSUME NEW u, Fit(u)
  PROVE  Same(u, Changed(u)) /\ SameWork(u, Changed(u))
<1> DEFINE n == u.version + 1
<1>1. Changed(u) \in Pane
  <2>1. n \in Nat /\ Changed(u) = [u EXCEPT !.version = n, !.timer = TRUE]
    BY DEF Fit, Changed, Pane
  <2> HIDE DEF n
  <2>2. QED
    BY <2>1 DEF Fit, Pane
<1>2. SameDocument(u, Changed(u)) /\ SameWork(u, Changed(u))
  BY DEF Fit, Changed, Pane, SameDocument, SameWork
<1>3. QED
  BY <1>1, <1>2, SameWorkFit

LEMMA SynchronizedSame ==
  ASSUME NEW u, Fit(u)
  PROVE  Same(u, Synchronized(u)) /\ SameWork(u, Synchronized(u))
<1>1. Synchronized(u) \in Pane
  BY DEF Fit, Synchronized, Pane
<1>2. SameDocument(u, Synchronized(u)) /\ SameWork(u, Synchronized(u))
  BY DEF Fit, Synchronized, Pane, SameDocument, SameWork
<1>3. QED
  BY <1>1, <1>2, SameWorkFit

LEMMA ScheduleDraftSame ==
  ASSUME NEW u, Fit(u)
  PROVE  Same(u, ScheduleDraft(u)) /\ SameWork(u, ScheduleDraft(u))
<1> DEFINE b == u.dirty /\ HasNote(u)
<1>1. b \in BOOLEAN /\ ScheduleDraft(u) = [u EXCEPT !.draftTimer = b]
  BY DEF Fit, Pane, HasNote, ScheduleDraft
<1> HIDE DEF b
<1>2. ScheduleDraft(u) \in Pane
  BY <1>1 DEF Fit, Pane
<1>3. SameDocument(u, ScheduleDraft(u)) /\ SameWork(u, ScheduleDraft(u))
  BY <1>1 DEF Fit, Pane, SameDocument, SameWork
<1>4. QED
  BY <1>2, <1>3, SameWorkFit

\* Setting a timer, or the flushes that are waited for.
LEMMA TimersSame ==
  ASSUME NEW u, Fit(u), NEW b \in BOOLEAN, NEW F \in SUBSET Flush
  PROVE  /\ Same(u, [u EXCEPT !.timer = b]) /\ SameWork(u, [u EXCEPT !.timer = b])
         /\ Same(u, [u EXCEPT !.flushes = F])
         /\ Same(u, [u EXCEPT !.timer = FALSE, !.flushes = F])
<1>1. [u EXCEPT !.timer = b] \in Pane /\ [u EXCEPT !.flushes = F] \in Pane
      /\ [u EXCEPT !.timer = FALSE, !.flushes = F] \in Pane
  BY DEF Fit, Pane
<1>2. SameDocument(u, [u EXCEPT !.timer = b]) /\ SameWork(u, [u EXCEPT !.timer = b])
  BY DEF Fit, Pane, SameDocument, SameWork
<1>3. SameDocument(u, [u EXCEPT !.flushes = F]) /\ SameWork(u, [u EXCEPT !.flushes = F])
  BY DEF Fit, Pane, SameDocument, SameWork
<1>4. LET w == [u EXCEPT !.timer = FALSE, !.flushes = F] IN SameDocument(u, w) /\ SameWork(u, w)
  BY DEF Fit, Pane, SameDocument, SameWork
<1>5. QED
  BY <1>1, <1>2, <1>3, <1>4, SameWorkFit

\* An operation that joins the queue.
LEMMA QueueSame ==
  ASSUME NEW u, Fit(u), NEW op \in DraftOp, op.op = "save" => op.draft \in RealDraft,
         NEW b \in BOOLEAN, NEW i \in DraftId \cup {0}
  PROVE  Same(u, [u EXCEPT !.draftTimer = b, !.draftId = i, !.queue = Append(@, op)])
<1> DEFINE q == Append(u.queue, op)
           w == [u EXCEPT !.draftTimer = b, !.draftId = i, !.queue = q]
<1>1. /\ q \in Seq(DraftOp) /\ Len(q) = Len(u.queue) + 1 /\ Len(u.queue) \in Nat
      /\ DOMAIN q = 1 .. Len(q) /\ DOMAIN u.queue = 1 .. Len(u.queue)
      /\ \A k \in 1 .. Len(u.queue) : q[k] = u.queue[k]
      /\ q[Len(u.queue) + 1] = op
  BY AppendProperties, LenProperties DEF Fit, Pane
<1>2. \A k \in DOMAIN q : q[k].op = "save" => q[k].draft \in RealDraft
  BY <1>1 DEF Fit, Storing
<1> HIDE DEF q
<1>3. w \in Pane
  BY <1>1 DEF Fit, Pane
<1>4. SameDocument(u, w) /\ w.queue = q /\ w.save = u.save /\ w.restore = u.restore
      /\ w.found = u.found
  BY DEF Fit, Pane, SameDocument
<1>5. Storing(w) /\ Holding(w)
  <2> HIDE DEF w
  <2>1. QED
    BY <1>2, <1>4 DEF Fit, Storing, Holding, Saving
<1>6. w = [u EXCEPT !.draftTimer = b, !.draftId = i, !.queue = Append(@, op)]
  BY DEF q
<1> HIDE DEF w
<1>7. QED
  BY <1>3, <1>4, <1>5, <1>6 DEF Same

LEMMA Drafts ==
  /\ Absent \notin Path /\ Absent \notin Text
  /\ NoDraft \in Draft /\ RealDraft \subseteq Draft
  /\ \A d \in RealDraft : d # NoDraft /\ d.id \in DraftId
  /\ RealView \subseteq View /\ NoView \in View /\ \A v \in RealView : v # NoView /\ v.path # Absent
  /\ RealNote \subseteq Loaded /\ NoNote \in Loaded /\ Opened \subseteq Loaded
  /\ RealNote \subseteq Opened /\ \A n \in Opened : n.path \in Path /\ n # NoNote
  /\ NoSave \in Save /\ NoSave.step = "none" /\ NoView.path = Absent /\ NoView.content = Absent
  /\ NoNote.path = Absent /\ NoNote.rev = Absent /\ NoNote.content = Absent
<1>1. Absent \notin Path /\ Absent \notin Text
  BY Marks, Bounds DEF Path
<1>2. QED
  BY <1>1 DEF NoDraft, Draft, RealDraft, DraftId, MaybePath, MaybeText, RealView, View, NoView,
    RealNote, Loaded, NoNote, Opened, NoSave, Save

LEMMA ClearSame ==
  ASSUME NEW u, Fit(u)
  PROVE  /\ \A i \in DraftId \cup {0} : Same(u, ClearPersisted(u, i))
         /\ Same(u, ClearDraft(u))
<1> DEFINE op(i) == [op |-> "clear", draft |-> [NoDraft EXCEPT !.id = i]]
           off == [u EXCEPT !.draftTimer = FALSE, !.draftId = 0]
<1>1. ASSUME NEW i \in DraftId \cup {0}
      PROVE  op(i) \in DraftOp /\ op(i).op = "clear"
  BY DEF DraftOp, NoDraft, Draft, MaybePath, MaybeText
<1>2. ASSUME NEW v, Fit(v), NEW i \in DraftId \cup {0}
      PROVE  Same(v, ClearPersisted(v, i))
  <2>1. v.draftTimer \in BOOLEAN /\ v.draftId \in DraftId \cup {0}
    BY <1>2 DEF Fit, Pane
  <2>2. ClearPersisted(v, i)
          = [v EXCEPT !.draftTimer = v.draftTimer, !.draftId = v.draftId, !.queue = Append(@, op(i))]
    BY <1>2 DEF ClearPersisted, Fit, Pane
  <2> DEFINE o == op(i)
             b == v.draftTimer
             n == v.draftId
  <2>3. o \in DraftOp /\ (o.op = "save" => o.draft \in RealDraft)
    BY <1>1
  <2> HIDE DEF op, o, b, n
  <2>4. Same(v, [v EXCEPT !.draftTimer = b, !.draftId = n, !.queue = Append(@, o)])
    BY <1>2, <2>1, <2>3, QueueSame DEF b, n
  <2>5. QED
    BY <2>2, <2>4 DEF b, n, o
<1>3. Same(u, off)
  <2>1. off \in Pane /\ SameDocument(u, off) /\ SameWork(u, off)
    BY DEF Fit, Pane, SameDocument, SameWork, DraftId
  <2> HIDE DEF off
  <2>2. QED
    BY <2>1, SameWorkFit
<1>4. Same(u, ClearDraft(u))
  <2>1. Fit(off)
    BY <1>3, SameFit
  <2>2. u.draftId \in DraftId \cup {0}
    BY DEF Fit, Pane
  <2>3. ClearDraft(u) = ClearPersisted(off, u.draftId) \/ ClearDraft(u) = off
    BY DEF ClearDraft
  <2> HIDE DEF off
  <2>4. QED
    BY <1>2, <1>3, <2>1, <2>2, <2>3, SameTrans
<1>5. QED
  BY <1>2, <1>4

LEMMA PersistSame ==
  ASSUME NEW u, Fit(u)
  PROVE  Same(u, PersistDraft(u)) /\ PersistDraft(u).save = u.save
<1>1. CASE u.dirty /\ HasNote(u)
  <2> DEFINE i == IF u.draftId = 0 THEN FreshId(u) ELSE u.draftId
             d == [id |-> i, path |-> u.loaded.path, base |-> u.loaded.rev, text |-> u.text]
             o == [op |-> "save", draft |-> d]
             w == [u EXCEPT !.draftTimer = FALSE, !.draftId = i, !.queue = Append(@, o)]
  <2>1. i \in DraftId
    BY FreshIds DEF Fit, Pane
  <2>2. u.loaded \in Opened /\ u.text \in Text
    BY <1>1 DEF Fit, Document
  <2>3. d \in RealDraft
    <3> HIDE DEF i
    <3>1. QED
      BY <2>1, <2>2 DEF RealDraft, Opened
  <2>4. PersistDraft(u) = w
    BY <1>1 DEF PersistDraft
  <2> HIDE DEF i, d
  <2>5. o \in DraftOp /\ o.op = "save" /\ o.draft = d
    BY <2>3, Drafts DEF DraftOp
  <2>6. w.save = u.save
    BY DEF Fit, Pane
  <2> HIDE DEF o
  <2>7. Same(u, w)
    <3>1. i \in DraftId \cup {0} /\ (o.op = "save" => o.draft \in RealDraft)
      BY <2>1, <2>3, <2>5
    <3>2. QED
      BY <2>5, <3>1, QueueSame
  <2>8. QED
    BY <2>4, <2>6, <2>7
<1>2. CASE ~(u.dirty /\ HasNote(u))
  <2> DEFINE w == [u EXCEPT !.draftTimer = FALSE]
  <2>1. PersistDraft(u) = w
    BY <1>2 DEF PersistDraft
  <2>2. w \in Pane /\ SameDocument(u, w) /\ SameWork(u, w)
    BY DEF Fit, Pane, SameDocument, SameWork
  <2> HIDE DEF w
  <2>3. QED
    BY <2>1, <2>2, SameWorkFit DEF SameWork
<1>3. QED
  BY <1>1, <1>2

\* A save that begins or ends.
LEMMA SaveSame ==
  ASSUME NEW u, Fit(u), NEW s \in Save, NEW b \in BOOLEAN, NEW n \in Nat,
         s.step # "none" => s.path \in Path /\ s.content \in Text /\ s.rev \in Text
  PROVE  Same(u, [u EXCEPT !.timer = b, !.persisted = n, !.save = s])
<1> DEFINE w == [u EXCEPT !.timer = b, !.persisted = n, !.save = s]
<1>1. w \in Pane
  BY DEF Fit, Pane
<1>2. SameDocument(u, w) /\ w.queue = u.queue /\ w.save = s /\ w.restore = u.restore
      /\ w.found = u.found
  BY DEF Fit, Pane, SameDocument
<1> HIDE DEF w
<1>3. Storing(w) /\ Holding(w)
  BY <1>2 DEF Fit, Storing, Holding, Saving
<1>4. Same(u, w)
  BY <1>1, <1>2, <1>3 DEF Same
<1>5. QED
  BY <1>4 DEF w

LEMMA StartSaveSame ==
  ASSUME NEW u, Fit(u)
  PROVE  Same(u, StartSave(u))
<1> DEFINE p == IF u.draftTimer THEN PersistDraft(u) ELSE u
           s == [step |-> "draft", path |-> u.loaded.path, content |-> u.text,
                 rev |-> u.loaded.rev, version |-> u.version, ahead |-> Len(p.queue)]
           w == [p EXCEPT !.timer = FALSE, !.save = s]
           n == [u EXCEPT !.persisted = u.version]
<1>1. StartSave(u) \in {u, n} \/ (u.dirty /\ HasNote(u) /\ StartSave(u) = w)
  BY DEF StartSave
<1>2. Same(u, u)
  BY DEF Fit, Same, SameDocument
<1>3. Same(u, n)
  <2>1. n \in Pane /\ SameDocument(u, n) /\ SameWork(u, n)
    BY DEF Fit, Pane, SameDocument, SameWork
  <2> HIDE DEF n
  <2>2. QED
    BY <2>1, SameWorkFit
<1>4. ASSUME u.dirty /\ HasNote(u) PROVE Same(u, w)
  <2>1. Same(u, p) /\ Fit(p)
    BY <1>2, PersistSame, SameFit
  <2>2. u.loaded \in Opened /\ u.text \in Text
    BY <1>4 DEF Fit, Document
  <2>3. Len(p.queue) \in Nat /\ p.persisted \in Nat /\ u.version \in Nat
    <3> HIDE DEF p
    <3>1. QED
      BY <2>1, LenProperties DEF Fit, Pane
  <2> HIDE DEF p
  <2>4. s \in Save /\ s.step # "none" /\ s.path \in Path /\ s.content \in Text /\ s.rev \in Text
    BY <2>2, <2>3 DEF Opened, Save, MaybePath, MaybeText
  <2>5. w = [p EXCEPT !.timer = FALSE, !.persisted = p.persisted, !.save = s]
    BY <2>1 DEF Fit, Pane
  <2> HIDE DEF s
  <2>6. Same(p, w)
    BY <2>1, <2>3, <2>4, <2>5, SaveSame
  <2> HIDE DEF w
  <2>7. QED
    BY <2>1, <2>6, SameTrans
<1> HIDE DEF w, n
<1>5. QED
  BY <1>1, <1>2, <1>3, <1>4

LEMMA FinishSame ==
  ASSUME NEW u, Fit(u)
  PROVE  Same(u, Finish(u)) /\ Same(u, [u EXCEPT !.save = NoSave])
<1> DEFINE n == Larger(u.persisted, u.save.version)
           f == [u EXCEPT !.persisted = n, !.save = NoSave]
           b == u.timer \/ Unpersisted(f)
<1>1. n \in Nat
  BY DEF Fit, Pane, Save, Larger
<1>2. b \in BOOLEAN
  <2>1. Unpersisted(f) \in BOOLEAN
    BY DEF Unpersisted
  <2>2. u.timer \in BOOLEAN
    BY DEF Fit, Pane
  <2>3. QED
    BY <2>1, <2>2
<1>3. Finish(u) = [u EXCEPT !.timer = b, !.persisted = n, !.save = NoSave]
  <2>1. Finish(u) = [f EXCEPT !.timer = f.timer \/ Unpersisted(f)]
    BY DEF Finish
  <2>2. f.timer = u.timer
    BY DEF Fit, Pane
  <2>3. Finish(u) = [f EXCEPT !.timer = b]
    BY <2>1, <2>2
  <2> HIDE DEF b, n
  <2>4. QED
    BY <2>3 DEF Fit, Pane
<1> HIDE DEF b, n
<1> DEFINE s == NoSave
<1>0. s \in Save /\ (s.step # "none" => s.path \in Path /\ s.content \in Text /\ s.rev \in Text)
  BY Drafts
<1> HIDE DEF s
<1>4. Same(u, Finish(u))
  <2>1. Same(u, [u EXCEPT !.timer = b, !.persisted = n, !.save = s])
    BY <1>0, <1>1, <1>2, SaveSame
  <2>2. QED
    BY <1>3, <2>1 DEF s
<1>5. Same(u, [u EXCEPT !.save = NoSave])
  <2>1. u.timer \in BOOLEAN /\ u.persisted \in Nat
    BY DEF Fit, Pane
  <2>2. [u EXCEPT !.save = NoSave]
          = [u EXCEPT !.timer = u.timer, !.persisted = u.persisted, !.save = NoSave]
    BY DEF Fit, Pane
  <2> DEFINE c == u.timer
             m == u.persisted
  <2> HIDE DEF c, m
  <2>3. Same(u, [u EXCEPT !.timer = c, !.persisted = m, !.save = s])
    BY <1>0, <2>1, SaveSame DEF c, m
  <2>4. QED
    BY <2>2, <2>3 DEF s, c, m
<1>6. QED
  BY <1>4, <1>5

LEMMA ContinueSame ==
  ASSUME NEW u, Fit(u)
  PROVE  Same(u, Continue(u))
<1>1. Same(u, u)
  BY DEF Fit, Same, SameDocument
<1>2. QED
  BY <1>1, StartSaveSame DEF Continue
-----------------------------------------------------------------------------
(* Documents and snapshots.                                                *)

\* What a pane is given to show: a note with a text, or nothing.
LEMMA Notes ==
  ASSUME NEW v \in Shown
  PROVE  /\ Note(v) \in NoteOrNone /\ (v = NoView => Note(v) = NoNote)
         /\ v # NoView <=> v.path # Absent
         /\ v.path # Absent => v \in RealView /\ Note(v) \in RealNote
         /\ Note(v).path = v.path /\ Note(v).content = v.content /\ Note(v).rev = v.content
BY Drafts DEF Shown, RealView, RealNote, NoteOrNone, Note, NoView, NoNote

\* The document of a pane, set in one step.
SetDocument(u, n, t, d, p, c) ==
  [u EXCEPT !.text = t, !.loaded = n, !.dirty = d, !.pending = p, !.changed = c]

LEMMA DocumentSet ==
  ASSUME NEW u \in Pane, NEW n \in Loaded, NEW t \in MaybeText, NEW d \in BOOLEAN, NEW p \in Loaded,
         NEW c \in BOOLEAN
  PROVE  LET w == SetDocument(u, n, t, d, p, c) IN
         /\ w \in Pane /\ SameWork(u, w)
         /\ w.text = t /\ w.loaded = n /\ w.dirty = d /\ w.pending = p /\ w.changed = c
         /\ w.snap = u.snap
<1> DEFINE v == [u EXCEPT !.text = t, !.loaded = n, !.dirty = d]
           w == [u EXCEPT !.text = t, !.loaded = n, !.dirty = d, !.pending = p, !.changed = c]
<1>1. v \in Pane
  BY DEF Pane
<1>2. w = [v EXCEPT !.pending = p, !.changed = c]
  BY DEF Pane
<1>3. w \in Pane
  <2> HIDE DEF v, w
  <2>1. QED
    BY <1>1, <1>2 DEF Pane
<1>4. /\ w.text = t /\ w.loaded = n /\ w.dirty = d /\ w.pending = p /\ w.changed = c
      /\ w.snap = u.snap
  BY DEF Pane
<1>5. SameWork(u, w)
  BY DEF Pane, SameWork
<1>6. w = SetDocument(u, n, t, d, p, c)
  BY DEF SetDocument
<1> HIDE DEF w
<1>7. QED
  BY <1>3, <1>4, <1>5, <1>6

\* A document that replaces another is clean and has nothing pending.
LEMMA Replacing ==
  ASSUME NEW u \in Pane, NEW n \in Loaded
  PROVE  LET w == Replace(u, n) IN
         /\ w \in Pane /\ SameWork(u, w) /\ w.snap = u.snap
         /\ w.text = n.content /\ w.loaded = n /\ w.dirty = FALSE /\ w.pending = NoNote
         /\ w.changed = FALSE
<1> DEFINE t == n.content
           f == FALSE
           a == SetDocument(u, n, t, f, NoNote, f)
           b == [a EXCEPT !.draftId = 0, !.mine = FALSE, !.timer = FALSE]
           w == [b EXCEPT !.version = 0, !.persisted = 0]
<1>1. t \in MaybeText /\ NoNote \in Loaded /\ f \in BOOLEAN
  BY Drafts DEF Loaded
<1> HIDE DEF t, f
<1>2. /\ a \in Pane /\ SameWork(u, a)
      /\ a.text = t /\ a.loaded = n /\ a.dirty = f /\ a.pending = NoNote /\ a.changed = f
      /\ a.snap = u.snap
  BY <1>1, DocumentSet
<1>3. Replace(u, n) = w
  BY DEF Replace, ResetAutosave, Pane, SetDocument, t, f
<1> HIDE DEF a
<1>4. b \in Pane /\ SameWork(a, b) /\ SameDocument(a, b)
  BY <1>2 DEF Pane, SameWork, SameDocument
<1> HIDE DEF b
<1>5. w \in Pane /\ SameWork(b, w) /\ SameDocument(b, w)
  BY <1>4 DEF Pane, SameWork, SameDocument
<1> HIDE DEF w
<1>6. QED
  BY <1>2, <1>3, <1>4, <1>5 DEF SameWork, SameDocument, t, f

\* A pane with another document, and the same work under way.
LEMMA NewDocument ==
  ASSUME NEW u, NEW w, Fit(u), w \in Pane, SameWork(u, w), Document(w)
  PROVE  Fit(w)
BY DEF Fit, SameWork, Storing, Holding, Saving

LEMMA ReplaceFit ==
  ASSUME NEW u, Fit(u), NEW n \in NoteOrNone
  PROVE  LET w == Replace(u, n) IN
         /\ Fit(w) /\ Clean(w) /\ w.snap = u.snap /\ w.loaded = n
<1> DEFINE w == Replace(u, n)
<1>1. n \in Loaded /\ u \in Pane
  BY Drafts DEF Fit, NoteOrNone
<1>2. /\ w \in Pane /\ SameWork(u, w) /\ w.snap = u.snap
      /\ w.text = n.content /\ w.loaded = n /\ w.dirty = FALSE /\ w.pending = NoNote
  BY <1>1, Replacing
<1> HIDE DEF w
<1>3. /\ (n = NoNote /\ n.content = Absent) \/ (n \in Opened /\ n.content \in Text)
      /\ n.content = n.rev
  BY Drafts DEF NoteOrNone, RealNote
<1>4. Document(w)
  BY <1>2, <1>3 DEF Fit, Document, NoteOrNone
<1>5. Fit(w) /\ Clean(w)
  BY <1>2, <1>3, <1>4, NewDocument DEF Clean
<1>6. QED
  BY <1>2, <1>5 DEF w

\* A dirty pane has a note.
LEMMA DirtyHasNote ==
  ASSUME NEW u, Fit(u)
  PROVE  /\ u.dirty \in BOOLEAN /\ (u.dirty => HasNote(u)) /\ (Keeps(u) <=> u.dirty)
         /\ HasNote(u) <=> u.loaded \in Opened
         /\ HasNote(u) => u.text \in Text
BY Drafts DEF Fit, Pane, Document, HasNote, Keeps

LEMMA AdoptSound ==
  ASSUME NEW u, Fit(u), NEW v \in RealView, u.snap = v, HasNote(u)
  PROVE  LET w == Adopt(u, Note(v)) IN Sound(w) /\ w.snap = v /\ w.text = u.text
<1> DEFINE n == Note(v)
           d == u.text # n.content
           f == FALSE
           a == SetDocument(u, n, u.text, d, NoNote, f)
           w == Adopt(u, n)
<1>1. /\ n \in RealNote /\ n \in Opened /\ n \in Loaded /\ n.content = v.content /\ n.rev = v.content
      /\ f \in BOOLEAN /\ d \in BOOLEAN /\ NoNote \in Loaded /\ u.text \in Text /\ u.text \in MaybeText
      /\ u \in Pane
  BY Notes, Drafts, DirtyHasNote DEF Shown, Fit, MaybeText
<1>2. w = IF a.dirty THEN Changed(ScheduleDraft(a)) ELSE Synchronized(a)
  BY DEF Adopt, SetDocument, Fit, Pane
<1> HIDE DEF n
<1>3. d <=> u.text # n.content
  OBVIOUS
<1> HIDE DEF d, f
<1>4. /\ a \in Pane /\ SameWork(u, a)
      /\ a.text = u.text /\ a.loaded = n /\ a.dirty = d /\ a.pending = NoNote /\ a.changed = f
      /\ a.snap = u.snap
  BY <1>1, DocumentSet
<1> HIDE DEF a, w
<1>5. Document(a)
  BY <1>1, <1>4 DEF Document, Shown, NoteOrNone
<1>6. Fit(a) /\ Clean(a) /\ Agrees(a)
  <2>1. Fit(a)
    BY <1>4, <1>5, NewDocument
  <2>2. Clean(a)
    BY <1>1, <1>3, <1>4 DEF Clean
  <2>3. Agrees(a)
    BY <1>4 DEF Agrees, n
  <2>4. QED
    BY <2>1, <2>2, <2>3
<1>7. Same(a, Synchronized(a)) /\ Same(a, Changed(ScheduleDraft(a)))
  BY <1>6, ScheduleDraftSame, SynchronizedSame, ChangedSame, SameFit, SameTrans
<1>8. Same(a, w)
  BY <1>2, <1>7
<1>9. Sound(w)
  BY <1>6, <1>8, SameFit DEF Sound
<1>10. QED
  BY <1>4, <1>8, <1>9 DEF Same, SameDocument, w, n

\* A snapshot that is reconciled leaves the pane true to it, and a dirty text
\* as it was.
LEMMA ReconcileSound ==
  ASSUME NEW u, Fit(u), Clean(u), NEW v \in Shown, u.snap = v
  PROVE  LET w == Reconcile(u, v) IN
         Sound(w) /\ w.snap = v /\ (u.dirty => w.text = u.text)
<1> DEFINE w == Reconcile(u, v)
<1> USE DirtyHasNote, Notes
<1>1. ASSUME NEW p \in NoteOrNone, u.dirty,  w = [u EXCEPT !.pending = p, !.changed = TRUE]
      PROVE  Sound(w) /\ w.snap = v /\ w.text = u.text
  <2>1. p \in Loaded
    BY Drafts DEF NoteOrNone
  <2>2. w \in Pane /\ SameWork(u, w) /\ w.text = u.text /\ w.loaded = u.loaded /\ w.dirty = u.dirty
        /\ w.pending = p /\ w.changed = TRUE /\ w.snap = u.snap
    <3> HIDE DEF w
    <3>1. u \in Pane
      BY DEF Fit
    <3>2. w \in Pane
      BY <1>1, <2>1, <3>1 DEF Pane
    <3>3. QED
      BY <1>1, <3>1, <3>2 DEF Pane, SameWork
  <2> HIDE DEF w
  <2>3. Document(w)
    BY <1>1, <2>2 DEF Fit, Document
  <2>4. QED
    BY <1>1, <2>2, <2>3, NewDocument DEF Sound, Clean, Agrees
<1>2. ASSUME NEW n, n = Note(v), w = Replace(u, n), ~u.dirty
      PROVE  Sound(w) /\ w.snap = v
  <2>1. n \in NoteOrNone
    BY <1>2
  <2>2. Fit(w) /\ Clean(w) /\ w.snap = u.snap /\ w.loaded = n
    BY <1>2, <2>1, ReplaceFit
  <2> HIDE DEF w
  <2>3. QED
    BY <1>2, <2>2 DEF Sound, Agrees
<1>3. CASE v.path = Absent
  <2>1. CASE u.dirty
    <3>1. w = [u EXCEPT !.pending = NoNote, !.changed = TRUE]
      BY <1>3, <2>1 DEF Reconcile
    <3>2. NoNote \in NoteOrNone
      BY DEF NoteOrNone
    <3> HIDE DEF w
    <3>3. QED
      BY <1>1, <2>1, <3>1, <3>2 DEF w
  <2>2. CASE ~u.dirty
    <3>1. w = Replace(u, NoNote) /\ Note(v) = NoNote
      BY <1>3, <2>2 DEF Reconcile
    <3> HIDE DEF w
    <3>2. QED
      BY <1>2, <2>2, <3>1 DEF w
  <2>3. QED
    BY <2>1, <2>2
<1>4. CASE v.path # Absent /\ ~HasNote(u)
  <2>1. w = Replace(u, Note(v)) /\ ~u.dirty
    BY <1>4 DEF Reconcile
  <2> HIDE DEF w
  <2>2. QED
    BY <1>2, <2>1 DEF w
<1>5. CASE v.path # Absent /\ HasNote(u)
  <2>0. v \in RealView /\ Note(v) \in RealNote /\ Note(v) \in NoteOrNone
    BY <1>5
  <2>1. w = IF u.loaded.path = v.path /\ u.loaded.rev = v.content
              THEN [u EXCEPT !.loaded = Note(v)]
            ELSE IF Saving(u) /\ u.save.content = v.content
              THEN Adopt(u, Note(v))
            ELSE IF Keeps(u)
              THEN [u EXCEPT !.pending = Note(v), !.changed = TRUE]
            ELSE Replace(u, Note(v))
    BY <1>5 DEF Reconcile
  <2> HIDE DEF w
  <2>2. CASE u.loaded.path = v.path /\ u.loaded.rev = v.content
    <3> DEFINE n == Note(v)
    <3>1. w = [u EXCEPT !.loaded = n]
      BY <2>1, <2>2
    <3>2. n \in Opened /\ n \in Loaded /\ n.rev = v.content
      BY <2>0, Drafts
    <3> HIDE DEF n
    <3>3. w \in Pane /\ SameWork(u, w) /\ w.text = u.text /\ w.loaded = n /\ w.dirty = u.dirty
          /\ w.pending = u.pending /\ w.changed = u.changed /\ w.snap = u.snap
      BY <3>1, <3>2 DEF Fit, Pane, SameWork
    <3>4. u.text \in Text
      BY <1>5
    <3>5. Document(w)
      BY <3>2, <3>3, <3>4 DEF Fit, Document
    <3>6. Fit(w)
      BY <3>3, <3>5, NewDocument
    <3>7. Clean(w)
      BY <2>2, <3>2, <3>3 DEF Clean
    <3>8. Agrees(w)
      BY <3>3 DEF Agrees, n
    <3>9. QED
      BY <3>3, <3>6, <3>7, <3>8 DEF Sound, w
  <2>3. CASE ~(u.loaded.path = v.path /\ u.loaded.rev = v.content)
             /\ Saving(u) /\ u.save.content = v.content
    <3>1. w = Adopt(u, Note(v))
      BY <2>1, <2>3
    <3>2. QED
      BY <1>5, <2>0, <3>1, AdoptSound DEF w
  <2>4. CASE ~(u.loaded.path = v.path /\ u.loaded.rev = v.content)
             /\ ~(Saving(u) /\ u.save.content = v.content)
    <3>1. CASE u.dirty
      <4>1. w = [u EXCEPT !.pending = Note(v), !.changed = TRUE]
        BY <2>1, <2>4, <3>1
      <4>2. QED
        BY <1>1, <2>0, <3>1, <4>1 DEF w
    <3>2. CASE ~u.dirty
      <4>1. w = Replace(u, Note(v))
        BY <2>1, <2>4, <3>2
      <4>2. QED
        BY <1>2, <3>2, <4>1 DEF w
    <3>3. QED
      BY <3>1, <3>2
  <2>5. QED
    BY <2>2, <2>3, <2>4
<1>6. QED
  BY <1>3, <1>4, <1>5

LEMMA RenderSound ==
  ASSUME NEW u, Fit(u), Clean(u), NEW v \in Shown
  PROVE  LET w == Render(u, v) IN
         Sound(w) /\ w.snap = v /\ (u.dirty => w.text = u.text)
<1> DEFINE a == [u EXCEPT !.snap = v]
<1>1. v \in View
  BY Drafts DEF Shown
<1>2. a \in Pane /\ SameWork(u, a) /\ a.text = u.text /\ a.loaded = u.loaded /\ a.dirty = u.dirty
      /\ a.pending = u.pending /\ a.snap = v
  BY <1>1 DEF Fit, Pane, SameWork
<1>3. Render(u, v) = Reconcile(a, v)
  BY DEF Render
<1> HIDE DEF a
<1>4. Document(a)
  BY <1>2 DEF Fit, Document
<1>5. Fit(a) /\ Clean(a)
  BY <1>2, <1>4, NewDocument DEF Clean
<1>6. QED
  BY <1>2, <1>3, <1>5, ReconcileSound
-----------------------------------------------------------------------------
(* What the user's edits and a recovered draft do to a pane.               *)

LEMMA SoundSame ==
  ASSUME NEW u, NEW w, Sound(u), Same(u, w)
  PROVE  Sound(w) /\ w.snap = u.snap /\ w.text = u.text
BY SameFit DEF Sound, Same, SameDocument

\* The edit that undoes the last difference takes the pending disk version.
LEMMA AcceptDiskSound ==
  ASSUME NEW u, Fit(u), ~u.dirty, u.changed \/ (Clean(u) /\ Agrees(u))
  PROVE  Sound(AcceptDisk(u)) /\ AcceptDisk(u).snap = u.snap
<1>1. CASE u.changed
  <2> DEFINE n == IF u.pending # NoNote THEN u.pending ELSE Note(u.snap)
             w == Replace(u, n)
  <2>1. n \in NoteOrNone
    BY Notes, Drafts DEF Fit, Document
  <2>2. AcceptDisk(u) = Render(w, u.snap)
    BY <1>1 DEF AcceptDisk
  <2> HIDE DEF n
  <2>3. Fit(w) /\ Clean(w)
    BY <2>1, ReplaceFit
  <2>4. u.snap \in Shown
    BY DEF Fit, Document
  <2> HIDE DEF w
  <2>5. QED
    BY <2>2, <2>3, <2>4, RenderSound
<1>2. CASE ~u.changed
  BY <1>2 DEF AcceptDisk, Sound
<1>3. QED
  BY <1>1, <1>2

\* What the user types.
LEMMA TypedSound ==
  ASSUME NEW u, Sound(u), HasNote(u), NEW t \in Text
  PROVE  Sound(Typed(u, t)) /\ Typed(u, t).snap = u.snap
<1> DEFINE d == t # u.loaded.content
           b == [u EXCEPT !.text = t, !.dirty = d, !.mine = TRUE]
           a == Changed(b)
           c == ClearDraft(a)
<1>1. u.loaded \in Opened /\ t \in MaybeText /\ d \in BOOLEAN /\ (d <=> t # u.loaded.content)
  BY DirtyHasNote DEF Sound, MaybeText
<1> HIDE DEF d
<1>2. b \in Pane /\ SameWork(u, b) /\ b.text = t /\ b.loaded = u.loaded /\ b.dirty = d
      /\ b.pending = u.pending /\ b.changed = u.changed /\ b.snap = u.snap
  BY <1>1 DEF Sound, Fit, Pane, SameWork
<1>3. Typed(u, t) = IF a.dirty THEN ScheduleDraft(a)
                    ELSE IF u.dirty THEN AcceptDisk(IF Saving(u) THEN c ELSE Synchronized(c))
                    ELSE a
  BY DEF Typed, d
<1> HIDE DEF b
<1>4. Fit(b)
  <2>1. Document(b)
    BY <1>1, <1>2 DEF Sound, Fit, Document
  <2>2. QED
    BY <1>2, <2>1, NewDocument DEF Sound
<1>5. Fit(a) /\ Same(b, a) /\ a.dirty = d /\ a.text = t /\ a.loaded = u.loaded /\ a.snap = u.snap
      /\ a.changed = u.changed
  <2>1. Same(b, a)
    BY <1>4, ChangedSame
  <2> HIDE DEF a
  <2>2. QED
    BY <1>2, <1>4, <2>1, SameFit DEF Same, SameDocument
<1> HIDE DEF a
<1>6. ASSUME d \/ ~u.dirty \/ ~u.changed
      PROVE  Sound(a)
  <2>1. CASE d
    BY <1>5, <2>1 DEF Sound, Clean, Agrees
  <2>2. CASE ~d
    <3>1. u.loaded = Note(u.snap) /\ t = u.loaded.content
      BY <1>1, <1>6, <2>2 DEF Sound, Agrees
    <3>2. u.loaded.content = u.loaded.rev
      BY <3>1, Notes DEF Sound, Fit, Document
    <3>3. QED
      BY <1>5, <3>1, <3>2 DEF Sound, Clean, Agrees
  <2>3. QED
    BY <2>1, <2>2
<1>7. CASE d
  <2>1. Typed(u, t) = ScheduleDraft(a) /\ Same(a, ScheduleDraft(a))
    BY <1>3, <1>5, <1>7, ScheduleDraftSame
  <2>2. QED
    BY <1>5, <1>6, <1>7, <2>1, SoundSame
<1>8. CASE ~d /\ u.dirty
  <2> DEFINE x == IF Saving(u) THEN c ELSE Synchronized(c)
  <2>1. Same(a, c) /\ Fit(c)
    BY <1>5, ClearSame, SameFit
  <2>2. Same(a, x)
    <3> HIDE DEF c
    <3>1. QED
      BY <2>1, SynchronizedSame, SameTrans
  <2>3. Typed(u, t) = AcceptDisk(x)
    BY <1>3, <1>5, <1>8
  <2> HIDE DEF x
  <2>4. Fit(x) /\ ~x.dirty /\ x.changed = u.changed /\ x.snap = u.snap
    BY <1>5, <1>8, <2>2, SameFit DEF Same, SameDocument
  <2>5. u.changed \/ (Clean(x) /\ Agrees(x))
    BY <1>6, <2>2, SameFit DEF Sound
  <2>6. QED
    BY <2>3, <2>4, <2>5, AcceptDiskSound
<1>9. CASE ~d /\ ~u.dirty
  BY <1>3, <1>5, <1>6, <1>9
<1>10. QED
  BY <1>7, <1>8, <1>9

\* A draft that is opened over the note it was made for.
LEMMA RecoveredSound ==
  ASSUME NEW u, Sound(u), NEW e \in RealDraft, NEW v \in Shown
  PROVE  Sound(Recovered(u, e, v)) /\ Recovered(u, e, v).snap = u.snap
<1> DEFINE off  == [u EXCEPT !.restore = "none", !.found = NoDraft]
           note == [path |-> e.path, content |-> v.content, rev |-> e.base]
           r    == Replace(off, note)
           a    == [r EXCEPT !.text = e.text, !.dirty = TRUE]
           b    == Changed(a)
           p    == IF v = NoView THEN NoNote ELSE Note(v)
           c    == v.content # e.base
           o    == [b EXCEPT !.draftTimer = TRUE, !.draftId = e.id, !.mine = TRUE,
                             !.pending = p, !.changed = c]
<1>1. Recovered(u, e, v) = IF v # NoView /\ v.content = e.text
                             THEN ClearPersisted(off, e.id) ELSE Render(o, u.snap)
  BY DEF Recovered
<1>2. off \in Pane /\ SameDocument(u, off) /\ off.queue = u.queue /\ off.save = u.save
      /\ off.restore = "none" /\ off.found = NoDraft
  BY Drafts DEF Sound, Fit, Pane, SameDocument
<1> HIDE DEF off
<1>3. Storing(off) /\ Holding(off)
  BY <1>2 DEF Sound, Fit, Storing, Holding, Saving
<1>4. Same(u, off) /\ Sound(off) /\ off.snap = u.snap
  BY <1>2, <1>3, SoundSame DEF Same
<1>5. e.path \in Path /\ e.base \in Text /\ e.text \in Text /\ e.id \in DraftId
      /\ v.content \in MaybeText
  BY Drafts DEF RealDraft, Shown, RealView, MaybeText
<1>6. note \in Opened /\ note \in Loaded
  BY <1>5, Drafts DEF Opened
<1>7. p \in NoteOrNone /\ p \in Loaded
  BY Notes, Drafts DEF NoteOrNone
<1> HIDE DEF note, p
<1>8. r \in Pane /\ SameWork(off, r) /\ r.snap = u.snap /\ r.loaded = note /\ r.pending = NoNote
  BY <1>2, <1>4, <1>6, Replacing
<1> HIDE DEF r
<1>9. a \in Pane /\ SameWork(off, a) /\ a.snap = u.snap /\ a.loaded = note /\ a.text = e.text
      /\ a.dirty = TRUE /\ a.pending = NoNote
  BY <1>5, <1>8 DEF Pane, SameWork, MaybeText
<1> HIDE DEF a
<1>10. u.snap \in Shown
  BY DEF Sound, Fit, Document
<1>11. Document(a) /\ Fit(a)
  <2>1. Document(a)
    BY <1>5, <1>6, <1>9, <1>10 DEF Document, NoteOrNone
  <2>2. QED
    BY <1>4, <1>9, <2>1, NewDocument DEF Sound
<1>12. Same(a, b) /\ SameWork(a, b) /\ Fit(b)
  BY <1>11, ChangedSame, SameFit
<1> HIDE DEF b
<1>13. c \in BOOLEAN
  OBVIOUS
<1> HIDE DEF c
<1>14. o \in Pane /\ SameWork(b, o) /\ o.text = b.text /\ o.loaded = b.loaded /\ o.snap = b.snap
       /\ o.dirty = b.dirty /\ o.pending = p
  <2> DEFINE x == [b EXCEPT !.draftTimer = TRUE, !.draftId = e.id, !.mine = TRUE]
  <2>1. b \in Pane /\ e.id \in DraftId \cup {0}
    BY <1>5, <1>12 DEF Fit
  <2>2. x \in Pane /\ SameWork(b, x) /\ SameDocument(b, x)
    BY <2>1 DEF Pane, SameWork, SameDocument
  <2>3. o = [x EXCEPT !.pending = p, !.changed = c]
    BY <2>1 DEF Pane
  <2> HIDE DEF x, o
  <2>4. o \in Pane /\ SameWork(x, o) /\ o.text = x.text /\ o.loaded = x.loaded /\ o.snap = x.snap
       /\ o.dirty = x.dirty /\ o.pending = p
    BY <1>7, <1>13, <2>2, <2>3 DEF Pane, SameWork
  <2>5. QED
    BY <2>2, <2>4 DEF SameWork, SameDocument
<1> HIDE DEF o
<1>15. o.loaded = note /\ o.text = e.text /\ o.snap = u.snap /\ o.dirty = TRUE
  BY <1>9, <1>12, <1>14 DEF Same, SameDocument
<1>16. Document(o)
  BY <1>5, <1>6, <1>7, <1>10, <1>14, <1>15 DEF Document
<1>17. Fit(o) /\ Clean(o)
  BY <1>12, <1>14, <1>15, <1>16, NewDocument DEF Clean
<1>18. CASE v # NoView /\ v.content = e.text
  <2>1. Recovered(u, e, v) = ClearPersisted(off, e.id) /\ e.id \in DraftId \cup {0}
    BY <1>1, <1>5, <1>18
  <2>2. Same(off, ClearPersisted(off, e.id))
    BY <1>4, <2>1, ClearSame DEF Sound
  <2>3. QED
    BY <1>4, <2>1, <2>2, SoundSame
<1>19. CASE ~(v # NoView /\ v.content = e.text)
  <2>1. Recovered(u, e, v) = Render(o, u.snap)
    BY <1>1, <1>19
  <2>2. QED
    BY <1>10, <1>17, <2>1, RenderSound
<1>20. QED
  BY <1>18, <1>19
-----------------------------------------------------------------------------
(* The messages on their way to the pane.                                  *)

LEMMA Sending ==
  ASSUME NEW box \in Seq(Message), \A k \in DOMAIN box : Letter(box[k]),
         NEW ms \in Seq(Message), \A k \in DOMAIN ms : Letter(ms[k])
  PROVE  box \o ms \in Seq(Message) /\ \A k \in DOMAIN (box \o ms) : Letter((box \o ms)[k])
<1> DEFINE b == box \o ms
<1>1. /\ b \in Seq(Message) /\ Len(b) = Len(box) + Len(ms) /\ Len(box) \in Nat /\ Len(ms) \in Nat
      /\ DOMAIN b = 1 .. Len(b) /\ DOMAIN box = 1 .. Len(box) /\ DOMAIN ms = 1 .. Len(ms)
      /\ \A k \in 1 .. Len(b) : b[k] = IF k <= Len(box) THEN box[k] ELSE ms[k - Len(box)]
  BY ConcatProperties, LenProperties
<1> HIDE DEF b
<1>2. ASSUME NEW k \in DOMAIN b PROVE Letter(b[k])
  <2>1. CASE k <= Len(box)
    BY <1>1, <2>1
  <2>2. CASE k > Len(box)
    <3>1. k - Len(box) \in DOMAIN ms /\ b[k] = ms[k - Len(box)]
      BY <1>1, <2>2
    <3>2. QED
      BY <3>1
  <2>3. QED
    BY <1>1, <2>1, <2>2
<1>3. QED
  BY <1>1, <1>2 DEF b

\* Messages that show nothing change nothing of what is shown in the end.
LEMMA SendingOther ==
  ASSUME NEW box \in Seq(Message), NEW ms \in Seq(Message), NEW snap, NEW view,
         \A k \in DOMAIN ms : ms[k].kind \notin Showing, Current(box, snap, view)
  PROVE  Current(box \o ms, snap, view)
<1> DEFINE b == box \o ms
<1>1. /\ Len(b) = Len(box) + Len(ms) /\ Len(box) \in Nat /\ Len(ms) \in Nat
      /\ DOMAIN b = 1 .. Len(b) /\ DOMAIN box = 1 .. Len(box) /\ DOMAIN ms = 1 .. Len(ms)
      /\ \A k \in 1 .. Len(b) : b[k] = IF k <= Len(box) THEN box[k] ELSE ms[k - Len(box)]
  BY ConcatProperties, LenProperties
<1> HIDE DEF b
<1>2. ASSUME NEW k \in DOMAIN b
      PROVE  (k \in DOMAIN box /\ b[k] = box[k]) \/ b[k].kind \notin Showing
  <2>1. CASE k <= Len(box)
    BY <1>1, <2>1
  <2>2. CASE k > Len(box)
    <3>1. k - Len(box) \in DOMAIN ms /\ b[k] = ms[k - Len(box)]
      BY <1>1, <2>2
    <3>2. QED
      BY <3>1
  <2>3. QED
    BY <1>1, <2>1, <2>2
<1>3. \A k \in DOMAIN box : k \in DOMAIN b /\ b[k] = box[k]
  BY <1>1
<1>4. CASE snap = view /\ \A k \in DOMAIN box : box[k].kind \notin Showing
  <2>1. \A k \in DOMAIN b : b[k].kind \notin Showing
    BY <1>2, <1>4
  <2>2. QED
    BY <1>4, <2>1 DEF Current, b
<1>5. ASSUME NEW k \in DOMAIN box, box[k].kind \in Showing, box[k].view = view,
             \A j \in DOMAIN box : j > k => box[j].kind \notin Showing
      PROVE  Current(b, snap, view)
  <2>1. k \in DOMAIN b /\ b[k] = box[k]
    BY <1>3
  <2>2. \A j \in DOMAIN b : j > k => b[j].kind \notin Showing
    BY <1>2, <1>5
  <2>3. QED
    BY <1>5, <2>1, <2>2 DEF Current
<1>6. QED
  BY <1>4, <1>5 DEF Current, b

\* When the last message shows the last view, that is what is shown in the end.
LEMMA SendingView ==
  ASSUME NEW box \in Seq(Message), NEW ms \in Seq(Message), NEW snap, NEW view, ms # <<>>,
         ms[Len(ms)].kind \in Showing, ms[Len(ms)].view = view
  PROVE  Current(box \o ms, snap, view)
<1> DEFINE b == box \o ms
<1>1. /\ Len(b) = Len(box) + Len(ms) /\ Len(box) \in Nat /\ Len(ms) \in Nat
      /\ DOMAIN b = 1 .. Len(b)
      /\ \A k \in 1 .. Len(b) : b[k] = IF k <= Len(box) THEN box[k] ELSE ms[k - Len(box)]
  BY ConcatProperties, LenProperties
<1>2. Len(ms) > 0
  <2>1. Len(ms) # 0
    BY EmptySeq
  <2>2. QED
    BY <1>1, <2>1
<1> HIDE DEF b
<1>3. Len(b) \in DOMAIN b /\ b[Len(b)] = ms[Len(ms)]
  BY <1>1, <1>2
<1>4. \A j \in DOMAIN b : ~(j > Len(b))
  BY <1>1
<1>5. Current(b, snap, view)
  BY <1>3, <1>4 DEF Current
<1>6. QED
  BY <1>5 DEF b

\* The pane takes a message.
LEMMA Taking ==
  ASSUME NEW box \in Seq(Message), \A k \in DOMAIN box : Letter(box[k]), box # <<>>,
         NEW snap, NEW view, Current(box, snap, view)
  PROVE  /\ Letter(Head(box)) /\ Tail(box) \in Seq(Message)
         /\ \A k \in DOMAIN Tail(box) : Letter(Tail(box)[k])
         /\ Head(box).kind \in Showing => Current(Tail(box), Head(box).view, view)
         /\ Head(box).kind \notin Showing => Current(Tail(box), snap, view)
<1> DEFINE b == Tail(box)
<1>1. /\ b \in Seq(Message) /\ Len(b) = Len(box) - 1 /\ Len(box) \in Nat /\ Len(box) > 0
      /\ DOMAIN b = 1 .. Len(b) /\ DOMAIN box = 1 .. Len(box) /\ Head(box) = box[1]
      /\ \A k \in 1 .. Len(b) : b[k] = box[k + 1]
  BY HeadTailProperties, LenProperties, EmptySeq
<1> HIDE DEF b
<1>2. Letter(Head(box)) /\ \A k \in DOMAIN b : Letter(b[k])
  <2>1. 1 \in DOMAIN box /\ \A k \in DOMAIN b : k + 1 \in DOMAIN box /\ b[k] = box[k + 1]
    BY <1>1
  <2>2. QED
    BY <1>1, <2>1
<1>3. ASSUME NEW s, NEW k \in DOMAIN box, k > 1, box[k].kind \in Showing, box[k].view = view,
             \A j \in DOMAIN box : j > k => box[j].kind \notin Showing
      PROVE  Current(b, s, view)
  <2>1. k - 1 \in DOMAIN b /\ b[k - 1] = box[k]
    BY <1>1, <1>3
  <2>2. ASSUME NEW j \in DOMAIN b, j > k - 1 PROVE b[j].kind \notin Showing
    <3>1. j + 1 \in DOMAIN box /\ j + 1 > k /\ b[j] = box[j + 1]
      BY <1>1, <2>2
    <3>2. QED
      BY <1>3, <3>1
  <2>3. QED
    BY <1>3, <2>1, <2>2 DEF Current
<1>4. ASSUME \A j \in DOMAIN box : j > 1 => box[j].kind \notin Showing
      PROVE  Current(b, view, view)
  <2>1. ASSUME NEW j \in DOMAIN b PROVE b[j].kind \notin Showing
    <3>1. j + 1 \in DOMAIN box /\ j + 1 > 1 /\ b[j] = box[j + 1]
      BY <1>1
    <3>2. QED
      BY <1>4, <3>1
  <2>2. QED
    BY <2>1 DEF Current
<1>5. ASSUME box[1].kind \in Showing PROVE Current(b, box[1].view, view)
  <2>1. PICK k \in DOMAIN box : /\ box[k].kind \in Showing /\ box[k].view = view
                                /\ \A j \in DOMAIN box : j > k => box[j].kind \notin Showing
    <3>1. 1 \in DOMAIN box
      BY <1>1
    <3>2. QED
      BY <1>5, <3>1 DEF Current
  <2>2. CASE k = 1
    BY <1>4, <2>1, <2>2
  <2>3. CASE k > 1
    BY <1>3, <2>1, <2>3
  <2>4. QED
    BY <1>1, <2>2, <2>3
<1>6. ASSUME box[1].kind \notin Showing PROVE Current(b, snap, view)
  <2>1. CASE snap = view /\ \A k \in DOMAIN box : box[k].kind \notin Showing
    BY <1>4, <2>1
  <2>2. ASSUME NEW k \in DOMAIN box, box[k].kind \in Showing, box[k].view = view,
               \A j \in DOMAIN box : j > k => box[j].kind \notin Showing
        PROVE  Current(b, snap, view)
    <3>1. k # 1
      BY <1>6, <2>2
    <3>2. k > 1
      BY <1>1, <3>1
    <3>3. QED
      BY <1>3, <2>2, <3>2
  <2>3. QED
    BY <2>1, <2>2 DEF Current
<1>7. QED
  BY <1>1, <1>2, <1>5, <1>6 DEF b
-----------------------------------------------------------------------------
(* The tasks of the renderer.                                              *)

\* An edit leaves the editor only by the user or once it is taken.
Kept == alive /\ alive' /\ ui.dirty /\ ui.mine /\ ui'.text # ui.text => ui.text \in done'

Counts == {"edit", "external", "crash", "fault", "flush", "close"}

\* A task that only changes the pane.
LEMMA PaneTask ==
  ASSUME Inv, Sound(ui'), ui'.snap = ui.snap, UNCHANGED <<main, inbox, alive, budget>>,
         request' \in Flush \cup {0}, answers' \subseteq [flush : Flush, ok : BOOLEAN],
         done' \subseteq Text, spent' \in [Counts -> Nat]
  PROVE  Inv'
<1>1. TypeOK'
  BY DEF Inv, TypeOK, Sound, Fit, main, Counts
<1>2. Whole'
  BY DEF Inv, Whole, Working, main
<1>3. QED
  BY <1>1, <1>2 DEF Inv

LEMMA Spends ==
  ASSUME Inv
  PROVE  /\ spent \in [Counts -> Nat]
         /\ [spent EXCEPT !.edit = @ + 1] \in [Counts -> Nat]
         /\ [spent EXCEPT !.external = @ + 1] \in [Counts -> Nat]
         /\ [spent EXCEPT !.crash = @ + 1] \in [Counts -> Nat]
         /\ [spent EXCEPT !.fault = @ + 1] \in [Counts -> Nat]
         /\ [spent EXCEPT !.flush = @ + 1] \in [Counts -> Nat]
         /\ [spent EXCEPT !.close = @ + 1] \in [Counts -> Nat]
         /\ spent.flush \in Nat
<1>1. spent \in [Counts -> Nat]
  BY DEF Inv, TypeOK, Counts
<1>2. ASSUME NEW c \in Counts PROVE [spent EXCEPT ![c] = @ + 1] \in [Counts -> Nat]
  BY <1>1
<1>3. "edit" \in Counts /\ "external" \in Counts /\ "crash" \in Counts /\ "fault" \in Counts
      /\ "flush" \in Counts /\ "close" \in Counts
  BY DEF Counts
<1>4. QED
  BY <1>1, <1>2, <1>3

LEMMA EditStep ==
  ASSUME Inv, NEW t \in Text, Edit(t), UNCHANGED budget
  PROVE  Inv' /\ Kept
<1>1. Sound(ui') /\ ui'.snap = ui.snap
  BY TypedSound DEF Edit, Inv, Whole
<1>2. ui.text \in Text /\ t # ui.text
  BY DirtyHasNote DEF Edit, Inv, Whole, Sound
<1>3. done' \subseteq Text /\ (ui.dirty => ui.text \in done')
  BY <1>2 DEF Edit, Inv, TypeOK
<1>4. UNCHANGED <<main, inbox, request, answers, alive>> /\ spent' \in [Counts -> Nat]
  BY Spends DEF Edit
<1>5. request' \in Flush \cup {0} /\ answers' \subseteq [flush : Flush, ok : BOOLEAN]
  BY <1>4 DEF Inv, TypeOK
<1>6. QED
  BY <1>1, <1>3, <1>4, <1>5, PaneTask DEF Kept

\* A task that leaves the document of the pane alone.
LEMMA SameTask ==
  ASSUME Inv, Same(ui, ui'), UNCHANGED <<main, inbox, request, answers, alive, done, budget>>,
         spent' \in [Counts -> Nat]
  PROVE  Inv' /\ Kept
<1>1. Sound(ui') /\ ui'.snap = ui.snap /\ ui'.text = ui.text
  BY SoundSame DEF Inv, Whole
<1>2. request' \in Flush \cup {0} /\ answers' \subseteq [flush : Flush, ok : BOOLEAN]
      /\ done' \subseteq Text
  BY DEF Inv, TypeOK
<1>3. QED
  BY <1>1, <1>2, PaneTask DEF Kept

LEMMA TimerSteps ==
  ASSUME Inv, AutosaveTimer \/ DraftTimer, UNCHANGED budget
  PROVE  Inv' /\ Kept
<1>1. Fit(ui) /\ spent \in [Counts -> Nat]
  BY Spends DEF Inv, Whole, Sound
<1>2. CASE AutosaveTimer
  <2> DEFINE u == [ui EXCEPT !.timer = FALSE]
  <2>1. Same(ui, u)
    <3> DEFINE f == FALSE
    <3>1. f \in BOOLEAN
      OBVIOUS
    <3> HIDE DEF f
    <3>2. Same(ui, [ui EXCEPT !.timer = f])
      BY <1>1, <3>1, TimersSame
    <3>3. QED
      BY <3>2 DEF f
  <2>2. ui' = u \/ ui' = StartSave(u)
    BY <1>2 DEF AutosaveTimer
  <2> HIDE DEF u
  <2>3. Same(ui, ui')
    BY <1>1, <2>1, <2>2, SameFit, StartSaveSame, SameTrans
  <2>4. QED
    BY <1>1, <1>2, <2>3, SameTask DEF AutosaveTimer
<1>3. CASE DraftTimer
  BY <1>1, <1>3, PersistSame, SameTask DEF DraftTimer
<1>4. QED
  BY <1>2, <1>3

\* What the draft store does with an operation.
LEMMA Storage ==
  ASSUME Inv, ui.queue # <<>>
  PROVE  /\ Stored(Head(ui.queue)) \in RealDraft \cup {NoDraft}
         /\ Tail(ui.queue) \in Seq(DraftOp)
         /\ \A k \in DOMAIN Tail(ui.queue) :
              Tail(ui.queue)[k].op = "save" => Tail(ui.queue)[k].draft \in RealDraft
<1> DEFINE q == ui.queue
           b == Tail(q)
<1>1. q \in Seq(DraftOp) /\ \A k \in DOMAIN q : q[k].op = "save" => q[k].draft \in RealDraft
  BY DEF Inv, Whole, Sound, Fit, Pane, Storing
<1>2. q # <<>>
  OBVIOUS
<1> HIDE DEF q
<1>3. /\ b \in Seq(DraftOp) /\ Len(b) = Len(q) - 1 /\ Len(q) \in Nat /\ Len(q) > 0
      /\ DOMAIN b = 1 .. Len(b) /\ DOMAIN q = 1 .. Len(q) /\ Head(q) = q[1]
      /\ \A k \in 1 .. Len(b) : b[k] = q[k + 1]
  BY <1>1, <1>2, HeadTailProperties, LenProperties, EmptySeq
<1> HIDE DEF b
<1>4. \A k \in DOMAIN b : b[k].op = "save" => b[k].draft \in RealDraft
  <2>1. \A k \in DOMAIN b : k + 1 \in DOMAIN q /\ b[k] = q[k + 1]
    BY <1>3
  <2>2. QED
    BY <1>1, <2>1
<1>5. Stored(Head(q)) \in RealDraft \cup {NoDraft}
  <2> DEFINE o == Head(q)
  <2>1. 1 \in DOMAIN q
    BY <1>3
  <2>2. o \in DraftOp /\ (o.op = "save" => o.draft \in RealDraft)
    BY <1>1, <1>3, <2>1, ElementOfSeq
  <2> HIDE DEF o
  <2>3. o.op = "save" \/ o.op = "clear"
    BY <2>2 DEF DraftOp
  <2>4. draft \in RealDraft \cup {NoDraft}
    BY DEF Inv, Whole
  <2>5. Stored(o) \in RealDraft \cup {NoDraft}
    BY <2>2, <2>3, <2>4 DEF Stored
  <2>6. QED
    BY <2>5 DEF o
<1>6. QED
  BY <1>3, <1>4, <1>5 DEF q, b

LEMMA DraftStep ==
  ASSUME Inv, NEW fails \in BOOLEAN, DraftOperation(fails), spent' \in [Counts -> Nat],
         UNCHANGED budget
  PROVE  Inv' /\ Kept
<1> DEFINE n == Ahead(ui.save.ahead)
           s == [ui.save EXCEPT !.ahead = n]
           q == Tail(ui.queue)
<1>1. ui \in Pane /\ Fit(ui) /\ Sound(ui)
  BY DEF Inv, Whole, Sound, Fit
<1>2. n \in Nat
  BY <1>1 DEF Pane, Save, Ahead
<1>3. ui' = [ui EXCEPT !.queue = q, !.save = s]
  BY <1>1 DEF DraftOperation, Pane
<1>4. q \in Seq(DraftOp) /\ \A k \in DOMAIN q : q[k].op = "save" => q[k].draft \in RealDraft
  BY Storage DEF DraftOperation
<1> HIDE DEF n, q
<1>5. s \in Save /\ s.step = ui.save.step /\ s.path = ui.save.path /\ s.content = ui.save.content
      /\ s.rev = ui.save.rev
  BY <1>1, <1>2 DEF Pane, Save
<1> HIDE DEF s
<1>6. ui' \in Pane /\ SameDocument(ui, ui') /\ ui'.queue = q /\ ui'.save = s
      /\ ui'.restore = ui.restore /\ ui'.found = ui.found
  BY <1>1, <1>3, <1>4, <1>5 DEF Pane, SameDocument
<1>7. Same(ui, ui')
  BY <1>1, <1>4, <1>5, <1>6 DEF Same, Fit, Storing, Holding, Saving
<1>8. Sound(ui') /\ ui'.snap = ui.snap /\ ui'.text = ui.text
  BY <1>1, <1>7, SoundSame
<1>9. draft' \in RealDraft \cup {NoDraft}
  BY Storage DEF DraftOperation, Inv, Whole
<1>10. TypeOK'
  <2>1. draft' \in Draft
    BY <1>9, Drafts
  <2>2. QED
    BY <1>6, <2>1 DEF Inv, TypeOK, DraftOperation, Counts
<1>11. Whole'
  BY <1>8, <1>9 DEF Inv, Whole, Working, DraftOperation
<1>12. QED
  BY <1>8, <1>10, <1>11 DEF Inv, Kept

LEMMA SendSaveStep ==
  ASSUME Inv, SendSave, UNCHANGED budget
  PROVE  Inv' /\ Kept
<1> DEFINE s == [ui.save EXCEPT !.step = "sent"]
<1>1. ui \in Pane /\ Fit(ui) /\ Sound(ui)
  BY DEF Inv, Whole, Sound, Fit
<1>2. ui' = [ui EXCEPT !.save = s]
  BY <1>1 DEF SendSave, Pane
<1>3. s \in Save /\ s.step = "sent" /\ s.path = ui.save.path /\ s.content = ui.save.content
      /\ s.rev = ui.save.rev
  BY <1>1 DEF Pane, Save
<1>4. ui.save.path \in Path /\ ui.save.content \in Text /\ ui.save.rev \in Text
  BY <1>1 DEF SendSave, Fit, Holding, Saving
<1> HIDE DEF s
<1>5. ui' \in Pane /\ SameDocument(ui, ui') /\ ui'.queue = ui.queue /\ ui'.save = s
      /\ ui'.restore = ui.restore /\ ui'.found = ui.found
  BY <1>1, <1>2, <1>3 DEF Pane, SameDocument
<1>6. Same(ui, ui')
  BY <1>1, <1>3, <1>4, <1>5 DEF Same, Fit, Storing, Holding, Saving
<1>7. Sound(ui') /\ ui'.snap = ui.snap /\ ui'.text = ui.text
  BY <1>1, <1>6, SoundSame
<1>8. job' \in Job /\ job'.path \in Path /\ job'.content \in Text /\ job'.rev \in Text
  BY <1>4 DEF SendSave, Job, MaybePath, MaybeText
<1>9. TypeOK'
  BY <1>5, <1>8 DEF Inv, TypeOK, SendSave
<1>10. Whole'
  BY <1>7, <1>8 DEF Inv, Whole, Working, SendSave
<1>11. QED
  BY <1>7, <1>9, <1>10 DEF Inv, Kept

\* Flushes that are through are answered.
LEMMA Settled ==
  ASSUME Inv, NEW u, Sound(u), NEW ok \in BOOLEAN, Settle(u, ok)
  PROVE  Sound(ui') /\ ui'.snap = u.snap /\ ui'.text = u.text
         /\ answers' \subseteq [flush : Flush, ok : BOOLEAN]
<1>1. Same(u, u) /\ Fit(u)
  BY DEF Sound, Fit, Same, SameDocument
<1>2. Same(u, [u EXCEPT !.flushes = {}])
  <2> DEFINE F == {}
  <2>1. F \in SUBSET Flush
    OBVIOUS
  <2> HIDE DEF F
  <2>2. Same(u, [u EXCEPT !.flushes = F])
    BY <1>1, <2>1, TimersSame
  <2>3. QED
    BY <2>2 DEF F
<1>3. ui' = u \/ ui' = [u EXCEPT !.flushes = {}]
  BY DEF Settle
<1>4. Sound(ui') /\ ui'.snap = u.snap /\ ui'.text = u.text
  BY <1>1, <1>2, <1>3, SoundSame
<1>5. answers' \subseteq [flush : Flush, ok : BOOLEAN]
  <2>1. u.flushes \subseteq Flush
    BY <1>1 DEF Fit, Pane
  <2>2. {[flush |-> f, ok |-> ok] : f \in u.flushes} \subseteq [flush : Flush, ok : BOOLEAN]
    BY <2>1
  <2>3. answers \subseteq [flush : Flush, ok : BOOLEAN]
    BY DEF Inv, TypeOK
  <2>4. QED
    BY <2>2, <2>3 DEF Settle
<1>6. QED
  BY <1>4, <1>5

\* A task that takes a message.
LEMMA ReceiveTask ==
  ASSUME Inv, NEW kind, Receive(kind), UNCHANGED budget, Sound(ui'),
         ui'.snap = IF kind \in Showing THEN Head(inbox).view ELSE ui.snap,
         ui.dirty => ui'.text = ui.text, answers' \subseteq [flush : Flush, ok : BOOLEAN]
  PROVE  Inv' /\ Kept
<1>1. inbox \in Seq(Message) /\ inbox # <<>> /\ Head(inbox).kind = kind /\ inbox' = Tail(inbox)
      /\ (\A k \in DOMAIN inbox : Letter(inbox[k])) /\ alive /\ Current(inbox, ui.snap, sent)
  BY DEF Inv, TypeOK, Whole, Receive
<1>2. inbox' \in Seq(Message) /\ (\A k \in DOMAIN inbox' : Letter(inbox'[k]))
      /\ Current(inbox', ui'.snap, sent)
  BY <1>1, Taking
<1>3. done' \subseteq Text
  <2>1. ui.text \in Text \cup {Absent} /\ done \subseteq Text
    BY DEF Inv, TypeOK, Pane, MaybeText
  <2>2. ui.text = Absent => ui.text \notin ({Head(inbox).view.content} \ {Absent})
    OBVIOUS
  <2>3. QED
    BY <2>1, <2>2 DEF Receive
<1>4. TypeOK'
  BY <1>2, <1>3 DEF Inv, TypeOK, Receive, main, Sound, Fit
<1>5. Whole'
  BY <1>2 DEF Inv, Whole, Working, Receive, main
<1>6. QED
  BY <1>4, <1>5 DEF Inv, Kept

LEMMA FirstLetter ==
  ASSUME Inv, NEW kind, Receive(kind)
  PROVE  /\ Letter(Head(inbox)) /\ Head(inbox).kind = kind
         /\ kind \in Showing => Head(inbox).view \in Shown
         /\ kind = "flush" => Head(inbox).flush \in Flush
         /\ Sound(ui) /\ Fit(ui) /\ Clean(ui)
<1>1. inbox \in Seq(Message) /\ inbox # <<>> /\ Head(inbox).kind = kind
      /\ (\A k \in DOMAIN inbox : Letter(inbox[k])) /\ alive /\ Current(inbox, ui.snap, sent)
  BY DEF Inv, TypeOK, Whole, Receive
<1>2. Letter(Head(inbox))
  BY <1>1, Taking
<1>3. QED
  BY <1>1, <1>2 DEF Letter, Inv, Whole, Sound

LEMMA ReceiveSteps ==
  ASSUME Inv, ReceivePush \/ ReceiveReply \/ ReceiveFailure \/ ReceiveFlush, UNCHANGED budget
  PROVE  Inv' /\ Kept
<1>0. "push" \in Showing /\ "reply" \in Showing /\ "failed" \notin Showing /\ "flush" \notin Showing
  BY DEF Showing
<1>1. CASE ReceivePush
  <2> DEFINE v == Head(inbox).view
  <2>1. Receive("push") /\ ui' = Render(ui, v) /\ UNCHANGED answers
    BY <1>1 DEF ReceivePush
  <2>2. v \in Shown /\ Fit(ui) /\ Clean(ui)
    BY <1>0, <2>1, FirstLetter
  <2> HIDE DEF v
  <2>3. Sound(ui') /\ ui'.snap = v /\ (ui.dirty => ui'.text = ui.text)
    BY <2>1, <2>2, RenderSound
  <2>4. answers' \subseteq [flush : Flush, ok : BOOLEAN]
    BY <2>1 DEF Inv, TypeOK
  <2>5. QED
    BY <1>0, <2>1, <2>3, <2>4, ReceiveTask DEF v
<1>2. CASE ReceiveReply
  <2> DEFINE v == Head(inbox).view
             r == Render(ui, v)
             a == AfterReply(r)
             f == Finish(a)
             c == Continue(f)
  <2>1. Receive("reply") /\ Settle(c, TRUE)
    BY <1>2 DEF ReceiveReply
  <2>2. v \in Shown /\ Fit(ui) /\ Clean(ui)
    BY <1>0, <2>1, FirstLetter
  <2> HIDE DEF v
  <2>3. Sound(r) /\ r.snap = v /\ (ui.dirty => r.text = ui.text)
    BY <2>2, RenderSound
  <2> HIDE DEF r
  <2>4. Same(r, a)
    <3>1. Fit(r) /\ Same(r, r)
      BY <2>3 DEF Sound, Fit, Same, SameDocument
    <3>2. QED
      BY <3>1, ClearSame DEF AfterReply
  <2>5. Sound(a) /\ a.snap = v /\ a.text = r.text
    BY <2>3, <2>4, SoundSame
  <2> HIDE DEF a
  <2>6. Sound(f) /\ f.snap = v /\ f.text = r.text
    <3>1. Same(a, f)
      BY <2>5, FinishSame DEF Sound
    <3>2. QED
      BY <2>5, <3>1, SoundSame
  <2> HIDE DEF f
  <2>7. Sound(c) /\ c.snap = v /\ c.text = r.text
    <3>1. Same(f, c)
      BY <2>6, ContinueSame DEF Sound
    <3>2. QED
      BY <2>6, <3>1, SoundSame
  <2> HIDE DEF c
  <2>8. Sound(ui') /\ ui'.snap = v /\ ui'.text = r.text
        /\ answers' \subseteq [flush : Flush, ok : BOOLEAN]
    <3> DEFINE ok == TRUE
    <3>1. ok \in BOOLEAN /\ Settle(c, ok)
      BY <2>1
    <3> HIDE DEF ok
    <3>2. QED
      BY <2>7, <3>1, Settled
  <2>9. QED
    BY <1>0, <2>1, <2>3, <2>8, ReceiveTask DEF v
<1>3. CASE ReceiveFailure
  <2> DEFINE u == [ui EXCEPT !.save = NoSave]
             ok == FALSE
  <2>1. Receive("failed") /\ Settle(u, ok) /\ ok \in BOOLEAN
    BY <1>3 DEF ReceiveFailure
  <2>2. Sound(u) /\ u.snap = ui.snap /\ u.text = ui.text
    <3>1. Same(ui, u) /\ Sound(ui)
      BY <2>1, FirstLetter, FinishSame
    <3> HIDE DEF u
    <3>2. QED
      BY <3>1, SoundSame
  <2> HIDE DEF u, ok
  <2>3. Sound(ui') /\ ui'.snap = u.snap /\ ui'.text = u.text
        /\ answers' \subseteq [flush : Flush, ok : BOOLEAN]
    BY <2>1, <2>2, Settled
  <2>4. QED
    BY <1>0, <2>1, <2>2, <2>3, ReceiveTask
<1>4. CASE ReceiveFlush
  <2> DEFINE F == ui.flushes \cup {Head(inbox).flush}
             u == [ui EXCEPT !.timer = FALSE, !.flushes = F]
             c == Continue(u)
             ok == TRUE
  <2>1. Receive("flush") /\ Settle(c, ok) /\ ok \in BOOLEAN
    BY <1>4 DEF ReceiveFlush, Pane, Inv, TypeOK
  <2>2. F \in SUBSET Flush /\ Sound(ui) /\ Fit(ui)
    <3>1. Head(inbox).flush \in Flush /\ Sound(ui) /\ Fit(ui)
      BY <2>1, FirstLetter
    <3>2. QED
      BY <3>1 DEF Fit, Pane
  <2> HIDE DEF F
  <2>3. Sound(u) /\ u.snap = ui.snap /\ u.text = ui.text
    <3>1. Same(ui, u)
      BY <2>2, TimersSame
    <3> HIDE DEF u
    <3>2. QED
      BY <2>2, <3>1, SoundSame
  <2> HIDE DEF u, ok
  <2>4. Sound(c) /\ c.snap = ui.snap /\ c.text = ui.text
    <3>1. Same(u, c)
      BY <2>3, ContinueSame DEF Sound
    <3>2. QED
      BY <2>3, <3>1, SoundSame
  <2> HIDE DEF c
  <2>5. Sound(ui') /\ ui'.snap = c.snap /\ ui'.text = c.text
        /\ answers' \subseteq [flush : Flush, ok : BOOLEAN]
    BY <2>1, <2>4, Settled
  <2>6. QED
    BY <1>0, <2>1, <2>4, <2>5, ReceiveTask
<1>5. QED
  BY <1>1, <1>2, <1>3, <1>4
-----------------------------------------------------------------------------
(* The main process.                                                       *)

LEMMA Told ==
  ASSUME Inv, NEW ms \in Seq(Message), \A k \in DOMAIN ms : Letter(ms[k]), Tell(ms)
  PROVE  /\ inbox' \in Seq(Message) /\ \A k \in DOMAIN inbox' : Letter(inbox'[k])
         /\ ~alive => inbox' = <<>>
         /\ alive /\ (\A k \in DOMAIN ms : ms[k].kind \notin Showing)
              => Current(inbox', ui.snap, sent)
         /\ \A v : alive /\ ms # <<>> /\ ms[Len(ms)].kind \in Showing /\ ms[Len(ms)].view = v
              => Current(inbox', ui.snap, v)
<1>1. inbox \in Seq(Message) /\ (\A k \in DOMAIN inbox : Letter(inbox[k]))
      /\ (alive => Current(inbox, ui.snap, sent)) /\ (~alive => inbox = <<>>)
  BY DEF Inv, TypeOK, Whole
<1>2. CASE alive
  <2>1. inbox' = inbox \o ms
    BY <1>2 DEF Tell
  <2>2. inbox' \in Seq(Message) /\ \A k \in DOMAIN inbox' : Letter(inbox'[k])
    BY <1>1, <2>1, Sending
  <2>3. (\A k \in DOMAIN ms : ms[k].kind \notin Showing) => Current(inbox', ui.snap, sent)
    BY <1>1, <1>2, <2>1, SendingOther
  <2>4. ASSUME NEW v, ms # <<>>, ms[Len(ms)].kind \in Showing, ms[Len(ms)].view = v
        PROVE  Current(inbox', ui.snap, v)
    BY <1>1, <2>1, <2>4, SendingView
  <2>5. QED
    BY <1>2, <2>2, <2>3, <2>4
<1>3. CASE ~alive
  BY <1>1, <1>3 DEF Tell
<1>4. QED
  BY <1>2, <1>3

LEMMA LetterFacts ==
  /\ Letter(Failure) /\ Failure.kind = "failed"
  /\ \A v \in Shown : /\ Letter(Push(v)) /\ Push(v).kind = "push" /\ Push(v).view = v
                      /\ Letter(Reply(v)) /\ Reply(v).kind = "reply" /\ Reply(v).view = v
  /\ \A f \in Flush : Letter([kind |-> "flush", view |-> NoView, flush |-> f])
  /\ "failed" \notin Showing /\ "push" \in Showing /\ "reply" \in Showing /\ "flush" \notin Showing
<1>1. Shown \subseteq View /\ NoView \in View
  BY Drafts DEF Shown
<1>2. \A v \in View : Push(v) \in Message /\ Reply(v) \in Message
  BY DEF Push, Reply, Message
<1>3. Failure \in Message
  BY <1>1 DEF Failure, Message
<1>4. ASSUME NEW f \in Flush PROVE [kind |-> "flush", view |-> NoView, flush |-> f] \in Message
  BY <1>1 DEF Message
<1>5. QED
  BY <1>1, <1>2, <1>3, <1>4 DEF Letter, Push, Reply, Failure, Showing

LEMMA KernelWriteFacts ==
  ASSUME Inv, job.step = "write", Wrote(job)
  PROVE  /\ disk' \in [Path -> MaybeText] /\ done' \subseteq Text /\ done \subseteq done'
         /\ Destination(job) \in Path
<1>1. job.path \in Path /\ job.content \in Text
  BY DEF Inv, Whole, Working
<1>2. Destination(job) \in Path
  BY <1>1, Destinations DEF Wrote
<1>3. QED
  BY <1>1, <1>2 DEF Wrote, Inv, TypeOK, MaybeText

LEMMA KernelWriteStep ==
  ASSUME Inv, KernelWrite, UNCHANGED budget
  PROVE  Inv' /\ Kept
<1>1. disk' \in [Path -> MaybeText] /\ done' \subseteq Text /\ Destination(job) \in Path
  BY KernelWriteFacts DEF KernelWrite
<1> DEFINE p == Destination(job)
           f == "publish"
<1>2. job' = [job EXCEPT !.step = f, !.path = p] /\ f # "none" /\ f # "write"
      /\ f \in {"none", "write", "publish"} /\ p \in Path /\ p \in MaybePath
  BY <1>1 DEF KernelWrite, MaybePath
<1> HIDE DEF p, f
<1>3. job' \in Job /\ job'.path = p /\ job'.step = f
  BY <1>2 DEF Inv, TypeOK, Job
<1>4. TypeOK'
  BY <1>1, <1>3 DEF KernelWrite, Inv, TypeOK
<1>5. Whole'
  BY <1>2, <1>3 DEF KernelWrite, Inv, Whole, Working
<1>6. QED
  BY <1>4, <1>5 DEF Inv, Kept, KernelWrite

LEMMA KernelFailsStep ==
  ASSUME Inv, KernelFails, UNCHANGED budget
  PROVE  Inv' /\ Kept
<1>1. disk' \in [Path -> MaybeText] /\ done' \subseteq Text
  BY KernelWriteFacts DEF KernelFails, Inv, TypeOK
<1> DEFINE ms == Response(Failure)
<1>2. ms \in Seq(Message) /\ (\A k \in DOMAIN ms : Letter(ms[k]) /\ ms[k].kind \notin Showing)
  <2>1. Failure \in Message /\ Letter(Failure) /\ Failure.kind \notin Showing
    BY LetterFacts DEF Letter
  <2>2. ms = <<Failure>> \/ ms = <<>>
    BY DEF Response
  <2> HIDE DEF ms
  <2>3. CASE ms = <<Failure>>
    BY <2>1, <2>3
  <2>4. CASE ms = <<>>
    BY <2>4
  <2>5. QED
    BY <2>2, <2>3, <2>4
<1>3. Tell(ms)
  BY DEF KernelFails
<1> HIDE DEF ms
<1>4. /\ inbox' \in Seq(Message) /\ \A k \in DOMAIN inbox' : Letter(inbox'[k])
      /\ IF alive THEN Current(inbox', ui.snap, sent) ELSE inbox' = <<>>
  BY <1>2, <1>3, Told
<1>5. job' \in Job /\ job'.step = "none"
  BY DEF KernelFails, NoJob, Job, MaybePath, MaybeText
<1>6. TypeOK'
  BY <1>1, <1>4, <1>5, Spends DEF KernelFails, Inv, TypeOK, Counts
<1>7. Whole'
  BY <1>4, <1>5 DEF KernelFails, Inv, Whole, Working
<1>8. QED
  BY <1>6, <1>7 DEF Inv, Kept, KernelFails

\* What can be published.
LEMMA ViewsShown ==
  ASSUME Inv, NEW a, NEW v \in Views(a)
  PROVE  v \in Shown /\ v.path \in MaybePath /\ v \in View
<1>1. v = NoView \/ \E p \in Path : disk[p] # Absent /\ v = [path |-> p, content |-> disk[p]]
  BY DEF Views
<1>2. \A p \in Path : disk[p] \in MaybeText
  BY DEF Inv, TypeOK
<1>3. v \in Shown
  BY <1>1, <1>2 DEF Shown, RealView, MaybeText
<1>4. QED
  BY <1>3, Drafts DEF Shown, RealView, NoView, MaybePath

LEMMA Pairs ==
  ASSUME NEW a \in Message, NEW b \in Message
  PROVE  <<a>> \o <<b>> = <<a, b>>
<1> DEFINE x == <<a>>
           y == <<b>>
           z == <<a, b>>
<1>1. x \in Seq(Message) /\ y \in Seq(Message) /\ z \in Seq(Message)
  OBVIOUS
<1>2. Len(x) = 1 /\ Len(y) = 1 /\ Len(z) = 2 /\ x[1] = a /\ y[1] = b /\ z[1] = a /\ z[2] = b
  OBVIOUS
<1> HIDE DEF x, y, z
<1>3. /\ x \o y \in Seq(Message) /\ Len(x \o y) = 2
      /\ (x \o y)[1] = a /\ (x \o y)[2] = b
  BY <1>1, <1>2, ConcatProperties
<1>4. x \o y = z
  BY <1>1, <1>2, <1>3, SeqEqual
<1>5. QED
  BY <1>4 DEF x, y, z

LEMMA PublishStep ==
  ASSUME Inv, NEW v, Publish(v), UNCHANGED budget
  PROVE  Inv' /\ Kept
<1>1. v \in Shown /\ v.path \in MaybePath /\ v \in View
  BY ViewsShown DEF Publish
<1> DEFINE r == Response(Reply(v))
           p == Push(v)
<1>2. r = <<Reply(v)>> \/ r = <<>>
  BY DEF Response
<1>3. /\ Letter(p) /\ p.kind \in Showing /\ p.view = v /\ p \in Message
      /\ Letter(Reply(v)) /\ Reply(v).kind \in Showing /\ Reply(v).view = v /\ Reply(v) \in Message
  BY <1>1, LetterFacts DEF Letter
<1>4. Tell(<<p>> \o r) \/ Tell(r \o <<p>>)
  BY DEF Publish
<1> HIDE DEF r, p
<1>5. PICK ms : Tell(ms) /\ ms \in {<<p>>, <<p, Reply(v)>>, <<Reply(v), p>>}
  <2>1. CASE r = <<>>
    <3>1. <<p>> \o r = <<p>> /\ r \o <<p>> = <<p>>
      BY <1>3, <2>1
    <3>2. QED
      BY <1>4, <3>1
  <2>2. CASE r = <<Reply(v)>>
    <3>1. <<p>> \o r = <<p, Reply(v)>> /\ r \o <<p>> = <<Reply(v), p>>
      BY <1>3, <2>2, Pairs
    <3>2. QED
      BY <1>4, <3>1
  <2>3. QED
    BY <1>2, <2>1, <2>2
<1>6. /\ ms \in Seq(Message) /\ (\A k \in DOMAIN ms : Letter(ms[k]))
      /\ ms # <<>> /\ ms[Len(ms)].kind \in Showing /\ ms[Len(ms)].view = v
  <2>1. CASE ms = <<p>>
    BY <1>3, <2>1
  <2>2. CASE ms = <<p, Reply(v)>>
    BY <1>3, <2>2
  <2>3. CASE ms = <<Reply(v), p>>
    BY <1>3, <2>3
  <2>4. QED
    BY <1>5, <2>1, <2>2, <2>3
<1>7. /\ inbox' \in Seq(Message) /\ (\A k \in DOMAIN inbox' : Letter(inbox'[k]))
      /\ (~alive => inbox' = <<>>) /\ (alive => Current(inbox', ui.snap, v))
  BY <1>5, <1>6, Told
<1>8. job' \in Job /\ job'.step = "none" /\ sent' = v /\ active' = v.path
  BY DEF Publish, NoJob, Job, MaybePath, MaybeText
<1>9. TypeOK'
  BY <1>1, <1>7, <1>8 DEF Publish, Inv, TypeOK
<1>10. Whole'
  BY <1>1, <1>7, <1>8 DEF Publish, Inv, Whole, Working
<1>11. QED
  BY <1>9, <1>10 DEF Inv, Kept, Publish

LEMMA NotifyStep ==
  ASSUME Inv, NEW v, Notify(v), UNCHANGED budget
  PROVE  Inv' /\ Kept
<1>1. v \in Shown /\ v.path \in MaybePath /\ v \in View
  BY ViewsShown DEF Notify
<1> DEFINE p == Push(v)
           ms == <<p>>
<1>2. Letter(p) /\ p.kind \in Showing /\ p.view = v /\ p \in Message
  BY <1>1, LetterFacts DEF Letter
<1>3. Tell(ms)
  BY DEF Notify
<1> HIDE DEF p
<1>4. /\ ms \in Seq(Message) /\ (\A k \in DOMAIN ms : Letter(ms[k]))
      /\ ms # <<>> /\ ms[Len(ms)].kind \in Showing /\ ms[Len(ms)].view = v
  BY <1>2
<1> HIDE DEF ms
<1>5. /\ inbox' \in Seq(Message) /\ (\A k \in DOMAIN inbox' : Letter(inbox'[k]))
      /\ (alive => Current(inbox', ui.snap, v))
  BY <1>3, <1>4, Told
<1>6. TypeOK'
  BY <1>1, <1>5 DEF Notify, Inv, TypeOK
<1>7. Whole'
  BY <1>1, <1>5 DEF Notify, Inv, Whole, Working
<1>8. QED
  BY <1>6, <1>7 DEF Inv, Kept, Notify

LEMMA FlushSteps ==
  ASSUME Inv, AskFlush \/ FlushTimeout, UNCHANGED budget
  PROVE  Inv' /\ Kept
<1>1. CASE AskFlush
  <2> DEFINE m == [kind |-> "flush", view |-> NoView, flush |-> request']
             ms == <<m>>
  <2>1. request' \in Flush /\ alive
    BY <1>1, Spends DEF AskFlush, Flush
  <2>2. Letter(m) /\ m.kind \notin Showing /\ m \in Message
    BY <2>1, LetterFacts DEF Letter
  <2>3. inbox' = Append(inbox, m) /\ inbox \in Seq(Message)
    BY <1>1 DEF AskFlush, Inv, TypeOK
  <2> HIDE DEF m
  <2>4. inbox' = inbox \o ms /\ ms \in Seq(Message)
    BY <2>2, <2>3, AppendIsConcat
  <2>5. \A k \in DOMAIN ms : Letter(ms[k]) /\ ms[k].kind \notin Showing
    BY <2>2
  <2>6. Tell(ms)
    BY <2>1, <2>4 DEF Tell
  <2> HIDE DEF ms
  <2>7. /\ inbox' \in Seq(Message) /\ (\A k \in DOMAIN inbox' : Letter(inbox'[k]))
        /\ Current(inbox', ui.snap, sent)
    BY <2>1, <2>4, <2>5, <2>6, Told
  <2>8. TypeOK'
    BY <1>1, <2>1, <2>7, Spends DEF AskFlush, Inv, TypeOK, Counts, main
  <2>9. Whole'
    BY <1>1, <2>7 DEF AskFlush, Inv, Whole, Working, main
  <2>10. QED
    BY <1>1, <2>8, <2>9 DEF AskFlush, Inv, Kept
<1>2. CASE FlushTimeout
  <2>1. TypeOK'
    BY <1>2 DEF FlushTimeout, Inv, TypeOK, main
  <2>2. Whole'
    BY <1>2 DEF FlushTimeout, Inv, Whole, Working, main
  <2>3. QED
    BY <1>2, <2>1, <2>2 DEF FlushTimeout, Inv, Kept
<1>3. QED
  BY <1>1, <1>2
-----------------------------------------------------------------------------
(* The end of a renderer, a new one, and what other programs do.           *)

LEMMA BlankSound == Sound(Blank) /\ Blank \in Pane /\ ~Blank.dirty
<1>1. Blank \in Pane
  BY Drafts, EmptySeq DEF Blank, Pane, MaybeText
<1>2. /\ Blank.text = Absent /\ Blank.loaded = NoNote /\ Blank.snap = NoView /\ ~Blank.dirty
      /\ Blank.pending = NoNote /\ Blank.queue = <<>> /\ Blank.save = NoSave
      /\ Blank.restore = "none"
  BY DEF Blank
<1>3. Document(Blank) /\ Storing(Blank) /\ Holding(Blank)
  BY <1>2, Drafts DEF Document, Shown, NoteOrNone, Storing, Holding, Saving
<1>4. Clean(Blank) /\ Agrees(Blank)
  BY <1>2, Drafts DEF Clean, Agrees, Note, NoNote, NoView
<1>5. QED
  BY <1>1, <1>2, <1>3, <1>4 DEF Sound, Fit

\* A renderer that is gone.
LEMMA GoneTask ==
  ASSUME Inv, RendererGone, LastOperation, UNCHANGED <<active, sent, budget>>,
         disk' \in [Path -> MaybeText], done' \subseteq Text, spent' \in [Counts -> Nat],
         job' = job \/ job' = NoJob
  PROVE  Inv' /\ Kept
<1>1. draft' \in RealDraft \cup {NoDraft}
  <2>1. CASE UNCHANGED draft
    BY <2>1 DEF Inv, Whole
  <2>2. CASE ui.queue # <<>> /\ draft' = Stored(Head(ui.queue))
    BY <2>2, Storage
  <2>3. QED
    BY <2>1, <2>2 DEF LastOperation
<1>2. Sound(ui') /\ ui' \in Pane
  BY BlankSound DEF RendererGone
<1>3. job' \in Job /\ Working'
  BY DEF Inv, TypeOK, Whole, Working, NoJob, Job, MaybePath, MaybeText
<1>4. TypeOK'
  <2>1. draft' \in Draft
    BY <1>1, Drafts
  <2>2. QED
    BY <1>2, <1>3, <2>1, EmptySeq DEF RendererGone, Inv, TypeOK, Counts
<1>5. Whole'
  <2>1. \A k \in DOMAIN inbox' : Letter(inbox'[k])
    BY DEF RendererGone
  <2>2. QED
    BY <1>1, <1>2, <1>3, <2>1 DEF RendererGone, Inv, Whole
<1>6. QED
  BY <1>4, <1>5 DEF Inv, Kept, RendererGone

LEMMA CrashSteps ==
  ASSUME Inv, RendererCrash \/ ApplicationCrash, UNCHANGED budget
  PROVE  Inv' /\ Kept
<1>1. CASE RendererCrash
  BY <1>1, GoneTask, Spends DEF RendererCrash, Inv, TypeOK
<1>2. CASE ApplicationCrash
  <2>1. disk' \in [Path -> MaybeText] /\ done' \subseteq Text
    BY <1>2, KernelWriteFacts DEF ApplicationCrash, Inv, TypeOK
  <2>2. QED
    BY <1>2, <2>1, GoneTask, Spends DEF ApplicationCrash
<1>3. QED
  BY <1>1, <1>2

LEMMA TakeAnswerStep ==
  ASSUME Inv, NEW a \in answers, TakeAnswer(a), UNCHANGED budget
  PROVE  Inv' /\ Kept
<1>1. CASE a.flush = request /\ a.ok
  BY <1>1, GoneTask, Spends DEF TakeAnswer, Inv, TypeOK
<1>2. CASE ~(a.flush = request /\ a.ok)
  <2>1. /\ request' = (IF a.flush = request THEN 0 ELSE request)
        /\ answers' = answers \ {a}
        /\ UNCHANGED <<draft, inbox, alive, ui, disk, active, sent, job, done, spent>>
    BY <1>2 DEF TakeAnswer
  <2>2. TypeOK'
    BY <2>1 DEF Inv, TypeOK
  <2>3. Whole'
    BY <2>1 DEF Inv, Whole, Working
  <2>4. QED
    BY <2>1, <2>2, <2>3 DEF Inv, Kept
<1>3. QED
  BY <1>1, <1>2

LEMMA BootStep ==
  ASSUME Inv, NEW v, Boot(v), UNCHANGED budget
  PROVE  Inv' /\ Kept
<1>1. v \in Shown /\ v.path \in MaybePath /\ v \in View
  BY ViewsShown DEF Boot
<1> DEFINE u == Render(Blank, v)
<1>2. Sound(u) /\ u.snap = v
  BY <1>1, BlankSound, RenderSound DEF Sound
<1>3. ui' = [u EXCEPT !.restore = "asked"]
  BY DEF Boot
<1> HIDE DEF u
<1>4. ui' \in Pane /\ SameDocument(u, ui') /\ ui'.queue = u.queue /\ ui'.save = u.save
      /\ ui'.restore = "asked"
  BY <1>2, <1>3 DEF Sound, Fit, Pane, SameDocument
<1>5. Same(u, ui')
  BY <1>2, <1>4 DEF Same, Sound, Fit, Storing, Holding, Saving
<1>6. Sound(ui') /\ ui'.snap = v
  BY <1>2, <1>5, SoundSame
<1>7. inbox = <<>> /\ ~alive
  BY DEF Boot, Inv, Whole
<1>8. Current(inbox, v, v)
  BY <1>7 DEF Current
<1>9. TypeOK'
  BY <1>1, <1>4 DEF Boot, Inv, TypeOK
<1>10. Whole'
  BY <1>1, <1>6, <1>7, <1>8 DEF Boot, Inv, Whole, Working
<1>11. QED
  BY <1>7, <1>9, <1>10 DEF Inv, Kept

LEMMA RestoreAskSteps ==
  ASSUME Inv, LoadDraft \/ GiveUpRestore, UNCHANGED budget
  PROVE  Inv' /\ Kept
<1>1. Fit(ui) /\ ui \in Pane
  BY DEF Inv, Whole, Sound, Fit
<1>2. ASSUME NEW s, NEW f \in Draft, ui' = [ui EXCEPT !.restore = s, !.found = f],
             s \in {"none", "asked", "found"}, s = "found" => f \in RealDraft
      PROVE  Same(ui, ui')
  <2>1. ui' \in Pane /\ SameDocument(ui, ui') /\ ui'.queue = ui.queue /\ ui'.save = ui.save
        /\ ui'.restore = s /\ ui'.found = f
    BY <1>1, <1>2 DEF Pane, SameDocument
  <2>2. QED
    BY <1>1, <1>2, <2>1 DEF Same, Fit, Storing, Holding, Saving
<1>3. CASE LoadDraft
  <2> DEFINE s == IF draft = NoDraft THEN "none" ELSE "found"
  <2>1. ui' = [ui EXCEPT !.restore = s, !.found = draft]
    BY <1>3 DEF LoadDraft
  <2>2. draft \in Draft /\ s \in {"none", "asked", "found"} /\ (s = "found" => draft \in RealDraft)
    BY DEF Inv, TypeOK, Whole
  <2> HIDE DEF s
  <2>3. Same(ui, ui')
    BY <1>2, <2>1, <2>2
  <2>4. QED
    BY <1>3, <2>3, SameTask, Spends DEF LoadDraft
<1>4. CASE GiveUpRestore
  <2> DEFINE s == "none"
  <2>1. ui' = [ui EXCEPT !.restore = s, !.found = NoDraft]
    BY <1>4 DEF GiveUpRestore
  <2>2. NoDraft \in Draft /\ s \in {"none", "asked", "found"} /\ s # "found"
    BY Drafts
  <2> HIDE DEF s
  <2>3. Same(ui, ui')
    BY <1>2, <2>1, <2>2
  <2>4. QED
    BY <1>4, <2>3, SameTask, Spends DEF GiveUpRestore
<1>5. QED
  BY <1>3, <1>4

LEMMA RestoreHereStep ==
  ASSUME Inv, RestoreHere, UNCHANGED budget
  PROVE  Inv' /\ Kept
<1> DEFINE v == IF ui.snap.path = ui.found.path THEN ui.snap ELSE NoView
           d == ui.found
<1>1. Sound(ui) /\ d \in RealDraft /\ v \in Shown
  <2>1. Sound(ui) /\ Fit(ui) /\ ui.restore = "found"
    BY DEF RestoreHere, Restorable, Inv, Whole, Sound
  <2>2. d \in RealDraft /\ ui.snap \in Shown
    BY <2>1 DEF Fit, Holding, Document
  <2>3. QED
    BY <2>1, <2>2 DEF Shown
<1>2. ui' = Recovered(ui, d, v) /\ DraftSettled(v) /\ ~ui.dirty
      /\ UNCHANGED <<main, inbox, request, answers, alive, spent>>
  BY DEF RestoreHere, Restorable
<1>3. d.text \in Text
  BY <1>1 DEF RealDraft
<1>4. done' \subseteq Text
  BY <1>2, <1>3 DEF DraftSettled, Inv, TypeOK
<1> HIDE DEF v, d
<1>5. Sound(ui') /\ ui'.snap = ui.snap
  BY <1>1, <1>2, RecoveredSound
<1>6. request' \in Flush \cup {0} /\ answers' \subseteq [flush : Flush, ok : BOOLEAN]
      /\ spent' \in [Counts -> Nat]
  BY <1>2, Spends DEF Inv, TypeOK
<1>7. QED
  BY <1>2, <1>4, <1>5, <1>6, PaneTask DEF Kept

LEMMA RestoreElsewhereStep ==
  ASSUME Inv, RestoreElsewhere, UNCHANGED budget
  PROVE  Inv' /\ Kept
<1> DEFINE p == ui.found.path
           v == [path |-> p, content |-> disk[p]]
           d == ui.found
           r == Render(ui, v)
<1>1. Sound(ui) /\ d \in RealDraft
  <2>1. Sound(ui) /\ Fit(ui) /\ ui.restore = "found"
    BY DEF RestoreElsewhere, Restorable, Inv, Whole, Sound
  <2>2. QED
    BY <2>1 DEF Fit, Holding
<1>2. /\ ui' = Recovered(r, d, v) /\ DraftSettled(v) /\ ~ui.dirty /\ inbox = <<>> /\ alive
      /\ active' = p /\ sent' = v /\ v.content # Absent
      /\ UNCHANGED <<disk, draft, job, inbox, request, answers, alive, spent>>
  BY DEF RestoreElsewhere, Restorable
<1>3. d.text \in Text /\ p \in Path
  BY <1>1 DEF RealDraft
<1>4. v \in RealView
  BY <1>2, <1>3 DEF RealView, Inv, TypeOK, MaybeText
<1>5. done' \subseteq Text
  BY <1>2, <1>3 DEF DraftSettled, Inv, TypeOK
<1> HIDE DEF v, d, p
<1>6. v \in Shown
  BY <1>4 DEF Shown
<1>7. Sound(r) /\ r.snap = v
  BY <1>1, <1>6, RenderSound DEF Sound
<1> HIDE DEF r
<1>8. Sound(ui') /\ ui'.snap = v
  BY <1>1, <1>2, <1>6, <1>7, RecoveredSound
<1>9. Current(inbox, v, v)
  BY <1>2 DEF Current
<1>10. TypeOK'
  <2>1. p \in MaybePath /\ v \in View
    BY <1>3, <1>6, Drafts DEF Shown, MaybePath
  <2>2. QED
    BY <1>2, <1>5, <1>8, <2>1 DEF Inv, TypeOK, Sound, Fit
<1>11. Whole'
  BY <1>2, <1>6, <1>8, <1>9 DEF Inv, Whole, Working
<1>12. QED
  BY <1>2, <1>10, <1>11 DEF Inv, Kept

LEMMA ExternalSteps ==
  ASSUME Inv, ExternalDelete \/ \E p \in Path, t \in Text : ExternalSave(p, t), UNCHANGED budget
  PROVE  Inv' /\ Kept
<1>1. External /\ disk' \in [Path -> MaybeText]
  BY DEF ExternalDelete, ExternalSave, Inv, TypeOK, MaybeText
<1>2. TypeOK'
  BY <1>1, Spends DEF External, Inv, TypeOK, Counts
<1>3. Whole'
  BY <1>1 DEF External, Inv, Whole, Working
<1>4. QED
  BY <1>1, <1>2, <1>3 DEF Inv, Kept, External
-----------------------------------------------------------------------------
LEMMA InitInv == Init => Inv
<1> SUFFICES ASSUME NEW t \in Text,
      /\ disk = [p \in Path |-> IF p = 0 THEN t ELSE Absent]
      /\ draft = NoDraft
      /\ active = 0 /\ sent = [path |-> 0, content |-> t]
      /\ job = NoJob /\ inbox = <<>> /\ request = 0 /\ answers = {}
      /\ alive = TRUE
      /\ ui = Render(Blank, sent)
      /\ done = {}
      /\ budget \in Budgets
      /\ spent = [edit |-> 0, external |-> 0, crash |-> 0, fault |-> 0, flush |-> 0,
                  close |-> 0]
    PROVE Inv
  BY DEF Init
<1>1. sent \in Shown /\ sent \in View /\ active \in MaybePath
  <2>1. 0 \in Path
    BY Bounds DEF Path
  <2>2. sent \in RealView
    BY <2>1 DEF RealView
  <2>3. QED
    BY <2>1, <2>2, Drafts DEF Shown, MaybePath
<1>2. Sound(ui) /\ ui.snap = sent
  BY <1>1, BlankSound, RenderSound DEF Sound
<1>3. Current(inbox, ui.snap, sent)
  BY <1>2 DEF Current
<1>4. spent \in [Counts -> Nat]
  BY DEF Counts
<1>5. NoJob \in Job /\ NoJob.step = "none" /\ NoDraft \in Draft
  BY Drafts DEF NoJob, Job, MaybePath, MaybeText
<1>6. TypeOK
  BY <1>1, <1>2, <1>4, <1>5, EmptySeq DEF TypeOK, Sound, Fit, Counts, MaybeText
<1>7. Whole
  BY <1>1, <1>2, <1>3, <1>5 DEF Whole, Working
<1>8. QED
  BY <1>6, <1>7 DEF Inv

LEMMA StepInv ==
  ASSUME Inv, [Next]_vars
  PROVE  Inv' /\ Kept
<1>1. CASE Next
  <2>0. UNCHANGED budget
    BY <1>1 DEF Next
  <2>1. CASE Tasks
    <3>1. ASSUME DraftStored PROVE Inv' /\ Kept
      <4> DEFINE f == FALSE
      <4>1. f \in BOOLEAN /\ DraftOperation(f) /\ spent' \in [Counts -> Nat]
        BY <3>1, Spends DEF DraftStored
      <4> HIDE DEF f
      <4>2. QED
        BY <2>0, <4>1, DraftStep
    <3>2. QED
      BY <2>0, <2>1, <3>1, TimerSteps, SendSaveStep, ReceiveSteps, RestoreAskSteps, RestoreHereStep,
         RestoreElsewhereStep DEF Tasks
  <2>2. CASE Service
    BY <2>0, <2>2, KernelWriteStep, PublishStep, NotifyStep, BootStep, TakeAnswerStep DEF Service
  <2>3. CASE World
    <3>1. ASSUME DraftFails PROVE Inv' /\ Kept
      <4> DEFINE f == TRUE
      <4>1. f \in BOOLEAN /\ DraftOperation(f) /\ spent' \in [Counts -> Nat]
        BY <3>1, Spends DEF DraftFails
      <4> HIDE DEF f
      <4>2. QED
        BY <2>0, <4>1, DraftStep
    <3>2. QED
      BY <2>0, <2>3, <3>1, EditStep, KernelFailsStep, FlushSteps, CrashSteps, ExternalSteps DEF World
  <2>4. QED
    BY <1>1, <2>1, <2>2, <2>3 DEF Next
<1>2. CASE UNCHANGED vars
  <2>1. UNCHANGED <<main, inbox, request, answers, alive, ui, done, spent, budget>>
    BY <1>2 DEF vars, moving
  <2>2. TypeOK'
    BY <2>1 DEF Inv, TypeOK, main
  <2>3. Whole'
    BY <2>1 DEF Inv, Whole, Working, main
  <2>4. QED
    BY <2>1, <2>2, <2>3 DEF Inv, Kept
<1>3. QED
  BY <1>1, <1>2

LEMMA AlwaysInv == Spec => []Inv
<1>1. Inv /\ [Next]_vars => Inv'
  BY StepInv
<1>2. QED
  BY InitInv, <1>1, PTL DEF Spec

\* The kinds of what the session keeps: in every state each variable holds
\* what its declaration says, and every message, draft and save is complete.
THEOREM TypeCorrect == Spec => []TypeOK
<1>1. Inv => TypeOK
  BY DEF Inv
<1>2. QED
  BY AlwaysInv, <1>1, PTL

\* A dirty text never leaves the editor by a snapshot, a recovery or a reply:
\* only the user replaces it, or the writer has it.
THEOREM TextAlwaysKept == Spec => TextKept
<1>1. Inv /\ [Next]_vars =>
        [alive /\ alive' /\ ui.dirty /\ ui.mine /\ ui'.text # ui.text => ui.text \in done']_vars
  BY StepInv DEF Kept
<1>2. QED
  BY AlwaysInv, <1>1, PTL DEF Spec, TextKept

\* Once nothing is under way, a clean editor shows what was published last.
THEOREM AlwaysShowsDisk == Spec => []ShowsDisk
<1>1. Inv => ShowsDisk
  <2> SUFFICES ASSUME Inv, Quiet PROVE ui.text = sent.content /\ ui.loaded.path = sent.path
    BY DEF ShowsDisk
  <2>1. alive /\ ~ui.dirty /\ inbox = <<>> /\ Current(inbox, ui.snap, sent) /\ Sound(ui)
    BY DEF Quiet, Inv, Whole
  <2>2. ui.snap = sent
    BY <2>1 DEF Current
  <2>3. ui.text = ui.loaded.rev /\ ui.loaded = Note(sent)
    BY <2>1, <2>2 DEF Sound, Clean, Agrees
  <2>4. QED
    BY <2>3 DEF Note
<1>2. QED
  BY AlwaysInv, <1>1, PTL
-----------------------------------------------------------------------------
(* Drafts and counts, through the functions of the renderer.               *)

\* The draft a pane would store now.
Mine(u) == [id |-> u.draftId, path |-> u.loaded.path, base |-> u.loaded.rev, text |-> u.text]
\* A draft of the pane's text is the last operation of its queue.
LastIs(u) == u.queue # <<>> /\ u.queue[Len(u.queue)] = [op |-> "save", draft |-> Mine(u)]

\* What an operator leaves of the drafts and the counts of a pane.
SameDrafts(u, w) == w.draftTimer = u.draftTimer /\ w.draftId = u.draftId
SameCounts(u, w) == w.version = u.version /\ w.persisted = u.persisted

\* An edit that is counted leaves everything else.
LEMMA ChangedFields ==
  ASSUME NEW u, Fit(u)
  PROVE  LET w == Changed(u) IN
         /\ SameDocument(u, w) /\ SameWork(u, w) /\ SameDrafts(u, w)
         /\ w.persisted = u.persisted /\ w.version = u.version + 1 /\ Fit(w)
<1>1. LET w == Changed(u) IN SameDrafts(u, w) /\ w.persisted = u.persisted /\ w.version = u.version + 1
  BY DEF Changed, Fit, Pane, SameDrafts
<1> DEFINE w == Changed(u)
<1>2. Same(u, w) /\ SameWork(u, w)
  BY ChangedSame
<1> HIDE DEF w
<1>3. SameDocument(u, w) /\ Fit(w)
  BY <1>2, SameFit DEF Same
<1>4. QED
  BY <1>1, <1>2, <1>3 DEF w

\* A text that agrees with the vault is counted as written.
LEMMA SynchronizedFields ==
  ASSUME NEW u, Fit(u)
  PROVE  LET w == Synchronized(u) IN
         /\ SameDocument(u, w) /\ SameWork(u, w) /\ SameDrafts(u, w)
         /\ w.persisted = u.version /\ w.version = u.version /\ Fit(w)
<1>1. LET w == Synchronized(u) IN SameDrafts(u, w) /\ w.persisted = u.version /\ w.version = u.version
  BY DEF Synchronized, Fit, Pane, SameDrafts
<1> DEFINE w == Synchronized(u)
<1>2. Same(u, w) /\ SameWork(u, w)
  BY SynchronizedSame
<1> HIDE DEF w
<1>3. SameDocument(u, w) /\ Fit(w)
  BY <1>2, SameFit DEF Same
<1>4. QED
  BY <1>1, <1>2, <1>3 DEF w

\* A draft is scheduled for a dirty text, and for no other.
LEMMA ScheduleDraftFields ==
  ASSUME NEW u, Fit(u)
  PROVE  LET w == ScheduleDraft(u) IN
         /\ SameDocument(u, w) /\ SameWork(u, w) /\ SameCounts(u, w)
         /\ w.draftTimer = u.dirty /\ w.draftId = u.draftId /\ Fit(w)
<1>0. u.dirty \in BOOLEAN /\ (u.dirty => HasNote(u))
  BY DirtyHasNote
<1>1. ScheduleDraft(u) = [u EXCEPT !.draftTimer = u.dirty]
  BY <1>0 DEF ScheduleDraft
<1>2. LET w == ScheduleDraft(u) IN
      SameCounts(u, w) /\ w.draftTimer = u.dirty /\ w.draftId = u.draftId
  BY <1>1 DEF Fit, Pane, SameCounts
<1> DEFINE w == ScheduleDraft(u)
<1>3. Same(u, w) /\ SameWork(u, w)
  BY ScheduleDraftSame
<1> HIDE DEF w
<1>4. SameDocument(u, w) /\ Fit(w)
  BY <1>3, SameFit DEF Same
<1>5. QED
  BY <1>2, <1>3, <1>4 DEF w

\* A replaced document gives its draft up and starts the counts anew.
LEMMA ReplaceFields ==
  ASSUME NEW u, Fit(u), NEW n \in Loaded
  PROVE  LET w == Replace(u, n) IN
         /\ w.draftTimer = u.draftTimer /\ w.draftId = 0 /\ w.version = 0 /\ w.persisted = 0
<1> DEFINE t == n.content
           f == FALSE
           a == SetDocument(u, n, t, f, NoNote, f)
           w == [a EXCEPT !.draftId = 0, !.mine = FALSE, !.timer = FALSE, !.version = 0,
                          !.persisted = 0]
<1>1. t \in MaybeText /\ NoNote \in Loaded /\ f \in BOOLEAN
  BY Drafts DEF Loaded
<1>2. Replace(u, n) = w
  BY DEF Replace, ResetAutosave, Fit, Pane, SetDocument, t, f
<1>3. a.draftTimer = u.draftTimer
  BY DEF SetDocument, Fit, Pane
<1> HIDE DEF t, f
<1>4. a \in Pane
  BY <1>1, DocumentSet DEF Fit
<1> HIDE DEF a
<1>5. w.draftTimer = a.draftTimer /\ w.draftId = 0 /\ w.version = 0 /\ w.persisted = 0
  BY <1>4 DEF Pane
<1>6. QED
  BY <1>2, <1>3, <1>5

\* A pane that adopts a revision keeps its text and its draft.
LEMMA AdoptFields ==
  ASSUME NEW u, Fit(u), NEW v \in RealView, HasNote(u)
  PROVE  LET w == Adopt(u, Note(v)) IN
         /\ SameWork(u, w) /\ w.draftId = u.draftId /\ w.snap = u.snap
         /\ w.text = u.text /\ w.loaded = Note(v) /\ w.changed = FALSE
         /\ w.dirty <=> u.text # v.content
         /\ w.dirty => w.draftTimer /\ w.version = u.version + 1 /\ w.persisted = u.persisted
         /\ ~w.dirty => w.version = u.version /\ w.persisted = u.version
                        /\ w.draftTimer = u.draftTimer
<1> DEFINE n == Note(v)
           d == u.text # n.content
           f == FALSE
           a == SetDocument(u, n, u.text, d, NoNote, f)
           w == Adopt(u, n)
<1>1. /\ n \in RealNote /\ n \in Opened /\ n \in Loaded /\ n.content = v.content
      /\ f \in BOOLEAN /\ d \in BOOLEAN /\ NoNote \in Loaded /\ u.text \in Text /\ u.text \in MaybeText
      /\ u \in Pane
  BY Notes, Drafts, DirtyHasNote DEF Shown, Fit, MaybeText
<1>2. w = IF a.dirty THEN Changed(ScheduleDraft(a)) ELSE Synchronized(a)
  BY DEF Adopt, SetDocument, Fit, Pane
<1> HIDE DEF n
<1>3. d <=> u.text # n.content
  OBVIOUS
<1>3a. a.draftTimer = u.draftTimer /\ a.draftId = u.draftId /\ a.version = u.version
       /\ a.persisted = u.persisted
  BY DEF SetDocument, Fit, Pane
<1> HIDE DEF d, f
<1>4. /\ a \in Pane /\ SameWork(u, a)
      /\ a.text = u.text /\ a.loaded = n /\ a.dirty = d /\ a.pending = NoNote /\ a.changed = f
      /\ a.snap = u.snap
  BY <1>1, DocumentSet
<1> HIDE DEF a, w
<1>5. Document(a)
  BY <1>1, <1>4 DEF Fit, Document, NoteOrNone
<1>6. Fit(a)
  BY <1>4, <1>5, NewDocument
<1>7. CASE d
  <2> DEFINE s == ScheduleDraft(a)
  <2>1. /\ SameDocument(a, s) /\ SameWork(a, s) /\ SameCounts(a, s)
        /\ s.draftTimer = a.dirty /\ s.draftId = a.draftId /\ Fit(s)
    BY <1>6, ScheduleDraftFields
  <2>2. w = Changed(s)
    BY <1>2, <1>4, <1>7
  <2> HIDE DEF s
  <2>3. /\ SameDocument(s, w) /\ SameWork(s, w) /\ SameDrafts(s, w)
        /\ w.persisted = s.persisted /\ w.version = s.version + 1
    BY <2>1, <2>2, ChangedFields
  <2>4. QED
    BY <1>1, <1>3, <1>3a, <1>4, <1>7, <2>1, <2>3
       DEF SameDocument, SameWork, SameCounts, SameDrafts, w, f, n
<1>8. CASE ~d
  <2>1. /\ SameDocument(a, w) /\ SameWork(a, w) /\ SameDrafts(a, w)
        /\ w.persisted = a.version /\ w.version = a.version
    BY <1>2, <1>4, <1>6, <1>8, SynchronizedFields
  <2>2. QED
    BY <1>1, <1>3, <1>3a, <1>4, <1>8, <2>1 DEF SameDocument, SameWork, SameDrafts, w, f, n
<1>9. QED
  BY <1>7, <1>8

\* The four things a pane does with a snapshot.
IsShown(u, v) == u.loaded.path = v.path /\ u.loaded.rev = v.content
Own(u, v) == Saving(u) /\ u.save.content = v.content
PutOff(u, v, w) ==
  /\ u.dirty /\ w.dirty /\ w.changed /\ w.text = u.text /\ w.loaded = u.loaded
  /\ SameDrafts(u, w) /\ SameCounts(u, w)
  /\ v.path = Absent \/ (~IsShown(u, v) /\ ~Own(u, v))
Confirmed(u, v, w) ==
  /\ v.path # Absent /\ HasNote(u) /\ IsShown(u, v)
  /\ w.text = u.text /\ w.dirty = u.dirty /\ w.changed = u.changed /\ w.loaded = Note(v)
  /\ SameDrafts(u, w) /\ SameCounts(u, w)
Adopted(u, v, w) ==
  /\ v.path # Absent /\ HasNote(u) /\ Own(u, v)
  /\ w.draftId = u.draftId /\ w.text = u.text /\ w.loaded = Note(v) /\ w.changed = FALSE
  /\ w.dirty <=> u.text # v.content
  /\ w.dirty => w.draftTimer /\ w.version = u.version + 1 /\ w.persisted = u.persisted
  /\ ~w.dirty => w.version = u.version /\ w.persisted = u.version /\ w.draftTimer = u.draftTimer
Replaced(u, v, w) ==
  /\ ~u.dirty /\ ~w.dirty /\ w.loaded = Note(v) /\ w.changed = FALSE
  /\ w.draftId = 0 /\ w.draftTimer = u.draftTimer /\ w.version = 0 /\ w.persisted = 0
  /\ v.path = Absent \/ ~HasNote(u) \/ (~IsShown(u, v) /\ ~Own(u, v))
Taken(u, v, w) ==
  PutOff(u, v, w) \/ Confirmed(u, v, w) \/ Adopted(u, v, w) \/ Replaced(u, v, w)

\* A snapshot is put off, confirmed, adopted, or replaces the document.
LEMMA ReconcileFields ==
  ASSUME NEW u, Fit(u), NEW v \in Shown
  PROVE  LET w == Reconcile(u, v) IN SameWork(u, w) /\ w.snap = u.snap /\ Taken(u, v, w)
<1> DEFINE w == Reconcile(u, v)
           Goal == SameWork(u, w) /\ w.snap = u.snap /\ Taken(u, v, w)
<1> USE DirtyHasNote, Notes
<1>0. u \in Pane
  BY DEF Fit
<1>1. ASSUME NEW p, u.dirty, w = [u EXCEPT !.pending = p, !.changed = TRUE],
             v.path = Absent \/ (~IsShown(u, v) /\ ~Own(u, v))
      PROVE  Goal
  <2>1. SameWork(u, w) /\ w.snap = u.snap /\ PutOff(u, v, w)
    <3> HIDE DEF w
    <3>1. QED
      BY <1>0, <1>1 DEF Pane, SameWork, PutOff, SameDrafts, SameCounts
  <2>2. QED
    BY <2>1 DEF Taken
<1>2. ASSUME NEW n, n = Note(v), w = Replace(u, n), ~u.dirty,
             v.path = Absent \/ ~HasNote(u) \/ (~IsShown(u, v) /\ ~Own(u, v))
      PROVE  Goal
  <2>1. n \in Loaded
    BY <1>2, Drafts DEF NoteOrNone
  <2>2. /\ SameWork(u, w) /\ w.snap = u.snap /\ w.loaded = n /\ w.dirty = FALSE /\ w.changed = FALSE
        /\ w.draftTimer = u.draftTimer /\ w.draftId = 0 /\ w.version = 0 /\ w.persisted = 0
    <3> DEFINE r == Replace(u, n)
    <3>1. /\ SameWork(u, r) /\ r.snap = u.snap /\ r.loaded = n /\ r.dirty = FALSE /\ r.changed = FALSE
      BY <1>0, <2>1, Replacing
    <3>2. r.draftTimer = u.draftTimer /\ r.draftId = 0 /\ r.version = 0 /\ r.persisted = 0
      BY <2>1, ReplaceFields
    <3> HIDE DEF r
    <3>3. r = w
      BY <1>2 DEF r
    <3> HIDE DEF w
    <3>4. QED
      BY <3>1, <3>2, <3>3
  <2> HIDE DEF w
  <2>3. QED
    BY <1>2, <2>2 DEF Taken, Replaced
<1>3. CASE v.path = Absent
  <2>1. CASE u.dirty
    <3>1. w = [u EXCEPT !.pending = NoNote, !.changed = TRUE]
      BY <1>3, <2>1 DEF Reconcile
    <3> HIDE DEF w
    <3>2. QED
      BY <1>1, <1>3, <2>1, <3>1 DEF w
  <2>2. CASE ~u.dirty
    <3>1. w = Replace(u, NoNote) /\ Note(v) = NoNote
      BY <1>3, <2>2 DEF Reconcile
    <3> HIDE DEF w
    <3>2. QED
      BY <1>2, <1>3, <2>2, <3>1 DEF w
  <2>3. QED
    BY <2>1, <2>2
<1>4. CASE v.path # Absent /\ ~HasNote(u)
  <2>1. w = Replace(u, Note(v)) /\ ~u.dirty
    BY <1>4 DEF Reconcile
  <2> HIDE DEF w
  <2>2. QED
    BY <1>2, <1>4, <2>1 DEF w
<1>5. CASE v.path # Absent /\ HasNote(u)
  <2>0. v \in RealView /\ Note(v) \in RealNote /\ Note(v) \in NoteOrNone
    BY <1>5
  <2>1. w = IF IsShown(u, v) THEN [u EXCEPT !.loaded = Note(v)]
            ELSE IF Own(u, v) THEN Adopt(u, Note(v))
            ELSE IF Keeps(u) THEN [u EXCEPT !.pending = Note(v), !.changed = TRUE]
            ELSE Replace(u, Note(v))
    BY <1>5 DEF Reconcile, IsShown, Own
  <2> HIDE DEF w
  <2>2. CASE IsShown(u, v)
    <3> DEFINE n == Note(v)
    <3>1. w = [u EXCEPT !.loaded = n]
      BY <2>1, <2>2
    <3> HIDE DEF n
    <3>2. SameWork(u, w) /\ w.text = u.text /\ w.loaded = n /\ w.dirty = u.dirty
          /\ w.changed = u.changed /\ w.snap = u.snap /\ SameDrafts(u, w) /\ SameCounts(u, w)
      BY <1>0, <3>1 DEF Pane, SameWork, SameDrafts, SameCounts
    <3>3. QED
      BY <1>5, <2>2, <3>2 DEF Taken, Confirmed, n, w
  <2>3. CASE ~IsShown(u, v) /\ Own(u, v)
    <3>1. w = Adopt(u, Note(v))
      BY <2>1, <2>3
    <3> DEFINE r == Adopt(u, Note(v))
    <3>2. SameWork(u, r) /\ r.snap = u.snap /\ Adopted(u, v, r)
      <4>1. /\ SameWork(u, r) /\ r.draftId = u.draftId /\ r.snap = u.snap
            /\ r.text = u.text /\ r.loaded = Note(v) /\ r.changed = FALSE
            /\ r.dirty <=> u.text # v.content
            /\ r.dirty => r.draftTimer /\ r.version = u.version + 1 /\ r.persisted = u.persisted
            /\ ~r.dirty => r.version = u.version /\ r.persisted = u.version
                           /\ r.draftTimer = u.draftTimer
        BY <1>5, <2>0, AdoptFields
      <4> HIDE DEF r
      <4>2. QED
        BY <1>5, <2>3, <4>1 DEF Adopted
    <3>3. QED
      BY <3>1, <3>2 DEF Taken, w
  <2>4. CASE ~IsShown(u, v) /\ ~Own(u, v)
    <3>1. CASE u.dirty
      <4>1. w = [u EXCEPT !.pending = Note(v), !.changed = TRUE]
        BY <2>1, <2>4, <3>1
      <4>2. QED
        BY <1>1, <2>4, <3>1, <4>1 DEF w
    <3>2. CASE ~u.dirty
      <4>1. w = Replace(u, Note(v))
        BY <2>1, <2>4, <3>2
      <4>2. QED
        BY <1>2, <2>4, <3>2, <4>1 DEF w
    <3>3. QED
      BY <3>1, <3>2
  <2>5. QED
    BY <2>2, <2>3, <2>4
<1>6. QED
  BY <1>3, <1>4, <1>5

\* The same with the snapshot remembered as the last one shown.
LEMMA RenderFields ==
  ASSUME NEW u, Fit(u), NEW v \in Shown
  PROVE  LET w == Render(u, v) IN SameWork(u, w) /\ w.snap = v /\ Taken(u, v, w)
<1> DEFINE a == [u EXCEPT !.snap = v]
           w == Render(u, v)
<1>1. v \in View
  BY Drafts DEF Shown
<1>2. a \in Pane /\ SameWork(u, a) /\ a.text = u.text /\ a.loaded = u.loaded /\ a.dirty = u.dirty
      /\ a.pending = u.pending /\ a.snap = v /\ a.changed = u.changed
      /\ SameDrafts(u, a) /\ SameCounts(u, a)
  BY <1>1 DEF Fit, Pane, SameWork, SameDrafts, SameCounts
<1>3. w = Reconcile(a, v)
  BY DEF Render
<1> HIDE DEF a
<1>4. Document(a)
  BY <1>2 DEF Fit, Document
<1>5. Fit(a)
  BY <1>2, <1>4, NewDocument
<1>6. SameWork(a, w) /\ w.snap = v /\ Taken(a, v, w)
  BY <1>2, <1>3, <1>5, ReconcileFields
<1> HIDE DEF w
<1>7. SameWork(u, w)
  BY <1>2, <1>6 DEF SameWork
<1>8. Saving(a) = Saving(u) /\ HasNote(a) = HasNote(u) /\ IsShown(a, v) = IsShown(u, v)
      /\ Own(a, v) = Own(u, v)
  BY <1>2 DEF SameWork, Saving, HasNote, IsShown, Own
<1>9. Taken(u, v, w)
  <2>1. CASE PutOff(a, v, w)
    BY <1>2, <1>8, <2>1 DEF Taken, PutOff, SameDrafts, SameCounts
  <2>2. CASE Confirmed(a, v, w)
    BY <1>2, <1>8, <2>2 DEF Taken, Confirmed, SameDrafts, SameCounts
  <2>3. CASE Adopted(a, v, w)
    BY <1>2, <1>8, <2>3 DEF Taken, Adopted, SameDrafts, SameCounts
  <2>4. CASE Replaced(a, v, w)
    BY <1>2, <1>8, <2>4 DEF Taken, Replaced, SameDrafts, SameCounts
  <2>5. QED
    BY <1>6, <2>1, <2>2, <2>3, <2>4 DEF Taken
<1>10. QED
  BY <1>6, <1>7, <1>9 DEF w

\* The queue of a pane with one more operation.
LEMMA Appended ==
  ASSUME NEW q \in Seq(DraftOp), NEW o \in DraftOp
  PROVE  LET r == Append(q, o) IN
         /\ r \in Seq(DraftOp) /\ r # <<>> /\ Len(r) = Len(q) + 1 /\ r[Len(r)] = o
         /\ DOMAIN q = 1 .. Len(q) /\ DOMAIN r = 1 .. Len(q) + 1 /\ Len(q) \in Nat
         /\ \A k \in DOMAIN q : r[k] = q[k]
BY AppendProperties, LenProperties, EmptySeq

\* The draft of a dirty text goes to the end of the queue; a clean text has none.
LEMMA PersistFields ==
  ASSUME NEW u, Fit(u)
  PROVE  LET w == PersistDraft(u) IN
         /\ SameDocument(u, w) /\ w.save = u.save /\ w.restore = u.restore /\ w.found = u.found
         /\ SameCounts(u, w) /\ ~w.draftTimer /\ Fit(w) /\ w.flushes = u.flushes
         /\ u.dirty => /\ w.draftId \in DraftId /\ (u.draftId # 0 => w.draftId = u.draftId)
                       /\ LastIs(w) /\ [op |-> "save", draft |-> Mine(w)] \in DraftOp
                       /\ w.queue = Append(u.queue, [op |-> "save", draft |-> Mine(w)])
         /\ ~u.dirty => w.queue = u.queue /\ w.draftId = u.draftId
<1> DEFINE w == PersistDraft(u)
<1>0. Same(u, w) /\ w.save = u.save
  BY PersistSame
<1>1. CASE u.dirty
  <2> DEFINE i == IF u.draftId = 0 THEN FreshId(u) ELSE u.draftId
             d == [id |-> i, path |-> u.loaded.path, base |-> u.loaded.rev, text |-> u.text]
             o == [op |-> "save", draft |-> d]
             q == Append(u.queue, o)
  <2>1. i \in DraftId
    BY FreshIds DEF Fit, Pane
  <2>2. u.loaded \in Opened /\ u.text \in Text /\ HasNote(u)
    BY <1>1, DirtyHasNote
  <2>3. d \in RealDraft
    <3> HIDE DEF i
    <3>1. QED
      BY <2>1, <2>2 DEF RealDraft, Opened
  <2>4. w = [u EXCEPT !.draftTimer = FALSE, !.draftId = i, !.queue = q]
    BY <1>1, <2>2 DEF PersistDraft, Fit, Pane
  <2>5. u.draftId # 0 => i = u.draftId
    OBVIOUS
  <2> HIDE DEF i
  <2>6. o \in DraftOp /\ u.queue \in Seq(DraftOp)
    BY <2>3, Drafts DEF DraftOp, Fit, Pane
  <2>7. q # <<>> /\ q[Len(q)] = o
    BY <2>6, Appended
  <2> HIDE DEF q, w
  <2>8. w.draftTimer = FALSE /\ w.draftId = i /\ w.queue = q /\ SameCounts(u, w)
        /\ w.restore = u.restore /\ w.found = u.found /\ w.flushes = u.flushes
    BY <2>4 DEF Fit, Pane, SameCounts
  <2>9. SameDocument(u, w) /\ Fit(w)
    BY <1>0, SameFit DEF Same
  <2>10. Mine(w) = d
    BY <2>8, <2>9 DEF Mine, SameDocument
  <2>11. QED
    BY <1>0, <1>1, <2>1, <2>5, <2>6, <2>7, <2>8, <2>9, <2>10 DEF LastIs, w, q
<1>2. CASE ~u.dirty
  <2>1. w = [u EXCEPT !.draftTimer = FALSE]
    BY <1>2 DEF PersistDraft
  <2> HIDE DEF w
  <2>2. w.draftTimer = FALSE /\ SameDrafts(u, [w EXCEPT !.draftTimer = u.draftTimer])
        /\ w.draftId = u.draftId /\ w.queue = u.queue /\ SameCounts(u, w)
        /\ w.restore = u.restore /\ w.found = u.found /\ w.flushes = u.flushes
    BY <2>1 DEF Fit, Pane, SameCounts, SameDrafts
  <2>3. SameDocument(u, w) /\ Fit(w)
    BY <1>0, SameFit DEF Same
  <2>4. QED
    BY <1>0, <1>2, <2>2, <2>3 DEF w
<1>3. QED
  BY <1>1, <1>2, DirtyHasNote

Clear(i) == [op |-> "clear", draft |-> [NoDraft EXCEPT !.id = i]]
SameTurn(u, w) == w.save = u.save /\ w.restore = u.restore /\ w.found = u.found /\ w.flushes = u.flushes

\* The removal of a draft goes to the end of the queue.
LEMMA ClearPersistedFields ==
  ASSUME NEW u, Fit(u), NEW i \in DraftId \cup {0}
  PROVE  LET w == ClearPersisted(u, i) IN
         /\ SameDocument(u, w) /\ SameTurn(u, w) /\ SameCounts(u, w) /\ SameDrafts(u, w)
         /\ Clear(i) \in DraftOp /\ w.queue = Append(u.queue, Clear(i)) /\ Fit(w)
<1> DEFINE w == ClearPersisted(u, i)
           q == Append(u.queue, Clear(i))
<1>1. w = [u EXCEPT !.queue = q]
  BY DEF ClearPersisted, Clear, Fit, Pane
<1>2. Same(u, w) /\ Fit(w)
  BY ClearSame, SameFit
<1> HIDE DEF q, w
<1>3. w.queue = q /\ SameTurn(u, w) /\ SameCounts(u, w) /\ SameDrafts(u, w)
  BY <1>1 DEF Fit, Pane, SameTurn, SameCounts, SameDrafts
<1>4. Clear(i) \in DraftOp
  BY DEF Clear, DraftOp, NoDraft, Draft, MaybePath, MaybeText
<1>5. QED
  BY <1>2, <1>3, <1>4 DEF Same, w, q

\* A draft that is called off is removed through the queue, if there is one.
LEMMA ClearFields ==
  ASSUME NEW u, Fit(u), HasNote(u)
  PROVE  LET w == ClearDraft(u) IN
         /\ SameDocument(u, w) /\ SameTurn(u, w) /\ SameCounts(u, w) /\ Fit(w)
         /\ w.draftTimer = FALSE /\ w.draftId = 0
         /\ u.draftId = 0 => w.queue = u.queue
         /\ u.draftId # 0 => Clear(u.draftId) \in DraftOp /\ w.queue = Append(u.queue, Clear(u.draftId))
<1> DEFINE off == [u EXCEPT !.draftTimer = FALSE, !.draftId = 0]
           w == ClearDraft(u)
           i == u.draftId
<1>0. i \in DraftId \cup {0}
  BY DEF Fit, Pane
<1>1. /\ off \in Pane /\ SameDocument(u, off) /\ SameWork(u, off) /\ SameTurn(u, off)
      /\ SameCounts(u, off) /\ off.draftTimer = FALSE /\ off.draftId = 0 /\ off.queue = u.queue
  BY DEF Fit, Pane, SameDocument, SameWork, SameTurn, SameCounts, DraftId
<1>2. w = IF i # 0 THEN ClearPersisted(off, i) ELSE off
  BY DEF ClearDraft
<1> HIDE DEF off, w, i
<1>3. Fit(off)
  BY <1>1, SameWorkFit, SameFit
<1>4. CASE i # 0
  <2> DEFINE c == ClearPersisted(off, i)
  <2>1. /\ SameDocument(off, c) /\ SameTurn(off, c) /\ SameCounts(off, c) /\ SameDrafts(off, c)
        /\ Clear(i) \in DraftOp /\ c.queue = Append(off.queue, Clear(i)) /\ Fit(c)
    BY <1>0, <1>3, ClearPersistedFields
  <2> HIDE DEF c
  <2>2. w = c
    BY <1>2, <1>4 DEF c
  <2>3. QED
    BY <1>1, <1>4, <2>1, <2>2 DEF SameDocument, SameTurn, SameCounts, SameDrafts, w, i
<1>5. CASE i = 0
  <2>1. w = off
    BY <1>2, <1>5
  <2>2. QED
    BY <1>1, <1>3, <1>5, <2>1 DEF w, i
<1>6. QED
  BY <1>4, <1>5

\* A save that is over counts as written what it carried.
LEMMA FinishFields ==
  ASSUME NEW u, Fit(u)
  PROVE  LET w == Finish(u) IN
         /\ SameDocument(u, w) /\ SameDrafts(u, w) /\ w.queue = u.queue /\ w.save = NoSave
         /\ w.restore = u.restore /\ w.found = u.found /\ w.flushes = u.flushes
         /\ w.version = u.version /\ w.persisted = Larger(u.persisted, u.save.version) /\ Fit(w)
<1> DEFINE n == Larger(u.persisted, u.save.version)
           f == [u EXCEPT !.persisted = n, !.save = NoSave]
           b == f.timer \/ Unpersisted(f)
           w == Finish(u)
<1>1. w = [f EXCEPT !.timer = b]
  BY DEF Finish
<1>2. Same(u, w) /\ Fit(w)
  BY FinishSame, SameFit
<1>3. SameDrafts(u, f) /\ f.queue = u.queue /\ f.save = NoSave
      /\ f.restore = u.restore /\ f.found = u.found /\ f.flushes = u.flushes
      /\ f.version = u.version /\ f.persisted = n
  BY DEF Fit, Pane, SameDrafts
<1>4. f \in Pane
  <2>1. n \in Nat
    BY DEF Fit, Pane, Save, Larger
  <2> HIDE DEF n
  <2>2. QED
    BY <2>1, Drafts DEF Fit, Pane
<1> HIDE DEF f, b, w, n
<1>5. SameDrafts(f, w) /\ w.queue = f.queue /\ w.save = f.save
      /\ w.restore = f.restore /\ w.found = f.found /\ w.flushes = f.flushes
      /\ w.version = f.version /\ w.persisted = f.persisted
  BY <1>1, <1>4 DEF Pane, SameDrafts
<1>6. QED
  BY <1>2, <1>3, <1>5 DEF Same, SameDrafts, w, n

\* A save takes the text, the revision and the version as they are.
SaveOf(u, s) ==
  /\ s.step = "draft" /\ s.path = u.loaded.path /\ s.content = u.text /\ s.rev = u.loaded.rev
  /\ s.version = u.version

\* The queue and the identity of a pane after a task.
Unwritten(u, w) == w.queue = u.queue /\ w.draftId = u.draftId
Written(u, w) ==
  /\ w.dirty /\ w.draftId \in DraftId /\ (u.draftId # 0 => w.draftId = u.draftId)
  /\ LastIs(w) /\ [op |-> "save", draft |-> Mine(w)] \in DraftOp
  /\ w.queue = Append(u.queue, [op |-> "save", draft |-> Mine(w)])
CalledOff(u, w) ==
  /\ u.draftId # 0 /\ w.draftId = 0
  /\ Clear(u.draftId) \in DraftOp /\ w.queue = Append(u.queue, Clear(u.draftId))
Dropped(u, w) == w.queue = u.queue /\ w.draftId = 0

\* A dirty text whose draft is not awaited is the last thing stored.
Still(u, w) == u.dirty /\ Mine(w) = Mine(u) /\ w.queue = u.queue /\ w.draftTimer = u.draftTimer
Follows(u, w) == w.dirty => w.draftTimer \/ LastIs(w) \/ Still(u, w)

\* Two turns of a task, one after the other, keep a dirty text's draft coming.
LEMMA FollowsTrans ==
  ASSUME NEW u, NEW v, NEW w, Follows(u, v), Follows(v, w)
  PROVE  Follows(u, w)
BY DEF Follows, Still, LastIs

\* What leaves document, queue and drafts alone keeps the draft coming.
LEMMA FollowsSame ==
  ASSUME NEW u, NEW w, SameDocument(u, w), SameDrafts(u, w), w.queue = u.queue
  PROVE  Follows(u, w)
BY DEF Follows, Still, Mine, SameDocument, SameDrafts

\* What a save takes with it, and what it leaves to do when there is nothing to save.
LEMMA StartSaveFields ==
  ASSUME NEW u, Fit(u)
  PROVE  LET w == StartSave(u) IN
         /\ SameDocument(u, w) /\ w.restore = u.restore /\ w.found = u.found /\ w.flushes = u.flushes
         /\ w.version = u.version /\ Follows(u, w) /\ (Unwritten(u, w) \/ Written(u, w))
         /\ \/ ~Unpersisted(u) /\ w.persisted = u.persisted /\ w.save = u.save
            \/ ~u.dirty /\ w.persisted = u.version /\ w.save = u.save /\ Unwritten(u, w)
            \/ u.dirty /\ w.persisted = u.persisted /\ SaveOf(u, w.save)
<1> DEFINE p == IF u.draftTimer THEN PersistDraft(u) ELSE u
           s == [step |-> "draft", path |-> u.loaded.path, content |-> u.text,
                 rev |-> u.loaded.rev, version |-> u.version, ahead |-> Len(p.queue)]
           w == StartSave(u)
<1>0. u.dirty \in BOOLEAN /\ (u.dirty => HasNote(u)) /\ SameDocument(u, u)
  BY DirtyHasNote DEF SameDocument
<1>1. CASE ~Unpersisted(u)
  <2>1. w = u
    BY <1>1 DEF StartSave
  <2>2. QED
    BY <1>0, <1>1, <2>1, FollowsSame DEF SameDrafts, Unwritten
<1>2. CASE Unpersisted(u) /\ ~u.dirty
  <2>1. w = [u EXCEPT !.persisted = u.version]
    BY <1>2 DEF StartSave
  <2> HIDE DEF w
  <2>2. /\ SameDocument(u, w) /\ w.restore = u.restore /\ w.found = u.found /\ w.flushes = u.flushes
        /\ w.version = u.version /\ Unwritten(u, w) /\ w.persisted = u.version /\ w.save = u.save
        /\ ~w.dirty
    BY <1>2, <2>1 DEF Fit, Pane, SameDocument, Unwritten
  <2>3. QED
    BY <1>2, <2>2 DEF Follows, w
<1>3. CASE Unpersisted(u) /\ u.dirty
  <2>1. w = [p EXCEPT !.timer = FALSE, !.save = s]
    BY <1>0, <1>3 DEF StartSave
  <2>2. /\ SameDocument(u, p) /\ p.restore = u.restore /\ p.found = u.found /\ SameCounts(u, p)
        /\ p.flushes = u.flushes /\ Fit(p) /\ Follows(u, p) /\ (Unwritten(u, p) \/ Written(u, p))
    <3>1. CASE u.draftTimer
      <4> DEFINE r == PersistDraft(u)
      <4>1. /\ SameDocument(u, r) /\ r.restore = u.restore /\ r.found = u.found
            /\ SameCounts(u, r) /\ Fit(r) /\ r.flushes = u.flushes
            /\ r.draftId \in DraftId /\ (u.draftId # 0 => r.draftId = u.draftId)
            /\ LastIs(r) /\ [op |-> "save", draft |-> Mine(r)] \in DraftOp
            /\ r.queue = Append(u.queue, [op |-> "save", draft |-> Mine(r)])
        BY <1>3, PersistFields
      <4> HIDE DEF r
      <4>2. p = r
        BY <3>1 DEF r
      <4> HIDE DEF p
      <4>3. QED
        BY <1>3, <4>1, <4>2 DEF Follows, Written, SameDocument
    <3>2. CASE ~u.draftTimer
      <4>1. p = u
        BY <3>2
      <4>2. QED
        BY <1>0, <4>1, FollowsSame DEF SameCounts, SameDrafts, Unwritten
    <3>3. QED
      BY <3>1, <3>2
  <2>3. SaveOf(u, s)
    BY DEF SaveOf
  <2> HIDE DEF s, w, p
  <2>4. /\ SameDocument(p, w) /\ w.restore = p.restore /\ w.found = p.found /\ SameCounts(p, w)
        /\ w.flushes = p.flushes /\ SameDrafts(p, w) /\ w.queue = p.queue /\ w.save = s
    BY <2>1, <2>2 DEF Fit, Pane, SameDocument, SameCounts, SameDrafts
  <2>5. Follows(u, w)
    BY <2>2, <2>4, FollowsSame, FollowsTrans
  <2>6. Mine(w) = Mine(p)
    BY <2>4 DEF Mine, SameDocument, SameDrafts
  <2>7. Unwritten(u, w) \/ Written(u, w)
    BY <2>2, <2>4, <2>6 DEF Unwritten, Written, SameDrafts, SameDocument, LastIs
  <2>8. QED
    BY <1>3, <2>2, <2>3, <2>4, <2>5, <2>7 DEF SameDocument, SameCounts, w
<1>4. QED
  BY <1>0, <1>1, <1>2, <1>3

\* A snapshot keeps a dirty text's draft coming.
LEMMA TakenFollows ==
  ASSUME NEW u, NEW v, NEW w, Taken(u, v, w), SameWork(u, w)
  PROVE  Follows(u, w) /\ (Unwritten(u, w) \/ (Replaced(u, v, w) /\ Dropped(u, w)))
<1>1. CASE PutOff(u, v, w)
  BY <1>1 DEF PutOff, Follows, Still, Mine, SameDrafts, SameWork, Unwritten
<1>2. CASE Confirmed(u, v, w)
  BY <1>2 DEF Confirmed, Follows, Still, Mine, SameDrafts, SameWork, Unwritten, Note, IsShown
<1>3. CASE Adopted(u, v, w)
  BY <1>3 DEF Adopted, Follows, SameWork, Unwritten
<1>4. CASE Replaced(u, v, w)
  BY <1>4 DEF Replaced, Follows, SameWork, Dropped
<1>5. QED
  BY <1>1, <1>2, <1>3, <1>4 DEF Taken

\* What an edit makes of drafts, counts and text.
LEMMA TypedFields ==
  ASSUME NEW u, Sound(u), HasNote(u), NEW t \in Text
  PROVE  LET w == Typed(u, t) IN
         /\ Follows(u, w) /\ w.save = u.save /\ w.restore = u.restore /\ w.found = u.found
         /\ Unwritten(u, w) \/ CalledOff(u, w)
         /\ t # u.loaded.content \/ ~u.dirty \/ ~u.changed =>
              /\ w.text = t /\ w.loaded = u.loaded /\ w.changed = u.changed
              /\ w.dirty <=> t # u.loaded.content
              /\ w.version = u.version + 1
              /\ w.persisted = u.persisted \/ (~w.dirty /\ w.persisted = w.version)
         /\ t = u.loaded.content /\ u.dirty => w.draftId = 0
<1> DEFINE d == t # u.loaded.content
           b == [u EXCEPT !.text = t, !.dirty = d, !.mine = TRUE]
           a == Changed(b)
           c == ClearDraft(a)
           w == Typed(u, t)
           x == IF Saving(u) THEN c ELSE Synchronized(c)
<1>1. u.loaded \in Opened /\ t \in MaybeText /\ d \in BOOLEAN /\ (d <=> t # u.loaded.content)
      /\ u.dirty \in BOOLEAN
  BY DirtyHasNote DEF Sound, MaybeText
<1>2. w = IF a.dirty THEN ScheduleDraft(a)
          ELSE IF u.dirty THEN AcceptDisk(x) ELSE a
  BY DEF Typed
<1> HIDE DEF d
<1>3. b \in Pane /\ SameWork(u, b) /\ b.text = t /\ b.loaded = u.loaded /\ b.dirty = d
      /\ b.pending = u.pending /\ b.changed = u.changed /\ b.snap = u.snap
      /\ SameDrafts(u, b) /\ SameCounts(u, b)
  BY <1>1 DEF Sound, Fit, Pane, SameWork, SameDrafts, SameCounts
<1> HIDE DEF b
<1>4. Fit(b)
  <2>1. Document(b)
    BY <1>1, <1>3 DEF Sound, Fit, Document
  <2>2. QED
    BY <1>3, <2>1, NewDocument DEF Sound
<1>5. /\ SameDocument(b, a) /\ SameWork(b, a) /\ SameDrafts(b, a)
      /\ a.persisted = b.persisted /\ a.version = b.version + 1 /\ Fit(a)
  BY <1>4, ChangedFields
<1> HIDE DEF a
<1>6. /\ a.text = t /\ a.loaded = u.loaded /\ a.dirty = d /\ a.changed = u.changed /\ a.snap = u.snap
      /\ a.pending = u.pending
      /\ a.draftTimer = u.draftTimer /\ a.draftId = u.draftId /\ a.queue = u.queue
      /\ a.save = u.save /\ a.restore = u.restore /\ a.found = u.found
      /\ a.persisted = u.persisted /\ a.version = u.version + 1
  BY <1>3, <1>5 DEF SameDocument, SameWork, SameDrafts, SameCounts
<1> HIDE DEF w
<1>7. CASE d
  <2> DEFINE s == ScheduleDraft(a)
  <2>1. /\ SameDocument(a, s) /\ SameWork(a, s) /\ SameCounts(a, s)
        /\ s.draftTimer = a.dirty /\ s.draftId = a.draftId
    BY <1>5, ScheduleDraftFields
  <2>2. w = s
    BY <1>2, <1>6, <1>7
  <2> HIDE DEF s
  <2>3. QED
    BY <1>1, <1>6, <1>7, <2>1, <2>2 DEF Follows, Unwritten, SameDocument, SameWork, SameCounts, w
<1>8. CASE ~d /\ ~u.dirty
  <2>1. w = a
    BY <1>2, <1>6, <1>8
  <2>2. QED
    BY <1>1, <1>6, <1>8, <2>1 DEF Follows, Unwritten, w
<1>9. CASE ~d /\ u.dirty
  <2>1. /\ SameDocument(a, c) /\ SameTurn(a, c) /\ SameCounts(a, c) /\ Fit(c)
        /\ c.draftTimer = FALSE /\ c.draftId = 0
        /\ (a.draftId = 0 => c.queue = a.queue)
        /\ (a.draftId # 0 => Clear(a.draftId) \in DraftOp /\ c.queue = Append(a.queue, Clear(a.draftId)))
    <3>1. HasNote(a)
      BY <1>6 DEF HasNote
    <3>2. QED
      BY <1>5, <3>1, ClearFields
  <2> HIDE DEF c
  <2>2. /\ SameDocument(c, x) /\ x.save = c.save /\ x.restore = c.restore /\ x.found = c.found
        /\ x.queue = c.queue /\ x.draftId = c.draftId /\ Fit(x) /\ x.version = c.version
        /\ x.persisted = c.persisted \/ x.persisted = x.version
    <3>1. CASE Saving(u)
      <4>1. x = c
        BY <3>1
      <4>2. QED
        BY <2>1, <4>1 DEF SameDocument
    <3>2. CASE ~Saving(u)
      <4> DEFINE s == Synchronized(c)
      <4>1. /\ SameDocument(c, s) /\ SameWork(c, s) /\ SameDrafts(c, s)
            /\ s.persisted = c.version /\ s.version = c.version /\ Fit(s)
        BY <2>1, SynchronizedFields
      <4> HIDE DEF s
      <4>2. x = s
        BY <3>2 DEF s
      <4>3. QED
        BY <4>1, <4>2 DEF SameWork, SameDrafts
    <3>3. QED
      BY <3>1, <3>2
  <2>3. w = AcceptDisk(x)
    BY <1>2, <1>6, <1>9
  <2> HIDE DEF x
  <2>4. /\ x.text = t /\ x.loaded = u.loaded /\ x.dirty = FALSE /\ x.changed = u.changed /\ x.snap = u.snap
        /\ x.draftId = 0 /\ x.save = u.save /\ x.restore = u.restore /\ x.found = u.found
        /\ Unwritten(u, x) \/ CalledOff(u, x)
        /\ x.version = u.version + 1 /\ (x.persisted = u.persisted \/ x.persisted = x.version)
    BY <1>6, <1>9, <2>1, <2>2 DEF SameDocument, SameTurn, SameCounts, Unwritten, CalledOff
  <2>5. CASE ~u.changed
    <3>1. w = x
      BY <2>3, <2>4, <2>5 DEF AcceptDisk
    <3>2. QED
      BY <1>1, <1>9, <2>4, <3>1 DEF Follows, w
  <2>6. CASE u.changed
    <3> DEFINE n == IF x.pending # NoNote THEN x.pending ELSE Note(x.snap)
               r == Replace(x, n)
    <3>1. n \in NoteOrNone /\ n \in Loaded /\ x.snap \in Shown
      BY <2>2, Notes, Drafts DEF Fit, Document, NoteOrNone
    <3>2. w = Render(r, x.snap)
      BY <2>3, <2>4, <2>6 DEF AcceptDisk
    <3> HIDE DEF n
    <3>3. Fit(r)
      BY <2>2, <3>1, ReplaceFit
    <3>4. r \in Pane /\ SameWork(x, r) /\ r.dirty = FALSE
      BY <2>2, <3>1, Replacing DEF Fit
    <3>5. r.draftId = 0
      BY <2>2, <3>1, ReplaceFields
    <3> HIDE DEF r
    <3>6. SameWork(r, w) /\ Taken(r, x.snap, w)
      BY <3>1, <3>2, <3>3, RenderFields
    <3>7. Follows(r, w) /\ w.draftId = 0
      BY <3>5, <3>6, TakenFollows DEF Unwritten, Dropped
    <3>8. Follows(u, w)
      BY <3>4, <3>7 DEF Follows, Still
    <3>9. w.save = u.save /\ w.restore = u.restore /\ w.found = u.found /\ w.queue = x.queue
      BY <2>4, <3>4, <3>6 DEF SameWork
    <3>10. Unwritten(u, w) \/ CalledOff(u, w)
      BY <2>4, <3>7, <3>9 DEF Unwritten, CalledOff
    <3>11. QED
      BY <1>1, <1>9, <2>6, <3>7, <3>8, <3>9, <3>10 DEF w
  <2>7. QED
    BY <2>5, <2>6
<1>10. QED
  BY <1>1, <1>7, <1>8, <1>9

\* A draft that is found is removed, its text being in the vault, or it is opened.
LEMMA RecoveredFields ==
  ASSUME NEW u, Sound(u), u.dirty => u.draftTimer, NEW e \in RealDraft, NEW v \in Shown
  PROVE  LET w == Recovered(u, e, v) IN
         /\ w.save = u.save /\ w.restore = "none" /\ Follows(u, w)
         /\ \/ /\ v # NoView /\ v.content = e.text /\ SameDocument(u, w) /\ w.draftId = u.draftId
               /\ Clear(e.id) \in DraftOp /\ w.queue = Append(u.queue, Clear(e.id))
            \/ /\ ~(v # NoView /\ v.content = e.text)
               /\ w.queue = u.queue /\ w.draftId = e.id /\ HasNote(w)
               /\ ~Saving(u) => w.dirty /\ w.text = e.text
<1> DEFINE off  == [u EXCEPT !.restore = "none", !.found = NoDraft]
           note == [path |-> e.path, content |-> v.content, rev |-> e.base]
           r    == Replace(off, note)
           a    == [r EXCEPT !.text = e.text, !.dirty = TRUE]
           b    == Changed(a)
           p    == IF v = NoView THEN NoNote ELSE Note(v)
           c    == v.content # e.base
           o    == [b EXCEPT !.draftTimer = TRUE, !.draftId = e.id, !.mine = TRUE,
                             !.pending = p, !.changed = c]
           w    == Recovered(u, e, v)
<1>1. w = IF v # NoView /\ v.content = e.text THEN ClearPersisted(off, e.id) ELSE Render(o, u.snap)
  BY DEF Recovered
<1> HIDE DEF w
<1>2. off \in Pane /\ SameDocument(u, off) /\ off.queue = u.queue /\ off.save = u.save
      /\ off.restore = "none" /\ off.found = NoDraft /\ SameDrafts(u, off)
  BY Drafts DEF Sound, Fit, Pane, SameDocument, SameDrafts
<1> HIDE DEF off
<1>3. Storing(off) /\ Holding(off)
  BY <1>2 DEF Sound, Fit, Storing, Holding, Saving
<1>4. Same(u, off) /\ Fit(off)
  BY <1>2, <1>3, SameFit DEF Same, Sound
<1>5. e.path \in Path /\ e.base \in Text /\ e.text \in Text /\ e.id \in DraftId
      /\ v.content \in MaybeText
  BY Drafts DEF RealDraft, Shown, RealView, MaybeText
<1>6. note \in Opened /\ note \in Loaded
  BY <1>5, Drafts DEF Opened
<1>7. p \in NoteOrNone /\ p \in Loaded
  BY Notes, Drafts DEF NoteOrNone
<1> HIDE DEF note, p
<1>8. r \in Pane /\ SameWork(off, r) /\ r.snap = off.snap /\ r.loaded = note /\ r.pending = NoNote
  BY <1>2, <1>4, <1>6, Replacing
<1> HIDE DEF r
<1>9. a \in Pane /\ SameWork(off, a) /\ a.snap = u.snap /\ a.loaded = note /\ a.text = e.text
      /\ a.dirty = TRUE /\ a.pending = NoNote
  BY <1>2, <1>5, <1>8 DEF Pane, SameWork, MaybeText, SameDocument
<1> HIDE DEF a
<1>10. u.snap \in Shown
  BY DEF Sound, Fit, Document
<1>11. Fit(a)
  <2>1. Document(a)
    BY <1>5, <1>6, <1>9, <1>10 DEF Document, NoteOrNone
  <2>2. QED
    BY <1>4, <1>9, <2>1, NewDocument
<1>12. SameDocument(a, b) /\ SameWork(a, b) /\ Fit(b)
  BY <1>11, ChangedFields
<1> HIDE DEF b
<1>13. c \in BOOLEAN
  OBVIOUS
<1> HIDE DEF c
<1>14. o \in Pane /\ SameWork(b, o) /\ o.text = b.text /\ o.loaded = b.loaded /\ o.snap = b.snap
       /\ o.dirty = b.dirty /\ o.pending = p /\ o.draftTimer = TRUE /\ o.draftId = e.id
  <2> DEFINE x == [b EXCEPT !.draftTimer = TRUE, !.draftId = e.id, !.mine = TRUE]
  <2>1. b \in Pane /\ e.id \in DraftId \cup {0}
    BY <1>5, <1>12 DEF Fit
  <2>2. x \in Pane /\ SameWork(b, x) /\ SameDocument(b, x) /\ x.draftTimer = TRUE /\ x.draftId = e.id
    BY <2>1 DEF Pane, SameWork, SameDocument
  <2>3. o = [x EXCEPT !.pending = p, !.changed = c]
    BY <2>1 DEF Pane
  <2> HIDE DEF x, o
  <2>4. o \in Pane /\ SameWork(x, o) /\ o.text = x.text /\ o.loaded = x.loaded /\ o.snap = x.snap
       /\ o.dirty = x.dirty /\ o.pending = p /\ SameDrafts(x, o)
    BY <1>7, <1>13, <2>2, <2>3 DEF Pane, SameWork, SameDrafts
  <2>5. QED
    BY <2>2, <2>4 DEF SameWork, SameDocument, SameDrafts
<1> HIDE DEF o
<1>15. o.loaded = note /\ o.text = e.text /\ o.snap = u.snap /\ o.dirty = TRUE
  BY <1>9, <1>12, <1>14 DEF SameDocument
<1>16. Document(o)
  BY <1>5, <1>6, <1>7, <1>10, <1>14, <1>15 DEF Document
<1>17. Fit(o)
  BY <1>12, <1>14, <1>16, NewDocument
<1>17a. o.queue = u.queue /\ o.save = u.save /\ o.restore = "none"
  BY <1>2, <1>9, <1>12, <1>14 DEF SameWork
<1>18. CASE v # NoView /\ v.content = e.text
  <2> DEFINE s == ClearPersisted(off, e.id)
  <2>1. /\ SameDocument(off, s) /\ SameTurn(off, s) /\ SameCounts(off, s) /\ SameDrafts(off, s)
        /\ Clear(e.id) \in DraftOp /\ s.queue = Append(off.queue, Clear(e.id))
    BY <1>4, <1>5, ClearPersistedFields
  <2> HIDE DEF s
  <2>2. w = s
    BY <1>1, <1>18 DEF s
  <2>3. QED
    BY <1>2, <1>18, <2>1, <2>2 DEF SameDocument, SameTurn, SameDrafts, Follows, w
<1>19. CASE ~(v # NoView /\ v.content = e.text)
  <2>1. w = Render(o, u.snap)
    BY <1>1, <1>19
  <2>2. SameWork(o, w) /\ Taken(o, u.snap, w)
    BY <1>10, <1>17, <2>1, RenderFields
  <2>3. w.save = u.save /\ w.restore = "none" /\ w.queue = u.queue
    BY <1>17a, <2>2 DEF SameWork
  <2>4. w.draftId = e.id /\ (w.dirty => w.draftTimer) /\ HasNote(w)
    <3>0. HasNote(o)
      BY <1>15, <1>17, DirtyHasNote
    <3>2. CASE PutOff(o, u.snap, w)
      BY <1>14, <3>0, <3>2 DEF PutOff, SameDrafts, HasNote
    <3>3. CASE Confirmed(o, u.snap, w)
      BY <1>14, <3>3 DEF Confirmed, SameDrafts, HasNote, Note
    <3>4. CASE Adopted(o, u.snap, w)
      BY <1>14, <3>4 DEF Adopted, HasNote, Note
    <3>5. CASE Replaced(o, u.snap, w)
      BY <1>15, <3>5 DEF Replaced
    <3>6. QED
      BY <2>2, <3>2, <3>3, <3>4, <3>5 DEF Taken
  <2>5. ASSUME ~Saving(u) PROVE w.dirty /\ w.text = e.text
    BY <1>15, <1>17a, <2>2, <2>5 DEF Taken, PutOff, Confirmed, Adopted, Replaced, Own, Saving
  <2>6. QED
    BY <1>19, <2>3, <2>4, <2>5 DEF Follows, w
<1>20. QED
  BY <1>18, <1>19

\* Everything but the flushes that are waited for.
SameButFlushes(u, w) ==
  /\ SameDocument(u, w) /\ SameDrafts(u, w) /\ SameCounts(u, w)
  /\ w.queue = u.queue /\ w.save = u.save /\ w.restore = u.restore /\ w.found = u.found

\* A flush is answered only when no save is under way.
LEMMA SettleFields ==
  ASSUME NEW u, Fit(u), NEW ok, Settle(u, ok)
  PROVE  /\ SameButFlushes(u, ui')
         /\ (\E a \in answers' \ answers : a.ok) => ok /\ ~Saving(u) /\ u.flushes # {}
<1> DEFINE w == [u EXCEPT !.flushes = {}]
<1>1. SameButFlushes(u, w) /\ SameButFlushes(u, u)
  BY DEF Fit, Pane, SameButFlushes, SameDocument, SameDrafts, SameCounts
<1>2. ui' = u \/ ui' = w
  BY DEF Settle
<1> HIDE DEF w
<1>3. SameButFlushes(u, ui')
  BY <1>1, <1>2
<1>4. ASSUME NEW a \in answers' \ answers, a.ok PROVE ok /\ ~Saving(u) /\ u.flushes # {}
  <2>1. ~Saving(u) /\ a \in {[flush |-> f, ok |-> ok] : f \in u.flushes}
    BY <1>4 DEF Settle
  <2>2. QED
    BY <1>4, <2>1
<1>5. QED
  BY <1>3, <1>4

\* A task that ends by going on with the flushes.
LEMMA Continued ==
  ASSUME NEW u, Fit(u), Settle(Continue(u), TRUE)
  PROVE  /\ SameDocument(u, ui') /\ ui'.restore = u.restore /\ ui'.found = u.found
         /\ ui'.version = u.version /\ Follows(u, ui') /\ (Unwritten(u, ui') \/ Written(u, ui'))
         /\ \/ ui'.persisted = u.persisted /\ ui'.save = u.save
            \/ ~u.dirty /\ ui'.persisted = u.version /\ ui'.save = u.save /\ Unwritten(u, ui')
            \/ u.dirty /\ ~Saving(u) /\ ui'.persisted = u.persisted /\ SaveOf(u, ui'.save)
         /\ (\E a \in answers' \ answers : a.ok) => ~ui'.dirty \/ ~Unpersisted(ui')
<1> DEFINE c == Continue(u)
<1>0. SameDocument(u, u) /\ Follows(u, u)
  BY FollowsSame DEF SameDocument, SameDrafts
<1>1. Fit(c)
  BY ContinueSame, SameFit
<1>2. SameButFlushes(c, ui')
      /\ ((\E a \in answers' \ answers : a.ok) => ~Saving(c) /\ c.flushes # {})
  BY <1>1, SettleFields
<1>3. Follows(c, ui') /\ Mine(ui') = Mine(c)
  BY <1>2, FollowsSame DEF SameButFlushes, Mine, SameDocument, SameDrafts
<1>4. CASE Saving(u) \/ u.flushes = {}
  <2>1. c = u
    BY <1>4 DEF Continue
  <2> HIDE DEF c
  <2>2. ~(\E a \in answers' \ answers : a.ok)
    BY <1>2, <1>4, <2>1
  <2>3. QED
    BY <1>2, <1>3, <2>1, <2>2 DEF SameButFlushes, SameCounts, SameDrafts, Unwritten
<1>5. CASE ~Saving(u) /\ u.flushes # {}
  <2> DEFINE w == StartSave(u)
  <2>1. /\ SameDocument(u, w) /\ w.restore = u.restore /\ w.found = u.found /\ w.flushes = u.flushes
        /\ w.version = u.version /\ Follows(u, w) /\ (Unwritten(u, w) \/ Written(u, w))
        /\ \/ ~Unpersisted(u) /\ w.persisted = u.persisted /\ w.save = u.save
           \/ ~u.dirty /\ w.persisted = u.version /\ w.save = u.save /\ Unwritten(u, w)
           \/ u.dirty /\ w.persisted = u.persisted /\ SaveOf(u, w.save)
    BY StartSaveFields
  <2> HIDE DEF w
  <2>2. c = w
    BY <1>5 DEF Continue, w
  <2> HIDE DEF c
  <2>3. Follows(u, ui')
    BY <1>3, <2>1, <2>2, FollowsTrans
  <2>4. Unwritten(u, w) => Unwritten(u, ui')
    BY <1>2, <2>2 DEF SameButFlushes, SameDrafts, Unwritten
  <2>5. Written(u, w) => Written(u, ui')
    BY <1>2, <1>3, <2>2 DEF SameButFlushes, SameDrafts, SameDocument, Written, LastIs
  <2>6. SaveOf(u, w.save) => Saving(c)
    BY <2>2 DEF SaveOf, Saving
  <2>7. /\ SameDocument(u, ui') /\ ui'.restore = u.restore /\ ui'.found = u.found
        /\ ui'.version = u.version /\ ui'.persisted = w.persisted /\ ui'.save = w.save
    BY <1>2, <2>1, <2>2 DEF SameButFlushes, SameDocument, SameCounts
  <2>8. ASSUME \E a \in answers' \ answers : a.ok PROVE ~ui'.dirty \/ ~Unpersisted(ui')
    BY <1>2, <2>1, <2>6, <2>7, <2>8 DEF SameDocument, Unpersisted
  <2>9. QED
    BY <1>5, <2>1, <2>3, <2>4, <2>5, <2>7, <2>8
<1>6. QED
  BY <1>4, <1>5

\* What the pane makes of the answer to its save: the snapshot in it, then the
\* end of the save.
Answered(r) ==
  LET v == Head(inbox).view IN
  /\ Receive("reply") /\ v \in Shown /\ SameWork(ui, r) /\ r.snap = v /\ Taken(ui, v, r) /\ Fit(r)
  /\ SameDocument(r, ui') /\ ui'.restore = r.restore /\ ui'.found = r.found
  /\ ui'.version = r.version /\ Follows(r, ui')
  /\ r.dirty => Unwritten(r, ui') \/ Written(r, ui')
  /\ ~r.dirty /\ HasNote(r) /\ r.draftId # 0 => CalledOff(r, ui')
  /\ ~r.dirty /\ (~HasNote(r) \/ r.draftId = 0) => Dropped(r, ui')
  /\ \/ ui'.persisted = Larger(r.persisted, r.save.version)
     \/ ~r.dirty /\ ui'.persisted = r.version
  /\ ui'.save = NoSave \/ (r.dirty /\ SaveOf(r, ui'.save))
  /\ (\E a \in answers' \ answers : a.ok) => ~ui'.dirty \/ ~Unpersisted(ui')

\* The answer to a save does what Answered says.
LEMMA ReplyFields ==
  ASSUME Inv, ReceiveReply
  PROVE  Answered(Render(ui, Head(inbox).view))
<1> DEFINE v == Head(inbox).view
           r == Render(ui, v)
           a == AfterReply(r)
           f == Finish(a)
<1>1. Receive("reply") /\ Settle(Continue(f), TRUE)
  BY DEF ReceiveReply
<1>2. v \in Shown /\ Fit(ui) /\ Clean(ui)
  BY <1>1, FirstLetter DEF Showing
<1> HIDE DEF v
<1>3. SameWork(ui, r) /\ r.snap = v /\ Taken(ui, v, r) /\ Fit(r)
  BY <1>2, RenderFields, RenderSound DEF Sound
<1> HIDE DEF r
<1>4. /\ SameDocument(r, a) /\ a.save = r.save /\ a.restore = r.restore /\ a.found = r.found
      /\ SameCounts(r, a) /\ Fit(a) /\ Follows(r, a)
      /\ r.dirty => Unwritten(r, a)
      /\ ~r.dirty /\ HasNote(r) /\ r.draftId # 0 => CalledOff(r, a)
      /\ ~r.dirty /\ (~HasNote(r) \/ r.draftId = 0) => Dropped(r, a)
  <2>1. CASE r.dirty
    <3>1. a = r
      BY <2>1 DEF AfterReply
    <3> HIDE DEF a
    <3>2. SameDocument(r, a) /\ SameDrafts(r, a)
      BY <3>1 DEF SameDocument, SameDrafts
    <3>3. QED
      BY <1>3, <2>1, <3>1, <3>2, FollowsSame DEF SameCounts, Unwritten
  <2>2. CASE ~r.dirty /\ HasNote(r)
    <3> DEFINE c == ClearDraft(r)
    <3>1. /\ SameDocument(r, c) /\ SameTurn(r, c) /\ SameCounts(r, c) /\ Fit(c)
          /\ c.draftTimer = FALSE /\ c.draftId = 0
          /\ (r.draftId = 0 => c.queue = r.queue)
          /\ (r.draftId # 0 => Clear(r.draftId) \in DraftOp /\ c.queue = Append(r.queue, Clear(r.draftId)))
      BY <1>3, <2>2, ClearFields
    <3> HIDE DEF c
    <3>2. a = c
      BY <2>2 DEF AfterReply, c
    <3> HIDE DEF a
    <3>3. QED
      BY <2>2, <3>1, <3>2 DEF SameTurn, CalledOff, Dropped, Follows, SameDocument
  <2>3. CASE ~r.dirty /\ ~HasNote(r)
    <3>1. a = [r EXCEPT !.draftTimer = FALSE, !.draftId = 0]
      BY <2>3 DEF AfterReply, ClearDraft
    <3>2. Fit(a)
      <4>1. Same(r, a)
        BY <1>3, <2>3, ClearSame DEF AfterReply
      <4>2. QED
        BY <1>3, <4>1, SameFit
    <3> HIDE DEF a
    <3>3. SameDocument(r, a) /\ SameTurn(r, a) /\ SameCounts(r, a) /\ Dropped(r, a)
      BY <1>3, <3>1 DEF Fit, Pane, SameDocument, SameTurn, SameCounts, Dropped
    <3>4. QED
      BY <2>3, <3>2, <3>3 DEF SameTurn, Follows, SameDocument
  <2>4. QED
    BY <2>1, <2>2, <2>3
<1> HIDE DEF a
<1>5. /\ SameDocument(a, f) /\ SameDrafts(a, f) /\ f.queue = a.queue /\ f.save = NoSave
      /\ f.restore = a.restore /\ f.found = a.found
      /\ f.version = a.version /\ f.persisted = Larger(a.persisted, a.save.version) /\ Fit(f)
  BY <1>4, FinishFields
<1> HIDE DEF f
<1>6. /\ SameDocument(f, ui') /\ ui'.restore = f.restore /\ ui'.found = f.found
      /\ ui'.version = f.version /\ Follows(f, ui') /\ (Unwritten(f, ui') \/ Written(f, ui'))
      /\ \/ ui'.persisted = f.persisted /\ ui'.save = f.save
         \/ ~f.dirty /\ ui'.persisted = f.version /\ ui'.save = f.save /\ Unwritten(f, ui')
         \/ f.dirty /\ ~Saving(f) /\ ui'.persisted = f.persisted /\ SaveOf(f, ui'.save)
      /\ (\E x \in answers' \ answers : x.ok) => ~ui'.dirty \/ ~Unpersisted(ui')
  BY <1>1, <1>5, Continued
<1>7. Follows(r, ui')
  <2>1. Follows(a, f)
    BY <1>5, FollowsSame
  <2>2. QED
    BY <1>4, <1>6, <2>1, FollowsTrans
<1>8. f.dirty = r.dirty /\ f.text = r.text /\ f.loaded = r.loaded /\ f.version = r.version
      /\ f.persisted = Larger(r.persisted, r.save.version) /\ f.save = NoSave
  BY <1>4, <1>5 DEF SameDocument, SameCounts
<1>9. SameDocument(r, ui') /\ ui'.restore = r.restore /\ ui'.found = r.found /\ ui'.version = r.version
  BY <1>4, <1>5, <1>6, <1>8 DEF SameDocument
<1>10. /\ \/ ui'.persisted = Larger(r.persisted, r.save.version)
          \/ ~r.dirty /\ ui'.persisted = r.version
       /\ ui'.save = NoSave \/ (r.dirty /\ SaveOf(r, ui'.save))
  BY <1>6, <1>8 DEF SaveOf
<1>11. r.dirty => Unwritten(r, ui') \/ Written(r, ui')
  BY <1>4, <1>5, <1>6 DEF Unwritten, Written, SameDrafts
<1>12. ~r.dirty => Unwritten(f, ui')
  BY <1>6, <1>8, <1>9 DEF Written, SameDocument
<1>13. /\ ~r.dirty /\ HasNote(r) /\ r.draftId # 0 => CalledOff(r, ui')
       /\ ~r.dirty /\ (~HasNote(r) \/ r.draftId = 0) => Dropped(r, ui')
  BY <1>4, <1>5, <1>12 DEF Unwritten, SameDrafts, CalledOff, Dropped
<1>14. QED
  BY <1>1, <1>2, <1>3, <1>6, <1>7, <1>9, <1>10, <1>11, <1>13 DEF Answered, v, r

\* A flush leaves the document, and is answered when nothing is left to write.
LEMMA FlushFields ==
  ASSUME Inv, ReceiveFlush
  PROVE  /\ Receive("flush")
         /\ SameDocument(ui, ui') /\ ui'.restore = ui.restore /\ ui'.found = ui.found
         /\ ui'.version = ui.version /\ Follows(ui, ui') /\ (Unwritten(ui, ui') \/ Written(ui, ui'))
         /\ \/ ui'.persisted = ui.persisted /\ ui'.save = ui.save
            \/ ~ui.dirty /\ ui'.persisted = ui.version /\ ui'.save = ui.save /\ Unwritten(ui, ui')
            \/ ui.dirty /\ ~Saving(ui) /\ ui'.persisted = ui.persisted /\ SaveOf(ui, ui'.save)
         /\ (\E a \in answers' \ answers : a.ok) => ~ui'.dirty \/ ~Unpersisted(ui')
<1> DEFINE F == ui.flushes \cup {Head(inbox).flush}
           u == [ui EXCEPT !.timer = FALSE, !.flushes = F]
<1>1. Receive("flush") /\ Settle(Continue(u), TRUE)
  BY DEF ReceiveFlush, Pane, Inv, TypeOK
<1>2. F \in SUBSET Flush /\ Fit(ui)
  <2>1. Head(inbox).flush \in Flush /\ Fit(ui)
    BY <1>1, FirstLetter
  <2>2. QED
    BY <2>1 DEF Fit, Pane
<1> HIDE DEF F
<1>3. Same(ui, u) /\ Fit(u)
  BY <1>2, TimersSame, SameFit
<1>4. SameButFlushes(ui, u)
  BY <1>2 DEF Fit, Pane, SameButFlushes, SameDocument, SameDrafts, SameCounts
<1> HIDE DEF u
<1>5. /\ SameDocument(u, ui') /\ ui'.restore = u.restore /\ ui'.found = u.found
      /\ ui'.version = u.version /\ Follows(u, ui') /\ (Unwritten(u, ui') \/ Written(u, ui'))
      /\ \/ ui'.persisted = u.persisted /\ ui'.save = u.save
         \/ ~u.dirty /\ ui'.persisted = u.version /\ ui'.save = u.save /\ Unwritten(u, ui')
         \/ u.dirty /\ ~Saving(u) /\ ui'.persisted = u.persisted /\ SaveOf(u, ui'.save)
      /\ (\E a \in answers' \ answers : a.ok) => ~ui'.dirty \/ ~Unpersisted(ui')
  BY <1>1, <1>3, Continued
<1>6. Follows(ui, ui')
  BY <1>4, <1>5, FollowsSame, FollowsTrans DEF SameButFlushes
<1>7. Unwritten(u, ui') => Unwritten(ui, ui')
  BY <1>4 DEF SameButFlushes, SameDrafts, Unwritten
<1>8. Written(u, ui') => Written(ui, ui')
  BY <1>4 DEF SameButFlushes, SameDrafts, Written
<1>9. SaveOf(u, ui'.save) => SaveOf(ui, ui'.save)
  BY <1>4 DEF SameButFlushes, SameDocument, SameCounts, SaveOf
<1>10. SameDocument(ui, ui')
  BY <1>4, <1>5 DEF SameButFlushes, SameDocument
<1>11. u.version = ui.version /\ u.persisted = ui.persisted /\ u.save = ui.save /\ u.dirty = ui.dirty
       /\ u.restore = ui.restore /\ u.found = ui.found /\ (Saving(u) <=> Saving(ui))
  BY <1>4 DEF SameButFlushes, SameDocument, SameCounts, Saving
<1>12. QED
  BY <1>1, <1>5, <1>6, <1>7, <1>8, <1>9, <1>10, <1>11

\* The autosave timer leaves the document.
LEMMA AutosaveFields ==
  ASSUME Inv, AutosaveTimer
  PROVE  /\ SameDocument(ui, ui') /\ ui'.restore = ui.restore /\ ui'.found = ui.found
         /\ ui'.version = ui.version /\ Follows(ui, ui') /\ (Unwritten(ui, ui') \/ Written(ui, ui'))
         /\ \/ ui'.persisted = ui.persisted /\ ui'.save = ui.save
            \/ ~ui.dirty /\ ui'.persisted = ui.version /\ ui'.save = ui.save /\ Unwritten(ui, ui')
            \/ ui.dirty /\ ~Saving(ui) /\ ui'.persisted = ui.persisted /\ SaveOf(ui, ui'.save)
<1> DEFINE u == [ui EXCEPT !.timer = FALSE]
           f == FALSE
<1>1. Fit(ui) /\ f \in BOOLEAN /\ u = [ui EXCEPT !.timer = f]
  BY DEF Inv, Whole, Sound
<1> HIDE DEF f
<1>2. Same(ui, u) /\ Fit(u)
  BY <1>1, TimersSame, SameFit
<1>3. SameButFlushes(ui, u)
  BY <1>1 DEF Fit, Pane, SameButFlushes, SameDocument, SameDrafts, SameCounts
<1>4. ui' = IF Saving(u) THEN u ELSE StartSave(u)
  BY DEF AutosaveTimer
<1> HIDE DEF u
<1>5. Saving(u) <=> Saving(ui)
  BY <1>3 DEF SameButFlushes, Saving
<1>6. CASE Saving(u)
  <2>1. ui' = u
    BY <1>4, <1>6
  <2>2. QED
    BY <1>3, <2>1, FollowsSame DEF SameButFlushes, SameCounts, SameDrafts, Unwritten
<1>7. CASE ~Saving(u)
  <2>1. ui' = StartSave(u)
    BY <1>4, <1>7
  <2> DEFINE w == StartSave(u)
  <2>2. /\ SameDocument(u, w) /\ w.restore = u.restore /\ w.found = u.found
        /\ w.version = u.version /\ Follows(u, w) /\ (Unwritten(u, w) \/ Written(u, w))
        /\ \/ ~Unpersisted(u) /\ w.persisted = u.persisted /\ w.save = u.save
           \/ ~u.dirty /\ w.persisted = u.version /\ w.save = u.save /\ Unwritten(u, w)
           \/ u.dirty /\ w.persisted = u.persisted /\ SaveOf(u, w.save)
    BY <1>2, StartSaveFields
  <2> HIDE DEF w
  <2>3. ui' = w
    BY <2>1 DEF w
  <2>4. Follows(ui, w)
    BY <1>3, <2>2, FollowsSame, FollowsTrans DEF SameButFlushes
  <2>5. Unwritten(u, w) => Unwritten(ui, w)
    BY <1>3 DEF SameButFlushes, SameDrafts, Unwritten
  <2>6. Written(u, w) => Written(ui, w)
    BY <1>3 DEF SameButFlushes, SameDrafts, Written
  <2>7. SaveOf(u, w.save) => SaveOf(ui, w.save)
    BY <1>3 DEF SameButFlushes, SameDocument, SameCounts, SaveOf
  <2>8. SameDocument(ui, w)
    BY <1>3, <2>2 DEF SameButFlushes, SameDocument
  <2>9. u.version = ui.version /\ u.persisted = ui.persisted /\ u.save = ui.save /\ u.dirty = ui.dirty
         /\ u.restore = ui.restore /\ u.found = ui.found
    BY <1>3 DEF SameButFlushes, SameDocument, SameCounts
  <2>10. QED
    BY <1>5, <1>7, <2>2, <2>3, <2>4, <2>5, <2>6, <2>7, <2>8, <2>9
<1>8. QED
  BY <1>6, <1>7

-----------------------------------------------------------------------------
(* What every step does to the drafts.                                     *)

\* What a task of the renderer does to the drafts.
Turns ==
  /\ alive /\ alive' /\ draft' = draft /\ spent' = spent
  /\ ui'.restore = ui.restore /\ ui'.found = ui.found
  /\ Follows(ui, ui')
  /\ Unwritten(ui, ui') \/ Written(ui, ui') \/ CalledOff(ui, ui') \/ Dropped(ui, ui')
  /\ ~ui.dirty /\ ~Saving(ui) => ~ui'.dirty /\ ~Saving(ui')
  /\ ui.dirty => (ui'.dirty /\ ui'.text = ui.text) \/ ui.text \in done'
  /\ done \subseteq done'

\* A snapshot that makes a dirty editor clean shows its text.
LEMMA ShownText ==
  ASSUME Inv, NEW kind, Receive(kind), kind \in Showing, NEW w, Taken(ui, Head(inbox).view, w)
  PROVE  /\ ui.dirty => (w.dirty /\ w.text = ui.text) \/ ui.text \in done'
         /\ ~ui.dirty /\ ~Saving(ui) => ~w.dirty
<1> DEFINE v == Head(inbox).view
<1>1. v \in Shown
  BY FirstLetter
<1>2. done' = done \cup ({ui.text} \cap ({v.content} \ {Absent}))
  BY DEF Receive
<1>3. v.path # Absent => v.content # Absent
  BY <1>1, Drafts DEF Shown, RealView, NoView
<1> HIDE DEF v
<1>4. Taken(ui, v, w)
  BY DEF v
<1>5. QED
  BY <1>2, <1>3, <1>4 DEF Taken, PutOff, Confirmed, Adopted, Replaced, Own

\* The tasks of timers, saves and messages turn the drafts as Turns says.
LEMMA TaskTurns ==
  ASSUME Inv, AutosaveTimer \/ DraftTimer \/ SendSave \/ ReceivePush \/ ReceiveReply
              \/ ReceiveFailure \/ ReceiveFlush
  PROVE  Turns
<1>0. Fit(ui) /\ ui \in Pane
  BY DEF Inv, Whole, Sound, Fit
<1>1. CASE AutosaveTimer
  <2>1. alive /\ alive' /\ draft' = draft /\ spent' = spent /\ done' = done
    BY <1>1 DEF AutosaveTimer, main
  <2>2. QED
    BY <1>1, <2>1, AutosaveFields DEF Turns, SameDocument, Saving
<1>2. CASE DraftTimer
  <2>1. alive /\ alive' /\ draft' = draft /\ spent' = spent /\ done' = done
        /\ ui' = PersistDraft(ui)
    BY <1>2 DEF DraftTimer, main
  <2> DEFINE w == PersistDraft(ui)
  <2>2. /\ SameDocument(ui, w) /\ w.save = ui.save /\ w.restore = ui.restore /\ w.found = ui.found
         /\ (ui.dirty => /\ w.draftId \in DraftId /\ (ui.draftId # 0 => w.draftId = ui.draftId)
                         /\ LastIs(w) /\ [op |-> "save", draft |-> Mine(w)] \in DraftOp
                         /\ w.queue = Append(ui.queue, [op |-> "save", draft |-> Mine(w)]))
         /\ (~ui.dirty => w.queue = ui.queue /\ w.draftId = ui.draftId)
    BY <1>0, PersistFields
  <2> HIDE DEF w
  <2>3. Follows(ui, w) /\ (Unwritten(ui, w) \/ Written(ui, w))
    BY <1>0, <2>2, DirtyHasNote DEF Follows, Unwritten, Written, SameDocument
  <2>4. QED
    BY <2>1, <2>2, <2>3 DEF Turns, SameDocument, Saving, w
<1>3. CASE SendSave
  <2> DEFINE s == [ui.save EXCEPT !.step = "sent"]
  <2>1. alive /\ alive' /\ draft' = draft /\ spent' = spent /\ done' = done
        /\ ui' = [ui EXCEPT !.save = s] /\ Saving(ui)
    BY <1>0, <1>3 DEF SendSave, Pane, Saving
  <2> HIDE DEF s
  <2>2. SameDocument(ui, ui') /\ SameDrafts(ui, ui') /\ ui'.queue = ui.queue
        /\ ui'.restore = ui.restore /\ ui'.found = ui.found
    BY <1>0, <2>1 DEF Pane, SameDocument, SameDrafts
  <2>3. QED
    BY <2>1, <2>2, FollowsSame DEF Turns, SameDocument, SameDrafts, Unwritten
<1>4. CASE ReceivePush
  <2> DEFINE v == Head(inbox).view
             w == Render(ui, v)
  <2>1. Receive("push") /\ ui' = w
    BY <1>4 DEF ReceivePush
  <2>2. v \in Shown
    BY <2>1, FirstLetter DEF Showing
  <2>3. SameWork(ui, w) /\ Taken(ui, v, w)
    BY <1>0, <2>2, RenderFields
  <2> HIDE DEF w
  <2>4. /\ ui.dirty => (w.dirty /\ w.text = ui.text) \/ ui.text \in done'
        /\ ~ui.dirty /\ ~Saving(ui) => ~w.dirty
    BY <2>1, <2>3, ShownText DEF Showing
  <2>5. alive /\ alive' /\ draft' = draft /\ spent' = spent /\ done \subseteq done'
    BY <2>1 DEF Receive, main
  <2>6. Follows(ui, w) /\ (Unwritten(ui, w) \/ Dropped(ui, w))
    BY <2>3, TakenFollows
  <2>7. QED
    BY <2>1, <2>3, <2>4, <2>5, <2>6 DEF Turns, SameWork, Saving
<1>5. CASE ReceiveReply
  <2> DEFINE v == Head(inbox).view
             r == Render(ui, v)
  <2>1. Answered(r)
    BY <1>5, ReplyFields
  <2> HIDE DEF r
  <2>2. /\ Receive("reply") /\ SameWork(ui, r) /\ Taken(ui, v, r)
        /\ SameDocument(r, ui') /\ ui'.restore = r.restore /\ ui'.found = r.found
        /\ Follows(r, ui')
        /\ (r.dirty => Unwritten(r, ui') \/ Written(r, ui'))
        /\ (~r.dirty /\ HasNote(r) /\ r.draftId # 0 => CalledOff(r, ui'))
        /\ (~r.dirty /\ (~HasNote(r) \/ r.draftId = 0) => Dropped(r, ui'))
        /\ (ui'.save = NoSave \/ (r.dirty /\ SaveOf(r, ui'.save)))
    BY <2>1 DEF Answered
  <2>3. /\ ui.dirty => (r.dirty /\ r.text = ui.text) \/ ui.text \in done'
        /\ ~ui.dirty /\ ~Saving(ui) => ~r.dirty
    BY <2>2, ShownText DEF Showing
  <2>4. alive /\ alive' /\ draft' = draft /\ spent' = spent /\ done \subseteq done'
    BY <2>2 DEF Receive, main
  <2>5. Follows(ui, r) /\ (Unwritten(ui, r) \/ (~r.dirty /\ r.draftId = 0 /\ Dropped(ui, r)))
    BY <2>2, TakenFollows DEF Replaced
  <2>6. Follows(ui, ui')
    BY <2>2, <2>5, FollowsTrans
  <2>7. Unwritten(ui, ui') \/ Written(ui, ui') \/ CalledOff(ui, ui') \/ Dropped(ui, ui')
    <3>1. CASE Unwritten(ui, r)
      <4>1. CASE r.dirty
        BY <2>2, <3>1, <4>1 DEF Unwritten, Written
      <4>2. CASE ~r.dirty
        BY <2>2, <3>1, <4>2 DEF Unwritten, CalledOff, Dropped
      <4>3. QED
        BY <4>1, <4>2
    <3>2. CASE ~r.dirty /\ r.draftId = 0 /\ Dropped(ui, r)
      BY <2>2, <3>2 DEF Dropped
    <3>3. QED
      BY <2>5, <3>1, <3>2
  <2>8. ui'.restore = ui.restore /\ ui'.found = ui.found /\ ui'.dirty = r.dirty /\ ui'.text = r.text
    BY <2>2 DEF SameWork, SameDocument
  <2>9. ~r.dirty => ~Saving(ui')
    BY <2>2 DEF Saving, NoSave
  <2>10. QED
    BY <2>3, <2>4, <2>6, <2>7, <2>8, <2>9 DEF Turns
<1>6. CASE ReceiveFailure
  <2> DEFINE u == [ui EXCEPT !.save = NoSave]
             f == FALSE
  <2>1. Receive("failed") /\ Settle(u, f)
    BY <1>6 DEF ReceiveFailure
  <2> HIDE DEF f
  <2>2. u \in Pane /\ SameDocument(ui, u) /\ SameDrafts(ui, u) /\ u.queue = ui.queue
        /\ u.restore = ui.restore /\ u.found = ui.found /\ ~Saving(u)
    BY <1>0, Drafts DEF Pane, SameDocument, SameDrafts, Saving, NoSave
  <2> HIDE DEF u
  <2>3. Fit(u)
    <3>1. Storing(u) /\ Holding(u) /\ Document(u)
      BY <1>0, <2>2 DEF Fit, Storing, Holding, Document, SameDocument
    <3>2. QED
      BY <2>2, <3>1 DEF Fit
  <2>4. SameButFlushes(u, ui')
    BY <2>1, <2>3, SettleFields
  <2>5. alive /\ alive' /\ draft' = draft /\ spent' = spent /\ done \subseteq done'
    BY <2>1 DEF Receive, main
  <2>6. SameDocument(ui, ui') /\ SameDrafts(ui, ui') /\ ui'.queue = ui.queue
        /\ ui'.restore = ui.restore /\ ui'.found = ui.found /\ ~Saving(ui')
    BY <2>2, <2>4 DEF SameButFlushes, SameDocument, SameDrafts, Saving
  <2>7. QED
    BY <2>5, <2>6, FollowsSame DEF Turns, SameDocument, SameDrafts, Unwritten
<1>7. CASE ReceiveFlush
  <2>1. /\ Receive("flush")
        /\ SameDocument(ui, ui') /\ ui'.restore = ui.restore /\ ui'.found = ui.found
        /\ Follows(ui, ui') /\ (Unwritten(ui, ui') \/ Written(ui, ui'))
        /\ ui'.save = ui.save \/ ui.dirty
    BY <1>7, FlushFields
  <2>2. alive /\ alive' /\ draft' = draft /\ spent' = spent /\ done \subseteq done'
    BY <2>1 DEF Receive, main
  <2>3. QED
    BY <2>1, <2>2 DEF Turns, SameDocument, Saving
<1>8. QED
  BY <1>1, <1>2, <1>3, <1>4, <1>5, <1>6, <1>7

\* What a restored draft does: it is opened, or removed because its text is
\* what the vault holds.
Restores ==
  LET d == ui.found IN
  /\ alive /\ alive' /\ draft' = draft /\ spent' = spent /\ ui.restore = "found" /\ ~ui.dirty
  /\ ui'.restore = "none" /\ Follows(ui, ui')
  /\ \/ /\ d.text \in done' /\ Clear(d.id) \in DraftOp /\ ui'.queue = Append(ui.queue, Clear(d.id))
        /\ ~Saving(ui) => ~ui'.dirty /\ ui'.draftId \in {ui.draftId, 0}
     \/ /\ ui'.queue = ui.queue /\ ui'.draftId = d.id /\ HasNote(ui')
        /\ ~Saving(ui) => ui'.dirty /\ ui'.text = d.text
  /\ ui'.save = ui.save

\* Restoring a draft, here or in another note, does what Restores says.
LEMMA RestoreEffect ==
  ASSUME Inv, RestoreHere \/ RestoreElsewhere
  PROVE  Restores
<1> DEFINE d == ui.found
<1>1. Sound(ui) /\ d \in RealDraft /\ ui.snap \in Shown /\ ui.restore = "found" /\ ~ui.dirty /\ alive
  <2>1. Sound(ui) /\ Fit(ui) /\ ui.restore = "found" /\ ~ui.dirty /\ alive
    BY DEF RestoreHere, RestoreElsewhere, Restorable, Inv, Whole, Sound
  <2>2. QED
    BY <2>1 DEF Fit, Holding, Document
<1>2. ASSUME NEW u, Sound(u), u.dirty => u.draftTimer, NEW v \in Shown, SameWork(ui, u),
             ~Saving(ui) => ~u.dirty /\ u.draftId \in {ui.draftId, 0}, Follows(ui, u),
             ui' = Recovered(u, d, v), DraftSettled(v), draft' = draft, alive', spent' = spent
      PROVE  Restores
  <2> DEFINE w == Recovered(u, d, v)
  <2>1. /\ w.save = u.save /\ w.restore = "none" /\ Follows(u, w)
        /\ \/ /\ v # NoView /\ v.content = d.text /\ SameDocument(u, w) /\ w.draftId = u.draftId
              /\ Clear(d.id) \in DraftOp /\ w.queue = Append(u.queue, Clear(d.id))
           \/ /\ ~(v # NoView /\ v.content = d.text)
              /\ w.queue = u.queue /\ w.draftId = d.id /\ HasNote(w)
              /\ ~Saving(u) => w.dirty /\ w.text = d.text
    BY <1>1, <1>2, RecoveredFields
  <2> HIDE DEF w
  <2>2. ui' = w
    BY <1>2 DEF w
  <2>3. v.content = d.text => d.text \in done'
    BY <1>2 DEF DraftSettled
  <2>4. u.queue = ui.queue /\ u.save = ui.save /\ (Saving(u) <=> Saving(ui))
    BY <1>2 DEF SameWork, Saving
  <2>5. Follows(ui, w)
    BY <1>2, <2>1, FollowsTrans
  <2> HIDE DEF d
  <2>6. QED
    BY <1>1, <1>2, <2>1, <2>2, <2>3, <2>4, <2>5 DEF Restores, SameDocument, d
<1>3. CASE RestoreHere
  <2> DEFINE v == IF ui.snap.path = ui.found.path THEN ui.snap ELSE NoView
  <2>1. ui' = Recovered(ui, d, v) /\ DraftSettled(v) /\ draft' = draft /\ alive' /\ spent' = spent
    BY <1>3, <1>1 DEF RestoreHere, main
  <2>2. v \in Shown
    BY <1>1 DEF Shown
  <2> HIDE DEF v, d
  <2>3. SameWork(ui, ui) /\ Follows(ui, ui)
    BY FollowsSame DEF SameWork, SameDocument, SameDrafts
  <2>4. QED
    BY <1>1, <1>2, <2>1, <2>2, <2>3
<1>4. CASE RestoreElsewhere
  <2> DEFINE p == ui.found.path
             v == [path |-> p, content |-> disk[p]]
             u == Render(ui, v)
  <2>1. /\ ui' = Recovered(u, d, v) /\ DraftSettled(v) /\ v.content # Absent
        /\ draft' = draft /\ alive' /\ spent' = spent
    BY <1>1, <1>4 DEF RestoreElsewhere
  <2>2. v \in Shown
    BY <1>1, <2>1 DEF RealDraft, RealView, Shown, Inv, TypeOK, MaybeText
  <2> HIDE DEF v, d, p
  <2>3. Sound(u) /\ SameWork(ui, u) /\ Taken(ui, v, u)
    BY <1>1, <2>2, RenderSound, RenderFields DEF Sound
  <2> HIDE DEF u
  <2>4. (u.dirty => u.draftTimer) /\ (~Saving(ui) => ~u.dirty /\ u.draftId \in {ui.draftId, 0})
    BY <1>1, <2>3 DEF Taken, PutOff, Confirmed, Adopted, Replaced, Own, SameDrafts
  <2>5. Follows(ui, u)
    BY <2>3, TakenFollows
  <2>6. QED
    BY <1>2, <2>1, <2>2, <2>3, <2>4, <2>5
<1>5. QED
  BY <1>3, <1>4

\* The other things that happen to a pane and to the draft store.
Types ==
  /\ alive /\ alive' /\ draft' = draft /\ spent'.fault = spent.fault
  /\ budget.eager \/ ui.restore = "none"
  /\ ui'.restore = ui.restore /\ Follows(ui, ui')
  /\ Unwritten(ui, ui') \/ CalledOff(ui, ui')
  /\ \A x \in done : x \in done' \/ (ui'.dirty /\ x = ui'.text)
  /\ ui.dirty => ui.text \in done'
Stores ==
  /\ alive /\ alive' /\ ui.queue # <<>> /\ ui'.queue = Tail(ui.queue) /\ done' = done
  /\ SameDocument(ui, ui') /\ SameDrafts(ui, ui') /\ Saving(ui') = Saving(ui)
  /\ ui'.save.step = ui.save.step /\ ui'.save.content = ui.save.content
  /\ ui'.restore = ui.restore /\ ui'.found = ui.found
  /\ \/ draft' = Stored(Head(ui.queue)) /\ spent'.fault = spent.fault
     \/ draft' = draft /\ spent'.fault > 0
Looks ==
  /\ alive /\ alive' /\ draft' = draft /\ spent'.fault = spent.fault /\ done' = done
  /\ SameDocument(ui, ui') /\ SameDrafts(ui, ui') /\ ui'.queue = ui.queue /\ ui'.save = ui.save
  /\ \/ ui.restore = "found" /\ ui.dirty /\ ui'.restore = "none"
     \/ /\ ui.restore = "asked"
        /\ IF draft = NoDraft THEN ui'.restore = "none" ELSE ui'.restore = "found" /\ ui'.found = draft
Boots ==
  /\ ~alive /\ alive' /\ draft' = draft
  /\ ~ui'.dirty /\ ~Saving(ui') /\ ui'.queue = <<>> /\ ui'.draftId = 0 /\ ui'.restore = "asked"
Ends ==
  /\ ~alive' /\ ui' = Blank /\ done \subseteq done'
  /\ draft' # draft => ui.queue # <<>>
Idles ==
  /\ ui' = ui /\ draft' = draft /\ alive' = alive /\ done \subseteq done'
  /\ spent'.fault \in {spent.fault, spent.fault + 1}

\* An edit does what Types says.
LEMMA EditTypes ==
  ASSUME Inv, NEW t \in Text, Edit(t)
  PROVE  Types
<1> DEFINE w == Typed(ui, t)
           over == IF ui.dirty THEN done \cup {ui.text} ELSE done
<1>1. /\ alive /\ HasNote(ui) /\ t # ui.text /\ ui' = w /\ (budget.eager \/ ui.restore = "none")
      /\ done' = IF t = ui.loaded.content THEN over \cup {t} ELSE over \ {t}
      /\ UNCHANGED <<main, alive>> /\ spent' = [spent EXCEPT !.edit = @ + 1]
  BY DEF Edit
<1>2. /\ Follows(ui, w) /\ w.save = ui.save /\ w.restore = ui.restore
      /\ Unwritten(ui, w) \/ CalledOff(ui, w)
      /\ t # ui.loaded.content => w.text = t /\ w.dirty
  BY <1>1, TypedFields DEF Inv, Whole
<1> HIDE DEF w
<1>3. spent'.fault = spent.fault
  BY <1>1, Spends DEF Counts
<1>4. \A x \in done : x \in done' \/ (ui'.dirty /\ x = ui'.text)
  BY <1>1, <1>2
<1>5. ui.dirty => ui.text \in done'
  BY <1>1
<1>6. QED
  BY <1>1, <1>2, <1>3, <1>4, <1>5 DEF Types, main

\* An operation of the draft store does what Stores says.
LEMMA OperationStores ==
  ASSUME Inv, DraftStored \/ DraftFails
  PROVE  Stores
<1> DEFINE n == Ahead(ui.save.ahead)
           s == [ui.save EXCEPT !.ahead = n]
           q == Tail(ui.queue)
<1>1. ui \in Pane
  BY DEF Inv, TypeOK
<1>2. PICK fails \in BOOLEAN : /\ DraftOperation(fails)
        /\ IF fails THEN spent' = [spent EXCEPT !.fault = @ + 1] ELSE spent' = spent
  BY DEF DraftStored, DraftFails
<1>3. ui' = [ui EXCEPT !.queue = q, !.save = s]
  BY <1>1, <1>2 DEF DraftOperation, Pane
<1>4. s.step = ui.save.step /\ s.content = ui.save.content
  BY <1>1 DEF Pane, Save
<1> HIDE DEF n, q, s
<1>5. SameDocument(ui, ui') /\ SameDrafts(ui, ui') /\ ui'.queue = q /\ ui'.save = s
      /\ ui'.restore = ui.restore /\ ui'.found = ui.found
  BY <1>1, <1>3 DEF Pane, SameDocument, SameDrafts
<1>6. spent.fault \in Nat /\ (fails => spent'.fault = spent.fault + 1)
  BY <1>2, Spends DEF Counts
<1>7. alive /\ alive' /\ ui.queue # <<>> /\ done' = done
      /\ draft' = IF fails THEN draft ELSE Stored(Head(ui.queue))
  BY <1>2 DEF DraftOperation
<1>8. QED
  BY <1>2, <1>4, <1>5, <1>6, <1>7 DEF Stores, Saving, q

\* Looking a draft up, or giving it up, does what Looks says.
LEMMA LookingLooks ==
  ASSUME Inv, LoadDraft \/ GiveUpRestore
  PROVE  Looks
<1>1. ui \in Pane
  BY DEF Inv, TypeOK
<1>2. ASSUME NEW s, NEW f, ui' = [ui EXCEPT !.restore = s, !.found = f]
      PROVE  SameDocument(ui, ui') /\ SameDrafts(ui, ui') /\ ui'.queue = ui.queue /\ ui'.save = ui.save
             /\ ui'.restore = s /\ ui'.found = f
  BY <1>1, <1>2 DEF Pane, SameDocument, SameDrafts
<1>3. CASE LoadDraft
  <2> DEFINE s == IF draft = NoDraft THEN "none" ELSE "found"
  <2>1. ui' = [ui EXCEPT !.restore = s, !.found = draft] /\ UNCHANGED <<main, alive, done, spent>>
        /\ alive /\ ui.restore = "asked"
    BY <1>3 DEF LoadDraft
  <2>2. s = IF draft = NoDraft THEN "none" ELSE "found"
    OBVIOUS
  <2> HIDE DEF s
  <2>3. QED
    BY <1>2, <2>1, <2>2 DEF Looks, main
<1>4. CASE GiveUpRestore
  <2>1. ui' = [ui EXCEPT !.restore = "none", !.found = NoDraft] /\ UNCHANGED <<main, alive, done, spent>>
        /\ alive /\ ui.restore = "found" /\ ui.dirty
    BY <1>4 DEF GiveUpRestore
  <2>2. QED
    BY <1>2, <2>1 DEF Looks, main
<1>5. QED
  BY <1>3, <1>4

\* A new window does what Boots says.
LEMMA BootBoots ==
  ASSUME Inv, NEW v, Boot(v)
  PROVE  Boots
<1> DEFINE w == Render(Blank, v)
<1>1. v \in Shown /\ Fit(Blank)
  BY ViewsShown, BlankSound DEF Boot, Sound
<1>2. SameWork(Blank, w) /\ Taken(Blank, v, w) /\ Fit(w)
  BY <1>1, RenderFields, RenderSound, BlankSound DEF Sound
<1>3. ui' = [w EXCEPT !.restore = "asked"] /\ ~alive /\ alive' /\ draft' = draft
  BY DEF Boot
<1> HIDE DEF w
<1>4. Blank.queue = <<>> /\ Blank.save = NoSave /\ ~Blank.dirty /\ Blank.draftId = 0 /\ ~Saving(Blank)
  BY DEF Blank, Saving, NoSave
<1>5. ~w.dirty /\ w.draftId = 0
  BY <1>2, <1>4 DEF Taken, PutOff, Confirmed, Adopted, Replaced, Own, SameDrafts
<1>6. ui'.queue = w.queue /\ ui'.save = w.save /\ ui'.dirty = w.dirty /\ ui'.draftId = w.draftId
      /\ ui'.restore = "asked"
  BY <1>2, <1>3 DEF Fit, Pane
<1>7. QED
  BY <1>2, <1>3, <1>4, <1>5, <1>6 DEF Boots, SameWork, Saving

\* Every step is of one of these kinds.
LEMMA StepKinds ==
  ASSUME Inv, [Next]_vars
  PROVE  Turns \/ Types \/ Restores \/ Stores \/ Looks \/ Boots \/ Ends \/ Idles
<1>0. \A c \in Counts : [spent EXCEPT ![c] = @ + 1].fault \in {spent.fault, spent.fault + 1}
  BY Spends DEF Counts
<1>1. CASE Next
  <2>1. CASE Tasks
    BY <2>1, TaskTurns, OperationStores, LookingLooks, RestoreEffect DEF Tasks
  <2>2. CASE Service
    <3>1. ASSUME KernelWrite \/ \E v \in View : Publish(v) \/ Notify(v) PROVE Idles
      <4>1. UNCHANGED <<ui, draft, alive, spent>> /\ done \subseteq done'
        BY <3>1 DEF KernelWrite, Publish, Notify, Wrote
      <4>2. QED
        BY <1>0, <4>1 DEF Idles
    <3>2. ASSUME NEW a \in answers, TakeAnswer(a) PROVE Idles \/ Ends
      BY <1>0, <3>2 DEF TakeAnswer, Idles, Ends, RendererGone, LastOperation
    <3>3. QED
      BY <2>2, <3>1, <3>2, BootBoots DEF Service
  <2>3. CASE World
    <3>1. ASSUME KernelFails \/ AskFlush \/ FlushTimeout
                 \/ (\E p \in Path, t \in Text : ExternalSave(p, t)) \/ ExternalDelete
          PROVE  Idles
      <4>1. UNCHANGED <<ui, draft, alive>> /\ done \subseteq done'
        BY <3>1 DEF KernelFails, Wrote, AskFlush, FlushTimeout, ExternalSave, ExternalDelete, External,
                    main
      <4>2. spent' = spent \/ \E c \in Counts : spent' = [spent EXCEPT ![c] = @ + 1]
        BY <3>1 DEF KernelFails, AskFlush, FlushTimeout, ExternalSave, ExternalDelete, External, Counts
      <4>3. QED
        BY <1>0, <4>1, <4>2 DEF Idles
    <3>2. RendererCrash \/ ApplicationCrash => Ends
      BY DEF RendererCrash, ApplicationCrash, RendererGone, Ends, LastOperation, Wrote
    <3>3. QED
      BY <2>3, <3>1, <3>2, EditTypes, OperationStores DEF World
  <2>4. QED
    BY <1>1, <2>1, <2>2, <2>3 DEF Next
<1>2. CASE UNCHANGED vars
  BY <1>0, <1>2 DEF vars, moving, main, Idles
<1>3. QED
  BY <1>1, <1>2

\* The draft store lags behind a dirty text by what is scheduled or queued.
StoredLast ==
  ui.dirty => ui.draftTimer \/ LastIs(ui)
              \/ (ui.queue = <<>> /\ (spent.fault = 0 => draft = Mine(ui)))

\* The rest of a queue.
LEMMA Tails ==
  ASSUME NEW q \in Seq(DraftOp), q # <<>>
  PROVE  LET b == Tail(q) IN
         /\ b \in Seq(DraftOp) /\ Len(b) = Len(q) - 1 /\ Len(q) \in Nat /\ Len(q) > 0
         /\ DOMAIN b = 1 .. Len(b) /\ DOMAIN q = 1 .. Len(q) /\ Head(q) = q[1] /\ 1 \in DOMAIN q
         /\ \A k \in DOMAIN b : b[k] = q[k + 1] /\ k + 1 \in DOMAIN q
         /\ b = <<>> => Len(q) = 1
         /\ b # <<>> => b[Len(b)] = q[Len(q)]
<1> DEFINE b == Tail(q)
<1>1. /\ b \in Seq(DraftOp) /\ Len(b) = Len(q) - 1 /\ Len(q) \in Nat /\ Len(q) > 0
      /\ DOMAIN b = 1 .. Len(b) /\ DOMAIN q = 1 .. Len(q) /\ Head(q) = q[1]
      /\ \A k \in 1 .. Len(b) : b[k] = q[k + 1]
  BY HeadTailProperties, LenProperties, EmptySeq
<1> HIDE DEF b
<1>2. b = <<>> => Len(b) = 0
  BY EmptySeq
<1>3. b # <<>> => Len(b) > 0
  BY <1>1, EmptySeq
<1>4. QED
  BY <1>1, <1>2, <1>3 DEF b

\* StoredLast is kept by every step.
LEMMA StoredStep ==
  ASSUME Inv, StoredLast, [Next]_vars
  PROVE  StoredLast'
<1>1. CASE Turns \/ Types \/ Restores
  <2>1. Follows(ui, ui') /\ draft' = draft /\ spent'.fault = spent.fault
    BY <1>1 DEF Turns, Types, Restores
  <2>2. QED
    BY <2>1 DEF StoredLast, Follows, Still, LastIs, Mine
<1>2. CASE Looks
  BY <1>2 DEF Looks, StoredLast, LastIs, Mine, SameDocument, SameDrafts
<1>3. CASE Boots \/ Ends
  BY <1>3 DEF Boots, Ends, StoredLast, Blank
<1>4. CASE Idles
  <2>1. spent.fault \in Nat
    BY Spends DEF Counts
  <2>2. QED
    BY <1>4, <2>1 DEF Idles, StoredLast, LastIs, Mine
<1>5. CASE Stores
  <2> DEFINE q == ui.queue
  <2>1. ui.queue \in Seq(DraftOp) /\ ui.queue # <<>> /\ ui'.queue = Tail(ui.queue)
    BY <1>5 DEF Stores, Inv, TypeOK, Pane
  <2>2. Mine(ui') = Mine(ui) /\ ui'.dirty = ui.dirty /\ ui'.draftTimer = ui.draftTimer
    BY <1>5 DEF Stores, Mine, SameDocument, SameDrafts
  <2>3. /\ q[1] = Head(q) /\ (Tail(q) = <<>> => Len(q) = 1)
        /\ Tail(q) # <<>> => Tail(q)[Len(Tail(q))] = q[Len(q)]
    BY <2>1, Tails
  <2>4. CASE ui.dirty /\ LastIs(ui) /\ Tail(q) = <<>>
    <3>1. Head(q) = [op |-> "save", draft |-> Mine(ui)]
      BY <2>3, <2>4 DEF LastIs
    <3>2. Stored(Head(q)) = Mine(ui)
      BY <3>1 DEF Stored
    <3>3. QED
      BY <1>5, <2>1, <2>2, <2>4, <3>2 DEF Stores, StoredLast
  <2>5. CASE ui.dirty /\ LastIs(ui) /\ Tail(q) # <<>>
    BY <2>1, <2>2, <2>3, <2>5 DEF StoredLast, LastIs
  <2>6. QED
    BY <2>1, <2>2, <2>4, <2>5 DEF StoredLast
<1>6. QED
  BY <1>1, <1>2, <1>3, <1>4, <1>5, StepKinds

-----------------------------------------------------------------------------
(* A user who waits until his draft was looked up loses no draft.          *)

\* What a patient user has nothing to lose from: a text that is done with, or
\* that is still in the editor.
Safe(x) == x \in done \/ (ui.dirty /\ x = ui.text)
\* The same after a step.
SafeAfter(x) == x \in done' \/ (ui'.dirty /\ x = ui'.text)
\* A pane that looks a draft up has not been used yet.
Looking == ui.restore # "none"
Unopened ==
  /\ ~alive => ui.queue = <<>>
  /\ alive /\ Looking => /\ ~ui.dirty /\ ~Saving(ui) /\ ui.queue = <<>> /\ ui.draftId = 0
                         /\ ui.restore = "found" => ui.found = draft
\* The drafts that are stored, or wait to be, are of safe texts.
StoredSafe ==
  /\ \A k \in DOMAIN ui.queue : ui.queue[k].op = "save" => Safe(ui.queue[k].draft.text)
  /\ draft # NoDraft /\ alive /\ ~Looking => Safe(draft.text)
Patient == ~budget.eager => Unopened /\ StoredSafe

\* A safe text stays safe, and so do those a task puts into the queue.
LEMMA QueueSafe ==
  ASSUME Inv, StoredSafe, \A x : Safe(x) => SafeAfter(x),
         Unwritten(ui, ui') \/ Written(ui, ui') \/ CalledOff(ui, ui') \/ Dropped(ui, ui')
  PROVE  \A k \in DOMAIN ui'.queue : ui'.queue[k].op = "save" => SafeAfter(ui'.queue[k].draft.text)
<1> DEFINE q == ui.queue
           r == ui'.queue
<1>0. q \in Seq(DraftOp) /\ \A k \in DOMAIN q : q[k].op = "save" => Safe(q[k].draft.text)
  BY DEF StoredSafe, Inv, TypeOK, Pane
<1>1. CASE r = q
  BY <1>0, <1>1
<1>2. ASSUME NEW o \in DraftOp, r = Append(q, o), o.op = "save" => SafeAfter(o.draft.text)
      PROVE  \A k \in DOMAIN r : r[k].op = "save" => SafeAfter(r[k].draft.text)
  <2> HIDE DEF q, r
  <2>1. /\ DOMAIN q = 1 .. Len(q) /\ DOMAIN r = 1 .. Len(q) + 1 /\ Len(q) \in Nat
        /\ \A k \in DOMAIN q : r[k] = q[k]
        /\ r[Len(q) + 1] = o
    BY <1>0, <1>2, Appended
  <2>2. TAKE k \in DOMAIN r
  <2>3. k \in DOMAIN q \/ k = Len(q) + 1
    BY <2>1, <2>2
  <2>4. QED
    BY <1>0, <1>2, <2>1, <2>3
<1>3. CASE Written(ui, ui')
  <2> DEFINE o == [op |-> "save", draft |-> Mine(ui')]
  <2>1. o \in DraftOp /\ r = Append(q, o) /\ ui'.dirty /\ o.draft.text = ui'.text
    BY <1>3 DEF Written, Mine
  <2>2. SafeAfter(o.draft.text)
    BY <2>1 DEF Safe, SafeAfter
  <2> HIDE DEF o, q, r
  <2>3. QED
    BY <1>2, <2>1, <2>2 DEF q, r
<1>4. CASE CalledOff(ui, ui')
  <2> DEFINE o == Clear(ui.draftId)
  <2>1. o \in DraftOp /\ r = Append(q, o) /\ o.op = "clear"
    BY <1>4 DEF CalledOff, Clear
  <2> HIDE DEF o, q, r
  <2>2. QED
    BY <1>2, <2>1 DEF q, r
<1>5. QED
  BY <1>1, <1>3, <1>4 DEF Unwritten, Dropped

\* Patient is kept by every step.
LEMMA PatientStep ==
  ASSUME Inv, Patient, [Next]_vars
  PROVE  Patient'
<1> SUFFICES ASSUME ~budget.eager, Unopened, StoredSafe PROVE Unopened' /\ StoredSafe'
  <2>1. budget' = budget
    BY DEF Next, vars
  <2>2. QED
    BY <2>1 DEF Patient
<1>0. ui.queue \in Seq(DraftOp)
  BY DEF Inv, TypeOK, Pane
<1>1. CASE (Turns \/ Types) /\ ~Looking
  <2>1. /\ alive /\ alive' /\ draft' = draft /\ ui'.restore = ui.restore
        /\ Unwritten(ui, ui') \/ Written(ui, ui') \/ CalledOff(ui, ui') \/ Dropped(ui, ui')
    BY <1>1 DEF Turns, Types
  <2>2. \A x : Safe(x) => SafeAfter(x)
    BY <1>1 DEF Turns, Types, Safe, SafeAfter
  <2>3. \A k \in DOMAIN ui'.queue : ui'.queue[k].op = "save" => SafeAfter(ui'.queue[k].draft.text)
    BY <2>1, <2>2, QueueSafe
  <2>4. draft' # NoDraft => SafeAfter(draft'.text)
    BY <1>1, <2>1, <2>2 DEF StoredSafe
  <2>5. QED
    BY <1>1, <2>1, <2>3, <2>4 DEF Unopened, StoredSafe, Looking, Safe, SafeAfter
<1>2. CASE (Turns \/ Types) /\ Looking
  <2>1. Turns
    BY <1>2 DEF Types, Looking
  <2>2. /\ alive' /\ ~ui'.dirty /\ ~Saving(ui') /\ ui'.restore = ui.restore /\ ui'.found = ui.found
        /\ draft' = draft
    BY <1>2, <2>1 DEF Turns, Unopened
  <2>3. ui'.queue = <<>> /\ ui'.draftId = 0
    BY <1>2, <2>1, <2>2 DEF Turns, Unopened, Unwritten, Written, CalledOff, Dropped
  <2>4. QED
    BY <1>2, <2>1, <2>2, <2>3 DEF Unopened, StoredSafe, Looking, Turns
<1>3. CASE Stores
  <2> DEFINE q == ui.queue
             b == Tail(q)
  <2>1. /\ alive' /\ ~Looking /\ q # <<>> /\ ui'.queue = b /\ ui'.restore = ui.restore
        /\ draft' = Stored(Head(q)) \/ draft' = draft
    BY <1>3 DEF Stores, Unopened
  <2>2. \A x : SafeAfter(x) <=> Safe(x)
    BY <1>3 DEF Stores, Safe, SafeAfter, SameDocument
  <2>3. Head(q) = q[1] /\ 1 \in DOMAIN q /\ \A k \in DOMAIN b : b[k] = q[k + 1] /\ k + 1 \in DOMAIN q
    BY <1>0, <2>1, Tails
  <2>4. Head(q) \in DraftOp
    BY <1>0, <2>1
  <2> HIDE DEF b
  <2>5. \A k \in DOMAIN b : b[k].op = "save" => SafeAfter(b[k].draft.text)
    BY <2>2, <2>3 DEF StoredSafe
  <2>6. draft' # NoDraft => SafeAfter(draft'.text)
    <3>1. CASE draft' = draft
      BY <1>3, <2>1, <2>2, <3>1 DEF StoredSafe, Stores
    <3>2. CASE draft' # draft
      <4>1. draft' # NoDraft => Head(q).op = "save" /\ draft' = Head(q).draft
        BY <2>1, <2>4, <3>2 DEF Stored, DraftOp
      <4>2. QED
        BY <2>2, <2>3, <4>1 DEF StoredSafe
    <3>3. QED
      BY <3>1, <3>2
  <2>7. QED
    BY <2>1, <2>5, <2>6 DEF Unopened, StoredSafe, Looking, Safe, SafeAfter
<1>4. CASE Restores
  <2> DEFINE d == ui.found
  <2>1. /\ alive' /\ draft' = draft /\ d = draft /\ ~Saving(ui) /\ ui.queue = <<>> /\ ui'.restore = "none"
    BY <1>4 DEF Restores, Unopened, Looking
  <2>2. \/ /\ d.text \in done' /\ Clear(d.id) \in DraftOp /\ ui'.queue = Append(<<>>, Clear(d.id))
        \/ ui'.queue = <<>> /\ ui'.dirty /\ ui'.text = d.text
    BY <1>4, <2>1 DEF Restores
  <2>3. SafeAfter(draft'.text)
    BY <2>1, <2>2 DEF Safe, SafeAfter
  <2>4. \A k \in DOMAIN ui'.queue : ui'.queue[k].op # "save"
    <3>1. CASE ui'.queue = <<>>
      BY <3>1
    <3>2. CASE ui'.queue = Append(<<>>, Clear(d.id)) /\ Clear(d.id) \in DraftOp
      <4> DEFINE o == Clear(d.id)
      <4>1. o.op = "clear" /\ o \in DraftOp
        BY <3>2 DEF Clear
      <4> HIDE DEF o
      <4>2. \A k \in DOMAIN Append(<<>>, o) : Append(<<>>, o)[k] = o
        BY <4>1
      <4>3. QED
        BY <3>2, <4>1, <4>2 DEF o
    <3>3. QED
      BY <2>2, <3>1, <3>2
  <2>5. QED
    BY <2>1, <2>3, <2>4 DEF Unopened, StoredSafe, Looking, Safe, SafeAfter
<1>5. CASE Looks
  <2>1. /\ alive' /\ draft' = draft /\ Looking /\ ui.restore = "asked" /\ ~ui'.dirty /\ ~Saving(ui')
        /\ ui'.queue = <<>> /\ ui'.draftId = 0
    BY <1>5 DEF Looks, Unopened, Looking, SameDocument, SameDrafts, Saving
  <2>2. QED
    BY <1>5, <2>1 DEF Looks, Unopened, StoredSafe, Looking
<1>6. CASE Boots \/ Ends
  <2>1. Blank.queue = <<>>
    BY DEF Blank
  <2>2. QED
    BY <1>6, <2>1 DEF Boots, Ends, Unopened, StoredSafe, Looking
<1>7. CASE Idles
  <2>1. \A x : Safe(x) => SafeAfter(x)
    BY <1>7 DEF Idles, Safe, SafeAfter
  <2>2. QED
    BY <1>7, <2>1 DEF Idles, Unopened, StoredSafe, Looking, Safe, SafeAfter
<1>8. QED
  BY <1>1, <1>2, <1>3, <1>4, <1>5, <1>6, <1>7, StepKinds

\* The step of DraftOwned: a draft is replaced or removed when its text is safe.
LEMMA OwnedStep ==
  ASSUME Inv, StoredLast, Patient, [Next]_vars, draft # NoDraft, draft'.id # draft.id, ~budget.eager
  PROVE  draft.text \in done' \/ Coming(draft.text)
<1>1. Unopened /\ StoredSafe
  BY DEF Patient
<1>2. ui.queue # <<>> /\ done \subseteq done'
  BY StepKinds DEF Turns, Types, Restores, Stores, Looks, Boots, Ends, Idles
<1>3. Safe(draft.text)
  BY <1>1, <1>2 DEF Unopened, StoredSafe
<1>4. CASE ui.dirty /\ draft.text = ui.text
  <2>1. ui.draftTimer \/ LastIs(ui)
    BY <1>2, <1>4 DEF StoredLast
  <2>2. ASSUME LastIs(ui) PROVE Coming(draft.text)
    <3> DEFINE n == Len(ui.queue)
    <3>1. n \in 1 .. n
      <4>1. ui.queue \in Seq(DraftOp)
        BY DEF Inv, TypeOK, Pane
      <4>2. QED
        BY <1>2, <4>1, Tails
    <3>2. ui.queue[n].op = "save" /\ ui.queue[n].draft.text = ui.text
      BY <2>2 DEF LastIs, Mine
    <3>3. QED
      BY <1>4, <3>1, <3>2 DEF Coming
  <2>3. QED
    BY <1>4, <2>1, <2>2 DEF Coming
<1>5. QED
  BY <1>2, <1>3, <1>4 DEF Safe, SafeAfter

\* Both hold when the program starts.
LEMMA InitDrafts ==
  ASSUME Init
  PROVE  StoredLast /\ Patient
<1>1. Inv
  BY InitInv
<1>2. Sound(Blank) /\ sent \in Shown /\ ui = Render(Blank, sent) /\ draft = NoDraft /\ alive
  BY <1>1, BlankSound DEF Init, Inv, Whole
<1> DEFINE w == Render(Blank, sent)
<1>3. SameWork(Blank, w) /\ Taken(Blank, sent, w)
  BY <1>2, RenderFields DEF Sound
<1> HIDE DEF w
<1>4. Blank.queue = <<>> /\ Blank.save = NoSave /\ ~Blank.dirty /\ ~Saving(Blank) /\ Blank.restore = "none"
  BY DEF Blank, Saving, NoSave
<1>5. ~w.dirty /\ w.queue = <<>> /\ w.restore = "none"
  BY <1>3, <1>4 DEF Taken, PutOff, Confirmed, Adopted, Replaced, Own, SameWork
<1>6. QED
  BY <1>2, <1>5 DEF StoredLast, Patient, Unopened, StoredSafe, Looking, w

\* They are invariants.
LEMMA AlwaysStored == Spec => [](Inv /\ StoredLast /\ Patient)
<1>1. Inv /\ StoredLast /\ Patient /\ [Next]_vars => (Inv /\ StoredLast /\ Patient)'
  BY StepInv, StoredStep, PatientStep
<1>2. QED
  BY InitInv, InitDrafts, <1>1, PTL DEF Spec

\* Property DraftOwned, for any texts, notes and bounds: the draft file is replaced by
\* another edit's draft, or removed, only when its text is in the vault, typed over, or
\* about to be stored again (persistCurrentEditorDraft, clearCurrentEditorDraft).
THEOREM DraftsAlwaysOwned == Spec => DraftOwned
<1>1. Inv /\ StoredLast /\ Patient /\ [Next]_vars =>
        [draft # NoDraft /\ draft'.id # draft.id /\ ~budget.eager
           => draft.text \in done' \/ Coming(draft.text)]_vars
  BY OwnedStep
<1>2. QED
  BY AlwaysStored, <1>1, PTL DEF Spec, DraftOwned

-----------------------------------------------------------------------------
(* Left alone, a clean pane has accounted for every draft.                 *)

\* Whether the removal of draft i waits in the queue behind place k.
Cleared(i, q, k) == \E m \in DOMAIN q : m > k /\ q[m].op = "clear" /\ q[m].draft.id = i
\* Every draft that is stored or will be, other than that of the pane, is
\* removed by the queue; and a clean pane gives its draft up with its save.
Accounted(u, d) ==
  /\ \A k \in DOMAIN u.queue :
       u.queue[k].op = "save" /\ u.queue[k].draft.id # u.draftId
         => Cleared(u.queue[k].draft.id, u.queue, k)
  /\ u.restore = "none" /\ d.id # 0 /\ d.id # u.draftId => Cleared(d.id, u.queue, 0)
  /\ ~u.dirty /\ u.draftId # 0 => Saving(u)

\* What a message box shows: one text only, nothing but c after c has been
\* shown, and the reply to at most one save.
Uniform(box, x) == \A k \in DOMAIN box : box[k].kind \in Showing => box[k].view.content = x
EndsWith(box, c) ==
  \A j, k \in DOMAIN box :
    j < k /\ box[j].kind \in Showing /\ box[k].kind \in Showing /\ box[j].view.content = c
      => box[k].view.content = c
Proper(box) == \A k \in DOMAIN box :
  box[k].kind # "failed" /\ (box[k].kind \in Showing => box[k].view.path # Absent)
Unanswered(box) == \A k \in DOMAIN box : box[k].kind # "reply"
AnsweredOnce(box, c) ==
  /\ \A k \in DOMAIN box : box[k].kind = "reply" => box[k].view.content = c
  /\ \A j, k \in DOMAIN box : box[j].kind = "reply" /\ box[k].kind = "reply" => j = k

\* The vault holds what was published last, unless a save is about to publish.
Published ==
  /\ active \in Path /\ disk[active] # Absent
  /\ job.step = "publish" => disk[job.path] = job.content /\ job.content # Absent
  /\ sent # [path |-> active, content |-> disk[active]] => job.step = "publish" /\ job.path = active
\* The text of the note as far as the runtime knows.
Under(j, s) == IF j.step = "none" THEN s.content ELSE j.content
\* What the messages show a pane, from the stage of its save.
Coherent(u, box, j, s) ==
  LET c == u.save.content IN
  /\ u.snap.path # Absent /\ Proper(box)
  /\ IF u.save.step = "sent"
       THEN /\ EndsWith(box, c) /\ Under(j, s) = c
            /\ IF j.step = "none" THEN AnsweredOnce(box, c) ELSE Unanswered(box)
       ELSE Uniform(box, Under(j, s)) /\ Unanswered(box)
  /\ ~u.dirty /\ u.draftId # 0 => Uniform(box, c) /\ (j.step # "none" => j.content = c)
\* Drafts and messages of the pane are in this order.
InOrder == alive => Accounted(ui, draft) /\ Coherent(ui, inbox, job, sent)
Undisturbed == Alone /\ ~budget.eager => Published /\ InOrder

\* What a box shows once its first message is taken, and what that message shows.
LEMMA Rest ==
  ASSUME NEW box \in Seq(Message), box # <<>>
  PROVE  LET b == Tail(box)
             h == Head(box)
         IN /\ \A x : Uniform(box, x) => Uniform(b, x)
            /\ \A c : EndsWith(box, c) => EndsWith(b, c)
            /\ Proper(box) => Proper(b) /\ h.kind # "failed" /\ (h.kind \in Showing => h.view.path # Absent)
            /\ Unanswered(box) => Unanswered(b) /\ h.kind # "reply"
            /\ \A c : AnsweredOnce(box, c) => AnsweredOnce(b, c)
            /\ \A x : Uniform(box, x) /\ h.kind \in Showing => h.view.content = x
            /\ \A c : EndsWith(box, c) /\ h.kind \in Showing /\ h.view.content = c => Uniform(b, c)
            /\ \A c : AnsweredOnce(box, c) /\ h.kind = "reply" => Unanswered(b) /\ h.view.content = c
<1> DEFINE b == Tail(box)
           h == Head(box)
<1>1. /\ b \in Seq(Message) /\ Len(b) = Len(box) - 1 /\ Len(box) \in Nat /\ Len(box) > 0
      /\ DOMAIN b = 1 .. Len(b) /\ DOMAIN box = 1 .. Len(box) /\ h = box[1]
      /\ \A k \in 1 .. Len(b) : b[k] = box[k + 1]
  BY HeadTailProperties, LenProperties, EmptySeq
<1> HIDE DEF b, h
<1>2. 1 \in DOMAIN box /\ \A k \in DOMAIN b : k + 1 \in DOMAIN box /\ b[k] = box[k + 1] /\ 1 < k + 1
  BY <1>1
<1>3. \A j, k \in DOMAIN b : (j < k => j + 1 < k + 1) /\ (j + 1 = k + 1 => j = k)
  BY <1>1
<1>4. \A x : Uniform(box, x) => Uniform(b, x)
  BY <1>2 DEF Uniform
<1>5. ASSUME NEW c, EndsWith(box, c) PROVE EndsWith(b, c)
  BY <1>2, <1>3, <1>5 DEF EndsWith
<1>6. Proper(box) => Proper(b) /\ h.kind # "failed" /\ (h.kind \in Showing => h.view.path # Absent)
  BY <1>1, <1>2 DEF Proper
<1>7. Unanswered(box) => Unanswered(b) /\ h.kind # "reply"
  BY <1>1, <1>2 DEF Unanswered
<1>8. ASSUME NEW c, AnsweredOnce(box, c) PROVE AnsweredOnce(b, c)
  BY <1>2, <1>3, <1>8 DEF AnsweredOnce
<1>9. \A x : Uniform(box, x) /\ h.kind \in Showing => h.view.content = x
  BY <1>1, <1>2 DEF Uniform
<1>10. ASSUME NEW c, EndsWith(box, c), h.kind \in Showing, h.view.content = c PROVE Uniform(b, c)
  BY <1>1, <1>2, <1>10 DEF EndsWith, Uniform
<1>11. ASSUME NEW c, AnsweredOnce(box, c), h.kind = "reply" PROVE Unanswered(b) /\ h.view.content = c
  <2>1. \A k \in DOMAIN b : b[k].kind # "reply"
    <3> SUFFICES ASSUME NEW k \in DOMAIN b, b[k].kind = "reply" PROVE FALSE
      OBVIOUS
    <3>1. k + 1 \in DOMAIN box /\ box[k + 1].kind = "reply" /\ box[1].kind = "reply" /\ 1 < k + 1
      BY <1>1, <1>2, <1>11
    <3>2. 1 = k + 1
      BY <1>2, <1>11, <3>1 DEF AnsweredOnce
    <3>3. QED
      BY <1>1, <3>1, <3>2
  <2>2. QED
    BY <1>1, <1>2, <1>11, <2>1 DEF Unanswered, AnsweredOnce
<1>12. QED
  BY <1>4, <1>5, <1>6, <1>7, <1>8, <1>9, <1>10, <1>11 DEF b, h

\* What a box shows once more messages of text x have come.
LEMMA Joined ==
  ASSUME NEW box \in Seq(Message), NEW ms \in Seq(Message), NEW x, Uniform(ms, x), Proper(ms)
  PROVE  LET b == box \o ms IN
         /\ Uniform(box, x) => Uniform(b, x)
         /\ EndsWith(box, x) => EndsWith(b, x)
         /\ Proper(box) => Proper(b)
         /\ Unanswered(box) /\ Unanswered(ms) => Unanswered(b)
         /\ \A c : AnsweredOnce(box, c) /\ Unanswered(ms) => AnsweredOnce(b, c)
         /\ Unanswered(box) /\ AnsweredOnce(ms, x) => AnsweredOnce(b, x)
<1> DEFINE b == box \o ms
           n == Len(box)
<1>1. /\ Len(b) = n + Len(ms) /\ n \in Nat /\ Len(ms) \in Nat
      /\ DOMAIN b = 1 .. Len(b) /\ DOMAIN box = 1 .. n /\ DOMAIN ms = 1 .. Len(ms)
      /\ \A k \in 1 .. Len(b) : b[k] = IF k <= n THEN box[k] ELSE ms[k - n]
  BY ConcatProperties, LenProperties
<1> HIDE DEF b, n
<1>2. \A k \in DOMAIN b : \/ k \in DOMAIN box /\ b[k] = box[k] /\ k <= n
                          \/ k - n \in DOMAIN ms /\ b[k] = ms[k - n] /\ k > n
  <2> TAKE k \in DOMAIN b
  <2>1. CASE k <= n
    BY <1>1, <2>1
  <2>2. CASE k > n
    BY <1>1, <2>2
  <2>3. QED
    BY <1>1, <2>1, <2>2
<1>2a. \A j, k \in DOMAIN b : /\ ~(j < k /\ j > n /\ k <= n) /\ (j - n = k - n => j = k)
  BY <1>1
<1>3. Uniform(box, x) => Uniform(b, x)
  BY <1>2 DEF Uniform
<1>4. ASSUME EndsWith(box, x) PROVE EndsWith(b, x)
  <2> SUFFICES ASSUME NEW j \in DOMAIN b, NEW k \in DOMAIN b, j < k, b[j].kind \in Showing,
                      b[k].kind \in Showing, b[j].view.content = x
               PROVE  b[k].view.content = x
    BY DEF EndsWith
  <2>1. CASE k - n \in DOMAIN ms /\ b[k] = ms[k - n]
    BY <2>1 DEF Uniform
  <2>2. CASE k \in DOMAIN box /\ b[k] = box[k] /\ k <= n
    <3>1. j \in DOMAIN box /\ b[j] = box[j]
      BY <1>1, <1>2, <2>2
    <3>2. QED
      BY <1>4, <2>2, <3>1 DEF EndsWith
  <2>3. QED
    BY <1>2, <2>1, <2>2
<1>5. Proper(box) => Proper(b)
  BY <1>2 DEF Proper
<1>6. Unanswered(box) /\ Unanswered(ms) => Unanswered(b)
  BY <1>2 DEF Unanswered
<1>7. ASSUME NEW c, AnsweredOnce(box, c), Unanswered(ms) PROVE AnsweredOnce(b, c)
  <2>1. \A k \in DOMAIN b : b[k].kind = "reply" => k \in DOMAIN box /\ b[k] = box[k]
    BY <1>2, <1>7 DEF Unanswered
  <2>2. QED
    BY <1>7, <2>1 DEF AnsweredOnce
<1>8. ASSUME Unanswered(box), AnsweredOnce(ms, x) PROVE AnsweredOnce(b, x)
  <2>1. \A k \in DOMAIN b : b[k].kind = "reply" => k - n \in DOMAIN ms /\ b[k] = ms[k - n]
    BY <1>2, <1>8 DEF Unanswered
  <2>2. QED
    BY <1>2a, <1>8, <2>1 DEF AnsweredOnce
<1>9. QED
  BY <1>3, <1>4, <1>5, <1>6, <1>7, <1>8 DEF b

\* The removals that wait, when the queue grows and when it is worked off.
LEMMA ClearedLater ==
  ASSUME NEW q \in Seq(DraftOp), NEW o \in DraftOp
  PROVE  LET r == Append(q, o) IN
         /\ \A i, k : Cleared(i, q, k) => Cleared(i, r, k)
         /\ \A i : \A k \in DOMAIN q \cup {0} : o = Clear(i) => Cleared(i, r, k)
<1> DEFINE r == Append(q, o)
<1>1. /\ r # <<>> /\ Len(r) = Len(q) + 1 /\ r[Len(r)] = o
      /\ DOMAIN q = 1 .. Len(q) /\ DOMAIN r = 1 .. Len(q) + 1 /\ Len(q) \in Nat
      /\ \A k \in DOMAIN q : r[k] = q[k]
  BY Appended
<1> HIDE DEF r
<1>2. ASSUME NEW i, NEW k, Cleared(i, q, k) PROVE Cleared(i, r, k)
  BY <1>1, <1>2 DEF Cleared
<1>3. ASSUME NEW i, NEW k \in DOMAIN q \cup {0}, o = Clear(i) PROVE Cleared(i, r, k)
  <2>1. o.op = "clear" /\ o.draft.id = i
    BY <1>3 DEF Clear, NoDraft
  <2>2. Len(q) + 1 \in DOMAIN r /\ Len(q) + 1 > k /\ r[Len(q) + 1] = o
    BY <1>1
  <2>3. QED
    BY <2>1, <2>2 DEF Cleared
<1>4. QED
  BY <1>2, <1>3 DEF r

\* The same when the first operation of the queue is done.
LEMMA ClearedSooner ==
  ASSUME NEW q \in Seq(DraftOp), q # <<>>
  PROVE  \A i : /\ \A k \in Nat : Cleared(i, q, k + 1) => Cleared(i, Tail(q), k)
                /\ Cleared(i, q, 0) =>
                     Cleared(i, Tail(q), 0) \/ (Head(q).op = "clear" /\ Head(q).draft.id = i)
<1> DEFINE b == Tail(q)
<1>1. /\ Len(b) = Len(q) - 1 /\ Len(q) \in Nat /\ Len(q) > 0
      /\ DOMAIN b = 1 .. Len(b) /\ DOMAIN q = 1 .. Len(q) /\ Head(q) = q[1]
      /\ \A k \in DOMAIN b : b[k] = q[k + 1]
  BY Tails
<1> HIDE DEF b
<1>2. ASSUME NEW i, NEW k \in Nat, Cleared(i, q, k + 1) PROVE Cleared(i, b, k)
  <2>1. PICK m \in DOMAIN q : m > k + 1 /\ q[m].op = "clear" /\ q[m].draft.id = i
    BY <1>2 DEF Cleared
  <2>2. m - 1 \in DOMAIN b /\ m - 1 > k /\ b[m - 1] = q[m]
    BY <1>1, <2>1
  <2>3. QED
    BY <2>1, <2>2 DEF Cleared
<1>3. ASSUME NEW i, Cleared(i, q, 0), ~(Head(q).op = "clear" /\ Head(q).draft.id = i)
      PROVE  Cleared(i, b, 0)
  <2>1. PICK m \in DOMAIN q : m > 0 /\ q[m].op = "clear" /\ q[m].draft.id = i
    BY <1>3 DEF Cleared
  <2>2. m # 1
    BY <1>1, <1>3, <2>1
  <2>3. m - 1 \in DOMAIN b /\ m - 1 > 0 /\ b[m - 1] = q[m]
    BY <1>1, <2>1, <2>2
  <2>4. QED
    BY <2>1, <2>3 DEF Cleared
<1>4. QED
  BY <1>2, <1>3 DEF b

\* A pane that was shown a note has one.
LEMMA HasNoteShown ==
  ASSUME NEW u, Sound(u), u.snap.path # Absent
  PROVE  HasNote(u)
<1>1. CASE u.dirty
  BY <1>1, DirtyHasNote DEF Sound
<1>2. CASE ~u.dirty
  BY <1>2 DEF Sound, Agrees, Note, HasNote
<1>3. QED
  BY <1>1, <1>2, DirtyHasNote DEF Sound

\* A task that writes a draft, or calls it off, leaves no draft unaccounted for.
LEMMA AccountedKept ==
  ASSUME NEW u, Fit(u), NEW w, NEW d, Accounted(u, d), w.restore = u.restore,
         Unwritten(u, w) \/ Written(u, w) \/ CalledOff(u, w),
         ~w.dirty /\ w.draftId # 0 => Saving(w)
  PROVE  Accounted(w, d)
<1> DEFINE q == u.queue
           r == w.queue
<1>0. /\ q \in Seq(DraftOp) /\ u.draftId \in DraftId \cup {0} /\ 0 \notin DraftId
      /\ \A k \in DOMAIN q : q[k].op = "save" => q[k].draft.id # 0
  BY Drafts DEF Fit, Pane, Storing, RealDraft, DraftId
<1>1. CASE Unwritten(u, w)
  BY <1>1 DEF Unwritten, Accounted
<1>2. ASSUME NEW o \in DraftOp, r = Append(q, o),
             o.op = "save" => o.draft.id = w.draftId,
             \A i : i # 0 /\ i # w.draftId => i # u.draftId \/ o = Clear(i)
      PROVE  Accounted(w, d)
  <2> HIDE DEF q, r
  <2>1. /\ DOMAIN q = 1 .. Len(q) /\ DOMAIN r = 1 .. Len(q) + 1 /\ Len(q) \in Nat
        /\ \A k \in DOMAIN q : r[k] = q[k]
        /\ r[Len(q) + 1] = o
    BY <1>0, <1>2, Appended
  <2>2. /\ \A i, k : Cleared(i, q, k) => Cleared(i, r, k)
        /\ \A i : \A k \in DOMAIN q \cup {0} : o = Clear(i) => Cleared(i, r, k)
    BY <1>0, <1>2, ClearedLater
  <2>3. ASSUME NEW k \in DOMAIN r, r[k].op = "save", r[k].draft.id # w.draftId
        PROVE  Cleared(r[k].draft.id, r, k)
    <3>1. k \in DOMAIN q /\ r[k] = q[k] /\ q[k].draft.id # 0
      BY <1>0, <1>2, <2>1, <2>3
    <3> DEFINE i == q[k].draft.id
    <3>2. i # u.draftId \/ o = Clear(i)
      BY <1>2, <2>3, <3>1
    <3>3. i # u.draftId => Cleared(i, q, k)
      BY <2>3, <3>1 DEF Accounted, q
    <3> HIDE DEF i
    <3>4. Cleared(i, r, k)
      BY <2>2, <3>1, <3>2, <3>3
    <3>5. QED
      BY <3>1, <3>4 DEF i
  <2>4. ASSUME w.restore = "none", d.id # 0, d.id # w.draftId PROVE Cleared(d.id, r, 0)
    <3>1. d.id # u.draftId \/ o = Clear(d.id)
      BY <1>2, <2>4
    <3>2. d.id # u.draftId => Cleared(d.id, q, 0)
      BY <2>4 DEF Accounted, q
    <3>3. QED
      BY <2>2, <3>1, <3>2
  <2>5. QED
    BY <2>3, <2>4 DEF Accounted, r
<1>3. CASE Written(u, w)
  <2> DEFINE o == [op |-> "save", draft |-> Mine(w)]
  <2>1. o \in DraftOp /\ r = Append(q, o) /\ o.draft.id = w.draftId /\ w.draftId # 0
        /\ (u.draftId # 0 => w.draftId = u.draftId)
    BY <1>0, <1>3 DEF Written, Mine
  <2> HIDE DEF o, q, r
  <2>2. QED
    BY <1>2, <2>1
<1>4. CASE CalledOff(u, w)
  <2> DEFINE o == Clear(u.draftId)
  <2>1. o \in DraftOp /\ r = Append(q, o) /\ o.op = "clear" /\ w.draftId = 0
    BY <1>4 DEF CalledOff, Clear
  <2>2. \A i : i # u.draftId \/ o = Clear(i)
    OBVIOUS
  <2> HIDE DEF o, q, r
  <2>3. QED
    BY <1>2, <2>1, <2>2
<1>5. QED
  BY <1>1, <1>3, <1>4

\* What is said of the messages depends on little of the pane.
LEMMA CoherentSame ==
  ASSUME NEW u, NEW w, NEW box, NEW j, NEW s, Coherent(u, box, j, s), w.snap = u.snap,
         w.save.step = "sent" <=> u.save.step = "sent",
         w.save.step = "sent" => w.save.content = u.save.content,
         ~w.dirty /\ w.draftId # 0 => ~u.dirty /\ u.draftId # 0 /\ w.save.content = u.save.content
  PROVE  Coherent(w, box, j, s)
BY DEF Coherent

\* A task that goes on with the text as it is.
Proceeds(u, w) ==
  /\ SameDocument(u, w) /\ w.restore = u.restore /\ (Unwritten(u, w) \/ Written(u, w))
  /\ w.save = u.save \/ (u.dirty /\ ~Saving(u) /\ SaveOf(u, w.save))

\* A task that goes on with its text keeps both.
LEMMA ProceedingKeeps ==
  ASSUME NEW u, Fit(u), NEW w, Proceeds(u, w), NEW d, Accounted(u, d)
  PROVE  /\ Accounted(w, d)
         /\ \A box, j, s : Coherent(u, box, j, s) => Coherent(w, box, j, s)
<1>1. ~w.dirty /\ w.draftId # 0 => ~u.dirty /\ u.draftId # 0 /\ w.save = u.save
  BY DEF Proceeds, SameDocument, Unwritten, Written
<1>2. ~w.dirty /\ w.draftId # 0 => Saving(w)
  BY <1>1 DEF Accounted, Saving
<1>3. Accounted(w, d)
  BY <1>2, AccountedKept DEF Proceeds
<1>4. /\ w.snap = u.snap /\ (w.save.step = "sent" <=> u.save.step = "sent")
      /\ w.save.step = "sent" => w.save.content = u.save.content
  BY DEF Proceeds, SameDocument, SaveOf, Saving
<1>5. ASSUME NEW box, NEW j, NEW s, Coherent(u, box, j, s) PROVE Coherent(w, box, j, s)
  BY <1>1, <1>4, <1>5, CoherentSame
<1>6. QED
  BY <1>3, <1>5

\* A snapshot that is shown while nobody interferes never costs the pane its
\* draft without a removal.
LEMMA ShowingKeeps ==
  ASSUME NEW u, Sound(u), NEW box \in Seq(Message), box # <<>>, NEW j, NEW s, NEW d, NEW w,
         Accounted(u, d), Coherent(u, box, j, s), Head(box).kind \in Showing,
         SameWork(u, w), w.snap = Head(box).view, Taken(u, Head(box).view, w)
  PROVE  /\ Unwritten(u, w) /\ w.snap.path # Absent
         /\ ~w.dirty /\ w.draftId # 0 => Saving(w)
         /\ Coherent(w, Tail(box), j, s)
         /\ Head(box).kind = "reply" => Uniform(Tail(box), Under(j, s)) /\ Unanswered(Tail(box))
<1> DEFINE b == Tail(box)
           h == Head(box)
           v == h.view
           c == u.save.content
           x == Under(j, s)
<1>1. /\ Uniform(box, x) => Uniform(b, x)
      /\ EndsWith(box, c) => EndsWith(b, c)
      /\ Proper(box) => Proper(b) /\ (h.kind \in Showing => h.view.path # Absent)
      /\ Unanswered(box) => Unanswered(b) /\ h.kind # "reply"
      /\ AnsweredOnce(box, c) => AnsweredOnce(b, c)
      /\ Uniform(box, x) /\ h.kind \in Showing => h.view.content = x
      /\ Uniform(box, c) /\ h.kind \in Showing => h.view.content = c
      /\ EndsWith(box, c) /\ h.kind \in Showing /\ h.view.content = c => Uniform(b, c)
      /\ AnsweredOnce(box, c) /\ h.kind = "reply" => Unanswered(b) /\ h.view.content = c
  BY Rest
<1>2. /\ u.snap.path # Absent /\ Proper(box)
      /\ IF u.save.step = "sent"
           THEN /\ EndsWith(box, c) /\ x = c
                /\ IF j.step = "none" THEN AnsweredOnce(box, c) ELSE Unanswered(box)
           ELSE Uniform(box, x) /\ Unanswered(box)
      /\ ~u.dirty /\ u.draftId # 0 => Uniform(box, c) /\ (j.step # "none" => j.content = c)
      /\ h.kind \in Showing
  BY DEF Coherent
<1>3. j.step # "none" => x = j.content
  BY DEF Under
<1>4. HasNote(u)
  BY <1>2, HasNoteShown
<1>5. v.path # Absent
  BY <1>1, <1>2
<1>6. ~u.dirty /\ u.draftId # 0 => Saving(u) /\ v.content = c
  BY <1>1, <1>2 DEF Accounted
<1>7. w.save = u.save /\ w.queue = u.queue /\ w.snap = v /\ Taken(u, v, w)
  BY DEF SameWork
<1> HIDE DEF v, b, x
<1>8. Unwritten(u, w) /\ (~w.dirty /\ w.draftId # 0 => Saving(u) /\ v.content = c)
  <2>1. CASE PutOff(u, v, w)
    BY <1>7, <2>1 DEF PutOff, SameDrafts, Unwritten
  <2>2. CASE Confirmed(u, v, w)
    BY <1>6, <1>7, <2>2 DEF Confirmed, SameDrafts, Unwritten
  <2>3. CASE Adopted(u, v, w)
    BY <1>7, <2>3 DEF Adopted, Own, Unwritten
  <2>4. CASE Replaced(u, v, w)
    <3>1. u.draftId = 0
      BY <1>4, <1>5, <1>6, <2>4 DEF Replaced, Own
    <3>2. QED
      BY <1>7, <2>4, <3>1 DEF Replaced, Unwritten
  <2>5. QED
    BY <1>7, <2>1, <2>2, <2>3, <2>4 DEF Taken
<1>9. ~w.dirty /\ w.draftId # 0 => Uniform(b, c) /\ (j.step # "none" => j.content = c)
  <2> SUFFICES ASSUME ~w.dirty, w.draftId # 0 PROVE Uniform(b, c) /\ (j.step # "none" => j.content = c)
    OBVIOUS
  <2>1. v.content = c /\ h.view.content = c
    BY <1>8 DEF v
  <2>2. CASE u.save.step = "sent"
    BY <1>1, <1>2, <1>3, <2>1, <2>2
  <2>3. CASE u.save.step # "sent"
    BY <1>1, <1>2, <1>3, <2>1, <2>3
  <2>4. QED
    BY <2>2, <2>3
<1>10. Coherent(w, b, j, s)
  <2>1. /\ w.snap.path # Absent /\ Proper(b)
        /\ IF u.save.step = "sent"
             THEN /\ EndsWith(b, c) /\ x = c
                  /\ IF j.step = "none" THEN AnsweredOnce(b, c) ELSE Unanswered(b)
             ELSE Uniform(b, x) /\ Unanswered(b)
    BY <1>1, <1>2, <1>5, <1>7
  <2>2. QED
    BY <1>7, <1>9, <2>1 DEF Coherent, x
<1>11. h.kind = "reply" => Uniform(b, x) /\ Unanswered(b)
  BY <1>1, <1>2
<1>12. QED
  BY <1>5, <1>7, <1>8, <1>10, <1>11 DEF b, v, x, Saving

\* Nothing interferes with a user who is alone.
LEMMA AloneFacts ==
  ASSUME Inv, Alone
  PROVE  ~(spent.external < budget.external) /\ ~(spent.crash < budget.crash)
         /\ ~(spent.fault < budget.fault)
<1>1. budget \in Budget /\ spent \in [Counts -> Nat]
  BY Bounds, Spends DEF Inv, TypeOK
<1>2. budget.external \in Nat /\ budget.crash \in Nat /\ budget.fault \in Nat
      /\ spent.external \in Nat /\ spent.crash \in Nat /\ spent.fault \in Nat
  BY <1>1 DEF Budget, Counts
<1>3. budget.external = 0 /\ budget.crash = 0 /\ budget.fault = 0
  <2>1. \A a, b, c \in Nat : a + b + c = 0 => a = 0 /\ b = 0 /\ c = 0
    OBVIOUS
  <2>2. budget.external + budget.crash + budget.fault = 0
    BY DEF Alone
  <2>3. QED
    BY <1>2, <2>1, <2>2, Zenon
<1>4. QED
  BY <1>2, <1>3

\* A patient user with nobody about, and what the invariants say of the pane.
Calm == Inv /\ Alone /\ ~budget.eager /\ Unopened /\ Published /\ InOrder
CalmNext == Published' /\ InOrder'

\* What is known of the pane in a calm state.
LEMMA CalmFacts ==
  ASSUME Calm, alive
  PROVE  /\ Sound(ui) /\ Fit(ui) /\ ui \in Pane /\ Accounted(ui, draft) /\ Coherent(ui, inbox, job, sent)
         /\ inbox \in Seq(Message) /\ HasNote(ui) /\ ui.queue \in Seq(DraftOp)
BY HasNoteShown DEF Calm, InOrder, Inv, Whole, Sound, Fit, TypeOK, Coherent, Pane

\* The vault and what was published stay as they are.
LEMMA PublishedSame ==
  ASSUME Published, UNCHANGED <<disk, active, sent, job>>
  PROVE  Published'
BY DEF Published

\* A timer, or a flush that arrives, leaves a calm state calm.
LEMMA CalmTimers ==
  ASSUME Calm, AutosaveTimer \/ DraftTimer \/ ReceiveFlush
  PROVE  CalmNext
<1>0. alive /\ alive' /\ UNCHANGED <<disk, draft, active, sent, job>>
  <2>1. CASE AutosaveTimer
    BY <2>1 DEF AutosaveTimer, main
  <2>2. CASE DraftTimer
    BY <2>2 DEF DraftTimer, main
  <2>3. CASE ReceiveFlush
    <3>1. Receive("flush")
      BY <2>3 DEF ReceiveFlush
    <3>2. QED
      BY <3>1 DEF Receive, main
  <2>4. QED
    BY <2>1, <2>2, <2>3
<1>1. Proceeds(ui, ui')
  <2>1. CASE AutosaveTimer
    BY <2>1, AutosaveFields DEF Calm, Proceeds
  <2>2. CASE ReceiveFlush
    BY <2>2, FlushFields DEF Calm, Proceeds
  <2>3. CASE DraftTimer
    <3> DEFINE w == PersistDraft(ui)
    <3>1. /\ SameDocument(ui, w) /\ w.save = ui.save /\ w.restore = ui.restore
          /\ (ui.dirty => /\ w.draftId \in DraftId /\ (ui.draftId # 0 => w.draftId = ui.draftId)
                          /\ LastIs(w) /\ [op |-> "save", draft |-> Mine(w)] \in DraftOp
                          /\ w.queue = Append(ui.queue, [op |-> "save", draft |-> Mine(w)]))
          /\ (~ui.dirty => w.queue = ui.queue /\ w.draftId = ui.draftId)
      BY <1>0, CalmFacts, PersistFields
    <3> HIDE DEF w
    <3>2. ui' = w
      BY <2>3 DEF DraftTimer, w
    <3>3. QED
      BY <3>1, <3>2 DEF Proceeds, Unwritten, Written, SameDocument
  <2>4. QED
    BY <2>1, <2>2, <2>3
<1>2. Accounted(ui', draft') /\ Coherent(ui', inbox, job, sent)
  BY <1>0, <1>1, CalmFacts, ProceedingKeeps
<1>3. Coherent(ui', inbox', job', sent')
  <2>1. CASE inbox' = inbox
    BY <1>0, <1>2, <2>1
  <2>2. CASE ReceiveFlush
    <3>1. inbox \in Seq(Message) /\ inbox # <<>> /\ inbox' = Tail(inbox)
      BY <1>0, <2>2, CalmFacts DEF ReceiveFlush, Receive
    <3>2. /\ \A x : Uniform(inbox, x) => Uniform(inbox', x)
          /\ \A c : EndsWith(inbox, c) => EndsWith(inbox', c)
          /\ Proper(inbox) => Proper(inbox')
          /\ Unanswered(inbox) => Unanswered(inbox')
          /\ \A c : AnsweredOnce(inbox, c) => AnsweredOnce(inbox', c)
      BY <3>1, Rest
    <3>3. QED
      BY <1>0, <1>2, <3>2 DEF Coherent
  <2>3. QED
    BY <2>1, <2>2 DEF AutosaveTimer, DraftTimer
<1>4. QED
  BY <1>0, <1>2, <1>3, PublishedSame DEF Calm, CalmNext, InOrder

\* A snapshot that is shown leaves a calm state calm.
LEMMA CalmPush ==
  ASSUME Calm, ReceivePush
  PROVE  CalmNext
<1> DEFINE v == Head(inbox).view
           w == Render(ui, v)
<1>0. /\ alive /\ alive' /\ UNCHANGED <<disk, draft, active, sent, job>> /\ Receive("push") /\ ui' = w
      /\ inbox # <<>> /\ inbox' = Tail(inbox) /\ Head(inbox).kind \in Showing
  BY DEF ReceivePush, Receive, main, Showing
<1>1. v \in Shown
  BY <1>0, FirstLetter DEF Calm
<1>2. SameWork(ui, w) /\ w.snap = v /\ Taken(ui, v, w)
  BY <1>0, <1>1, CalmFacts, RenderFields
<1> HIDE DEF w
<1>3. /\ Unwritten(ui, w) /\ (~w.dirty /\ w.draftId # 0 => Saving(w))
      /\ Coherent(w, Tail(inbox), job, sent)
  BY <1>0, <1>2, CalmFacts, ShowingKeeps
<1>4. Accounted(w, draft)
  BY <1>0, <1>2, <1>3, CalmFacts, AccountedKept DEF SameWork
<1>5. QED
  BY <1>0, <1>3, <1>4, PublishedSame DEF Calm, CalmNext, InOrder

\* The answer to a save leaves a calm state calm.
LEMMA CalmReply ==
  ASSUME Calm, ReceiveReply
  PROVE  CalmNext
<1> DEFINE v == Head(inbox).view
           r == Render(ui, v)
<1>1. Answered(r)
  BY ReplyFields DEF Calm
<1> HIDE DEF r
<1>2. /\ Receive("reply") /\ v \in Shown /\ SameWork(ui, r) /\ r.snap = v /\ Taken(ui, v, r) /\ Fit(r)
      /\ SameDocument(r, ui') /\ ui'.restore = r.restore
      /\ (r.dirty => Unwritten(r, ui') \/ Written(r, ui'))
      /\ (~r.dirty /\ HasNote(r) /\ r.draftId # 0 => CalledOff(r, ui'))
      /\ (~r.dirty /\ (~HasNote(r) \/ r.draftId = 0) => Dropped(r, ui'))
      /\ (ui'.save = NoSave \/ (r.dirty /\ SaveOf(r, ui'.save)))
  BY <1>1 DEF Answered
<1>3. /\ alive /\ alive' /\ UNCHANGED <<disk, draft, active, sent, job>>
      /\ inbox # <<>> /\ inbox' = Tail(inbox) /\ Head(inbox).kind = "reply"
      /\ Head(inbox).kind \in Showing
  BY <1>2 DEF Receive, main, Showing
<1>4. /\ Unwritten(ui, r) /\ r.snap.path # Absent
      /\ (~r.dirty /\ r.draftId # 0 => Saving(r))
      /\ Coherent(r, Tail(inbox), job, sent)
      /\ Uniform(Tail(inbox), Under(job, sent)) /\ Unanswered(Tail(inbox))
  BY <1>2, <1>3, CalmFacts, ShowingKeeps
<1>5. Accounted(r, draft)
  BY <1>2, <1>3, <1>4, CalmFacts, AccountedKept DEF SameWork
<1>6. ~r.dirty => HasNote(r) \/ r.draftId = 0
  <2>1. CASE HasNote(r)
    BY <2>1
  <2>2. CASE r.draftId # 0 /\ ~r.dirty
    <3>1. Saving(ui) /\ ui.draftId # 0
      BY <1>2, <1>4, <2>2 DEF SameWork, Saving, Unwritten
    <3>2. Sound(ui)
      BY <1>3, CalmFacts
    <3>3. HasNote(r)
      <4>1. Sound(r)
        <5>1. Sound(Render(ui, v))
          BY <1>2, <3>2, RenderSound DEF Sound
        <5>2. QED
          BY <5>1 DEF r
      <4>2. QED
        BY <1>4, <4>1, HasNoteShown
    <3>4. QED
      BY <3>3
  <2>3. QED
    BY <2>1, <2>2
<1>7. /\ Unwritten(r, ui') \/ Written(r, ui') \/ CalledOff(r, ui')
      /\ ~ui'.dirty => ui'.draftId = 0
  <2>1. CASE r.dirty
    BY <1>2, <2>1 DEF SameDocument
  <2>2. CASE ~r.dirty /\ r.draftId # 0
    BY <1>2, <1>6, <2>2 DEF CalledOff
  <2>3. CASE ~r.dirty /\ r.draftId = 0
    BY <1>2, <2>3 DEF Dropped, Unwritten
  <2>4. QED
    BY <2>1, <2>2, <2>3
<1>8. Accounted(ui', draft)
  BY <1>2, <1>5, <1>7, AccountedKept
<1>9. Coherent(ui', Tail(inbox), job, sent)
  <2>1. ui'.save.step # "sent" /\ ui'.snap = r.snap
    BY <1>2 DEF NoSave, SaveOf, SameDocument
  <2>2. Proper(Tail(inbox))
    BY <1>4 DEF Coherent
  <2>3. QED
    BY <1>4, <1>7, <2>1, <2>2 DEF Coherent
<1>10. QED
  BY <1>3, <1>8, <1>9, PublishedSame DEF Calm, CalmNext, InOrder

\* A save handed to the runtime leaves a calm state calm.
LEMMA CalmSend ==
  ASSUME Calm, SendSave
  PROVE  CalmNext
<1> DEFINE s == [ui.save EXCEPT !.step = "sent"]
           c == ui.save.content
<1>0. alive /\ alive' /\ ui \in Pane /\ Accounted(ui, draft) /\ Coherent(ui, inbox, job, sent)
  BY CalmFacts DEF SendSave
<1>1. /\ ui' = [ui EXCEPT !.save = s] /\ UNCHANGED <<disk, draft, active, sent, inbox>>
      /\ ui.save.step = "draft" /\ job.step = "none"
      /\ job'.step = "write" /\ job'.content = c
  BY <1>0 DEF SendSave, Pane
<1>2. s.step = "sent" /\ s.content = c
  BY <1>0 DEF Pane, Save
<1> HIDE DEF s
<1>3. SameDocument(ui, ui') /\ ui'.queue = ui.queue /\ ui'.draftId = ui.draftId /\ ui'.save = s
      /\ ui'.restore = ui.restore
  BY <1>0, <1>1 DEF Pane, SameDocument
<1>4. Accounted(ui', draft')
  BY <1>0, <1>1, <1>2, <1>3 DEF Accounted, SameDocument, Saving
<1>5. Coherent(ui', inbox', job', sent')
  <2>1. /\ ui.snap.path # Absent /\ Proper(inbox) /\ Uniform(inbox, sent.content) /\ Unanswered(inbox)
        /\ ~ui.dirty /\ ui.draftId # 0 => Uniform(inbox, c)
    BY <1>0, <1>1 DEF Coherent, Under
  <2>2. EndsWith(inbox, c)
    BY <2>1 DEF Uniform, EndsWith
  <2>3. QED
    BY <1>1, <1>2, <1>3, <2>1, <2>2 DEF Coherent, Under, SameDocument
<1>6. Published'
  BY <1>1 DEF Published, Calm
<1>7. QED
  BY <1>0, <1>4, <1>5, <1>6 DEF CalmNext, InOrder

\* An edit leaves a calm state calm.
LEMMA CalmEdit ==
  ASSUME Calm, NEW t \in Text, Edit(t)
  PROVE  CalmNext
<1> DEFINE w == Typed(ui, t)
<1>0. /\ alive /\ alive' /\ ui' = w /\ HasNote(ui) /\ UNCHANGED <<disk, draft, active, sent, job, inbox>>
  BY DEF Edit, main
<1>1. Sound(ui) /\ Fit(ui) /\ Accounted(ui, draft) /\ Coherent(ui, inbox, job, sent)
  BY <1>0, CalmFacts
<1>2. /\ w.save = ui.save /\ w.restore = ui.restore
      /\ Unwritten(ui, w) \/ CalledOff(ui, w)
      /\ t # ui.loaded.content => w.dirty
      /\ t = ui.loaded.content /\ ui.dirty => w.draftId = 0
  BY <1>0, <1>1, TypedFields
<1>3. w.snap = ui.snap
  BY <1>0, <1>1, TypedSound
<1> HIDE DEF w
<1>4. ~w.dirty /\ w.draftId # 0 => ~ui.dirty /\ ui.draftId # 0
  BY <1>2 DEF Unwritten, CalledOff
<1>5. Accounted(w, draft)
  <2>1. ~w.dirty /\ w.draftId # 0 => Saving(w)
    BY <1>1, <1>2, <1>4 DEF Accounted, Saving
  <2>2. QED
    BY <1>1, <1>2, <2>1, AccountedKept
<1>6. Coherent(w, inbox, job, sent)
  BY <1>1, <1>2, <1>3, <1>4, CoherentSame
<1>7. QED
  BY <1>0, <1>5, <1>6, PublishedSame DEF Calm, CalmNext, InOrder

\* An operation of the draft store leaves a calm state calm.
LEMMA CalmStored ==
  ASSUME Calm, DraftStored
  PROVE  CalmNext
<1> DEFINE q == ui.queue
           b == Tail(q)
           o == Head(q)
<1>1. Stores /\ UNCHANGED <<disk, active, sent, job, inbox>> /\ draft' = Stored(Head(ui.queue))
  BY OperationStores DEF Calm, DraftStored, DraftOperation
<1>2. /\ alive /\ alive' /\ q # <<>> /\ ui'.queue = b /\ SameDocument(ui, ui') /\ SameDrafts(ui, ui')
      /\ Saving(ui') = Saving(ui) /\ ui'.save.step = ui.save.step
      /\ ui'.save.content = ui.save.content /\ ui'.restore = ui.restore
  BY <1>1 DEF Stores
<1>3. Accounted(ui, draft) /\ Coherent(ui, inbox, job, sent) /\ q \in Seq(DraftOp) /\ Fit(ui)
  BY <1>2, CalmFacts
<1>4. ~Looking
  BY <1>2 DEF Calm, Unopened
<1>5. Coherent(ui', inbox, job, sent)
  BY <1>2, <1>3, CoherentSame DEF SameDocument, SameDrafts
<1>6. /\ o = q[1] /\ 1 \in DOMAIN q /\ DOMAIN b = 1 .. Len(b) /\ Len(b) = Len(q) - 1 /\ Len(q) \in Nat
      /\ \A k \in DOMAIN b : b[k] = q[k + 1] /\ k + 1 \in DOMAIN q
  BY <1>2, <1>3, Tails
<1>7. \A i : /\ \A k \in Nat : Cleared(i, q, k + 1) => Cleared(i, b, k)
             /\ Cleared(i, q, 0) => Cleared(i, b, 0) \/ (o.op = "clear" /\ o.draft.id = i)
  BY <1>2, <1>3, ClearedSooner
<1>8. o \in DraftOp
  BY <1>2, <1>3
<1>9. draft' = Stored(o)
  BY <1>1
<1> HIDE DEF b, o
<1>10. ASSUME NEW k \in DOMAIN b, b[k].op = "save", b[k].draft.id # ui.draftId
       PROVE  Cleared(b[k].draft.id, b, k)
  <2>1. k \in Nat /\ Cleared(b[k].draft.id, q, k + 1)
    BY <1>3, <1>6, <1>10 DEF Accounted
  <2>2. QED
    BY <1>7, <2>1
<1>11. ASSUME draft'.id # 0, draft'.id # ui.draftId PROVE Cleared(draft'.id, b, 0)
  <2>1. CASE o.op = "save"
    <3>1. draft' = o.draft
      BY <1>9, <2>1 DEF Stored
    <3>2. Cleared(draft'.id, q, 0 + 1)
      BY <1>3, <1>6, <1>11, <2>1, <3>1 DEF Accounted
    <3>3. QED
      BY <1>7, <3>2
  <2>2. CASE o.op = "clear"
    <3>1. draft' = IF draft.id = o.draft.id THEN NoDraft ELSE draft
      BY <1>9, <2>2 DEF Stored
    <3>2. draft' = draft /\ draft.id # o.draft.id
      BY <1>11, <3>1 DEF NoDraft
    <3>3. Cleared(draft.id, q, 0)
      BY <1>3, <1>4, <1>11, <3>2 DEF Accounted, Looking
    <3>4. QED
      BY <1>7, <3>2, <3>3
  <2>3. QED
    BY <1>8, <2>1, <2>2 DEF DraftOp
<1>12. Accounted(ui', draft')
  BY <1>2, <1>3, <1>10, <1>11 DEF Accounted, SameDocument, SameDrafts
<1>13. QED
  BY <1>1, <1>2, <1>5, <1>12, PublishedSame DEF Calm, CalmNext, InOrder

\* The lookup of a draft leaves a calm state calm.
LEMMA CalmLook ==
  ASSUME Calm, LoadDraft \/ GiveUpRestore
  PROVE  CalmNext
<1>1. Looks /\ UNCHANGED <<disk, draft, active, sent, job, inbox>>
  BY LookingLooks DEF Calm, LoadDraft, GiveUpRestore, main
<1>2. /\ alive /\ alive' /\ SameDocument(ui, ui') /\ SameDrafts(ui, ui')
      /\ ui'.queue = ui.queue /\ ui'.save = ui.save /\ Looking
      /\ draft = NoDraft \/ ui'.restore # "none"
  <2>1. alive /\ Looking
    BY <1>1 DEF Looks, Looking
  <2>2. ~ui.dirty
    BY <2>1 DEF Calm, Unopened
  <2>3. QED
    BY <1>1, <2>1, <2>2 DEF Looks
<1>3. Accounted(ui, draft) /\ Coherent(ui, inbox, job, sent)
  BY <1>2, CalmFacts
<1>4. Coherent(ui', inbox, job, sent)
  BY <1>2, <1>3, CoherentSame DEF SameDocument, SameDrafts
<1>5. Accounted(ui', draft)
  BY <1>2, <1>3 DEF Accounted, SameDocument, SameDrafts, Saving, NoDraft
<1>6. QED
  BY <1>1, <1>2, <1>4, <1>5, PublishedSame DEF Calm, CalmNext, InOrder

\* The restoration of a draft leaves a calm state calm.
LEMMA CalmRestore ==
  ASSUME Calm, Inv', RestoreHere \/ RestoreElsewhere
  PROVE  CalmNext
<1> DEFINE d == ui.found
           q == ui'.queue
<1>1. Restores
  BY RestoreEffect DEF Calm
<1>2. alive /\ alive' /\ Looking /\ draft' = draft
  BY <1>1 DEF Restores, Looking
<1>3. ~ui.dirty /\ ~Saving(ui) /\ ui.queue = <<>> /\ ui.draftId = 0 /\ d = draft
  BY <1>1, <1>2 DEF Calm, Unopened, Restores
<1>4. /\ ui'.save = ui.save /\ ui'.restore = "none"
      /\ \/ /\ Clear(d.id) \in DraftOp /\ q = Append(ui.queue, Clear(d.id)) /\ ui'.draftId = 0
         \/ /\ q = <<>> /\ ui'.draftId = d.id /\ ui'.dirty
  BY <1>1, <1>3 DEF Restores
<1>5. Accounted(ui', draft)
  <2>1. CASE q = <<>> /\ ui'.draftId = d.id /\ ui'.dirty
    BY <1>3, <2>1 DEF Accounted
  <2>2. CASE Clear(d.id) \in DraftOp /\ q = Append(ui.queue, Clear(d.id)) /\ ui'.draftId = 0
    <3> DEFINE e == ui.queue
               o == Clear(d.id)
    <3>1. e \in Seq(DraftOp) /\ o \in DraftOp /\ q = Append(e, o) /\ o.op = "clear" /\ Len(e) = 0
      BY <1>2, <1>3, <2>2, CalmFacts DEF Clear
    <3> HIDE DEF e, q
    <3>2. /\ \A i : \A k \in DOMAIN e \cup {0} : o = Clear(i) => Cleared(i, q, k)
      BY <3>1, ClearedLater
    <3>3. DOMAIN q = 1 .. 1 /\ q[1] = o
      <4> HIDE DEF o
      <4>1. q[Len(q)] = o /\ Len(q) = Len(e) + 1 /\ DOMAIN q = 1 .. Len(e) + 1
        BY <3>1, Appended
      <4>2. QED
        BY <3>1, <4>1
    <3>4. Cleared(d.id, q, 0)
      BY <3>2
    <3>5. \A k \in DOMAIN q : q[k].op # "save"
      BY <3>1, <3>3
    <3>6. QED
      BY <1>3, <2>2, <3>4, <3>5 DEF Accounted, q
  <2>3. QED
    BY <1>4, <2>1, <2>2
<1>6. ~(~ui'.dirty /\ ui'.draftId # 0)
  BY <1>4
<1>7. CASE RestoreHere
  <2> DEFINE v == IF ui.snap.path = ui.found.path THEN ui.snap ELSE NoView
  <2>1. /\ ui' = Recovered(ui, d, v) /\ UNCHANGED <<disk, active, sent, job, inbox>>
    BY <1>7 DEF RestoreHere, main
  <2>2. Sound(ui) /\ Coherent(ui, inbox, job, sent)
    BY <1>2, CalmFacts
  <2>3. v \in Shown /\ d \in RealDraft
    BY <1>1, <2>2 DEF Sound, Fit, Holding, Document, Shown, Restores
  <2> HIDE DEF v, d
  <2>4. ui'.snap = ui.snap
    BY <2>1, <2>2, <2>3, RecoveredSound
  <2>5. Coherent(ui', inbox, job, sent)
    BY <1>4, <1>6, <2>2, <2>4, CoherentSame
  <2>6. QED
    BY <1>2, <1>5, <2>1, <2>5, PublishedSame DEF Calm, CalmNext, InOrder
<1>8. CASE RestoreElsewhere
  <2> DEFINE p == ui.found.path
             v == [path |-> p, content |-> disk[p]]
  <2>1. /\ inbox = <<>> /\ inbox' = inbox /\ active' = p /\ sent' = v /\ v.content # Absent
        /\ UNCHANGED <<disk, job>>
    BY <1>8 DEF RestoreElsewhere
  <2>2. p \in Path
    <3>1. Fit(ui)
      BY <1>2, CalmFacts
    <3>2. QED
      BY <1>1, <3>1 DEF Fit, Holding, Restores, RealDraft
  <2>3. ui'.snap = v
    BY <1>2, <2>1 DEF Inv, Whole, Current
  <2>4. Coherent(ui', inbox', job', sent')
    BY <1>3, <1>4, <1>6, <2>1, <2>2, <2>3, Drafts
       DEF Coherent, Saving, Proper, Uniform, Unanswered
  <2>5. Published'
    BY <2>1, <2>2 DEF Published, Calm
  <2>6. QED
    BY <1>2, <1>5, <2>4, <2>5 DEF CalmNext, InOrder
<1>9. QED
  BY <1>7, <1>8

\* A file that is shown is what the view shows.
LEMMA ViewsOf ==
  ASSUME NEW a \in Path, disk[a] # Absent, NEW v \in Views(a)
  PROVE  v = [path |-> a, content |-> disk[a]]
<1>1. a # Absent
  BY Drafts
<1>2. QED
  BY <1>1 DEF Views

\* The write of the kernel leaves a calm state calm.
LEMMA CalmWrite ==
  ASSUME Calm, KernelWrite
  PROVE  CalmNext
<1> DEFINE p == Destination(job)
           c == job.content
           f == "publish"
<1>1. /\ job.step = "write" /\ disk' = [disk EXCEPT ![p] = c]
      /\ job' = [job EXCEPT !.step = f, !.path = p]
      /\ UNCHANGED <<draft, active, sent, inbox, alive, ui>>
  BY DEF KernelWrite, Wrote
<1>2. p \in Path /\ c \in Text /\ c # Absent /\ disk \in [Path -> MaybeText] /\ job \in Job
  BY <1>1, KernelWriteFacts, Drafts DEF KernelWrite, Calm, Inv, TypeOK, Whole, Working
<1> HIDE DEF p, c
<1>3. job'.step = f /\ job'.path = p /\ job'.content = c
  BY <1>1, <1>2 DEF Job, c
<1>4. Published'
  <2>1. active \in Path /\ disk[active] # Absent /\ sent = [path |-> active, content |-> disk[active]]
    BY <1>1 DEF Calm, Published
  <2>2. CASE active = p
    BY <1>1, <1>2, <1>3, <2>1, <2>2 DEF Published
  <2>3. CASE active # p
    <3>1. disk'[active] = disk[active] /\ disk'[p] = c
      BY <1>1, <1>2, <2>1, <2>3
    <3>2. QED
      BY <1>1, <1>2, <1>3, <2>1, <3>1 DEF Published
  <2>4. QED
    BY <2>2, <2>3
<1>5. ASSUME alive PROVE Accounted(ui', draft') /\ Coherent(ui', inbox', job', sent')
  <2>1. Accounted(ui, draft) /\ Coherent(ui, inbox, job, sent)
    BY <1>5, CalmFacts
  <2>2. QED
    BY <1>1, <1>3, <2>1 DEF Coherent, Under, c
<1>6. QED
  BY <1>1, <1>4, <1>5 DEF CalmNext, InOrder

\* More of the same, or something that shows nothing.
LEMMA JoinedCoherent ==
  ASSUME NEW u, NEW box \in Seq(Message), NEW j, NEW s, Coherent(u, box, j, s),
         NEW ms \in Seq(Message), Uniform(ms, Under(j, s)), Proper(ms), Unanswered(ms),
         j.step # "none" \/ (\A c : Uniform(ms, c))
  PROVE  Coherent(u, box \o ms, j, s)
<1> DEFINE b == box \o ms
           c == u.save.content
           x == Under(j, s)
<1>1. /\ Uniform(box, x) => Uniform(b, x)
      /\ EndsWith(box, x) => EndsWith(b, x)
      /\ Proper(box) => Proper(b)
      /\ Unanswered(box) /\ Unanswered(ms) => Unanswered(b)
      /\ AnsweredOnce(box, c) /\ Unanswered(ms) => AnsweredOnce(b, c)
  BY Joined
<1>2. ASSUME ~u.dirty, u.draftId # 0 PROVE Uniform(b, c)
  <2>1. Uniform(box, c) /\ Uniform(ms, c)
    BY <1>2 DEF Coherent, Under
  <2>2. QED
    BY <2>1, Joined
<1> HIDE DEF b, x
<1>3. QED
  BY <1>1, <1>2 DEF Coherent, b, x

\* A flush that is asked for leaves a calm state calm.
LEMMA CalmAsk ==
  ASSUME Calm, AskFlush
  PROVE  CalmNext
<1> DEFINE m == [kind |-> "flush", view |-> NoView, flush |-> request']
           ms == <<m>>
<1>1. alive /\ alive' = alive /\ UNCHANGED <<disk, draft, active, sent, job, ui>>
      /\ inbox' = Append(inbox, m)
  BY DEF AskFlush, main
<1>2. m \in Message /\ m.kind = "flush"
  <2>1. request' \in Flush
    BY Spends DEF AskFlush, Flush, Calm
  <2>2. QED
    BY <2>1, LetterFacts DEF Letter
<1>3. inbox \in Seq(Message) /\ Accounted(ui, draft) /\ Coherent(ui, inbox, job, sent)
  BY <1>1, CalmFacts
<1> HIDE DEF m
<1>4. inbox' = inbox \o ms /\ ms \in Seq(Message)
  BY <1>1, <1>2, <1>3, AppendIsConcat
<1>5. \A k \in DOMAIN ms : ms[k].kind = "flush"
  BY <1>2
<1> HIDE DEF ms
<1>6. Proper(ms) /\ Unanswered(ms) /\ \A x : Uniform(ms, x)
  BY <1>5 DEF Proper, Unanswered, Uniform, Showing
<1>7. Coherent(ui, inbox', job, sent)
  BY <1>3, <1>4, <1>6, JoinedCoherent
<1>8. QED
  BY <1>1, <1>3, <1>7, PublishedSame DEF Calm, CalmNext, InOrder

\* A snapshot for the vault watcher leaves a calm state calm.
LEMMA CalmNotify ==
  ASSUME Calm, NEW v, Notify(v)
  PROVE  CalmNext
<1> DEFINE p == Push(v)
           ms == <<p>>
<1>1. /\ alive /\ v \in Views(active) /\ v # sent /\ active' = v.path /\ sent' = v /\ Tell(ms)
      /\ UNCHANGED <<disk, draft, job, alive, ui>>
  BY DEF Notify
<1>2. active \in Path /\ v = [path |-> active, content |-> disk[active]] /\ disk[active] # Absent
  BY <1>1, ViewsOf DEF Calm, Published
<1>3. job.step = "publish" /\ job.path = active /\ v.content = job.content /\ v.content # Absent
  BY <1>1, <1>2 DEF Calm, Published
<1>4. inbox \in Seq(Message) /\ Accounted(ui, draft) /\ Coherent(ui, inbox, job, sent)
  BY <1>1, CalmFacts
<1>5. p \in Message /\ p.kind = "push" /\ p.view = v
  BY <1>1, ViewsShown, LetterFacts DEF Letter, Calm
<1>6. v.path # Absent
  BY <1>2, Drafts
<1> HIDE DEF p
<1>7. ms \in Seq(Message) /\ \A k \in DOMAIN ms : ms[k] = p
  BY <1>5
<1>8. inbox' = inbox \o ms
  BY <1>1 DEF Tell
<1> HIDE DEF ms
<1>9. Proper(ms) /\ Unanswered(ms) /\ Uniform(ms, job.content)
  BY <1>3, <1>5, <1>6, <1>7 DEF Proper, Unanswered, Uniform
<1>10. Coherent(ui, inbox', job, sent)
  BY <1>3, <1>4, <1>7, <1>8, <1>9, JoinedCoherent DEF Under
<1>11. Coherent(ui, inbox', job, sent')
  BY <1>3, <1>10 DEF Coherent, Under
<1>12. Published'
  BY <1>1, <1>2, <1>3 DEF Published
<1>13. QED
  BY <1>1, <1>4, <1>11, <1>12 DEF CalmNext, InOrder

\* What a completed save tells the pane: the view it published, and once more
\* in the answer, if the pane still waits for it.
LEMMA Announced ==
  ASSUME Inv, alive, NEW v, Publish(v)
  PROVE  \E ms \in Seq(Message) :
           /\ inbox' = inbox \o ms
           /\ \A k \in DOMAIN ms : ms[k].kind \in Showing /\ ms[k].view = v
           /\ IF ui.save.step = "sent" THEN AnsweredOnce(ms, v.content) ELSE Unanswered(ms)
<1> DEFINE p == Push(v)
           a == Reply(v)
           r == Response(Reply(v))
<1>1. /\ v \in Views(job.path)
      /\ Tell(<<p>> \o r) \/ Tell(r \o <<p>>)
  BY DEF Publish
<1>2. /\ p \in Message /\ p.kind = "push" /\ p.view = v
      /\ a \in Message /\ a.kind = "reply" /\ a.view = v
  BY <1>1, ViewsShown, LetterFacts DEF Letter
<1> HIDE DEF p
<1>3. CASE ui.save.step = "sent"
  <2>0. r = <<a>>
    BY <1>3 DEF Response
  <2> HIDE DEF r, a
  <2>1. <<p>> \o r = <<p, a>> /\ r \o <<p>> = <<a, p>>
    BY <1>2, <2>0, Pairs
  <2>2. PICK ms : ms \in {<<p, a>>, <<a, p>>} /\ Tell(ms)
    BY <1>1, <2>1
  <2>3. <<p, a>> \in Seq(Message) /\ <<a, p>> \in Seq(Message)
    BY <1>2
  <2>4. ms \in Seq(Message) /\ inbox' = inbox \o ms
    BY <2>2, <2>3 DEF Tell
  <2>5. /\ \A k \in DOMAIN ms : ms[k] \in {p, a}
        /\ \A j, k \in DOMAIN ms : ms[j] = a /\ ms[k] = a => j = k
    <3>0. p # a
      BY <1>2
    <3>1. CASE ms = <<p, a>>
      BY <3>0, <3>1
    <3>2. CASE ms = <<a, p>>
      BY <3>0, <3>2
    <3>3. QED
      BY <2>2, <3>1, <3>2
  <2>6. /\ \A k \in DOMAIN ms : ms[k].kind \in Showing /\ ms[k].view = v
        /\ \A k \in DOMAIN ms : ms[k].kind = "reply" => ms[k] = a
    BY <1>2, <2>5 DEF Showing
  <2>7. AnsweredOnce(ms, v.content)
    BY <2>5, <2>6 DEF AnsweredOnce
  <2>8. QED
    BY <1>3, <2>4, <2>6, <2>7
<1>4. CASE ui.save.step # "sent"
  <2>0. r = <<>>
    BY <1>4 DEF Response
  <2> HIDE DEF r, a
  <2> DEFINE ms == <<p>>
  <2>1. <<p>> \o r = ms /\ r \o <<p>> = ms /\ ms \in Seq(Message) /\ \A k \in DOMAIN ms : ms[k] = p
    BY <1>2, <2>0
  <2>2. Tell(ms)
    BY <1>1, <2>1
  <2>3. inbox' = inbox \o ms
    BY <2>2 DEF Tell
  <2> HIDE DEF ms
  <2>4. Unanswered(ms) /\ \A k \in DOMAIN ms : ms[k].kind \in Showing /\ ms[k].view = v
    BY <1>2, <2>1 DEF Unanswered, Showing
  <2>5. QED
    BY <1>4, <2>1, <2>3, <2>4
<1>5. QED
  BY <1>3, <1>4

\* The publication of a completed save leaves a calm state calm.
LEMMA CalmPublish ==
  ASSUME Calm, NEW v, Publish(v)
  PROVE  CalmNext
<1> DEFINE x == job.content
<1>1. /\ job.step = "publish" /\ v \in Views(job.path) /\ active' = v.path /\ sent' = v
      /\ job'.step = "none"
      /\ UNCHANGED <<disk, draft, alive, ui>>
  BY DEF Publish, NoJob
<1>2. job.path \in Path /\ disk[job.path] = x /\ x # Absent
  BY <1>1 DEF Calm, Published, Inv, Whole, Working
<1>3. v = [path |-> job.path, content |-> x] /\ v.path # Absent /\ v.content = x
  BY <1>1, <1>2, ViewsOf, Drafts
<1>4. Published'
  BY <1>1, <1>2, <1>3 DEF Published
<1>5. ASSUME alive PROVE Coherent(ui, inbox', job', sent')
  <2> DEFINE c == ui.save.content
  <2>1. inbox \in Seq(Message) /\ Coherent(ui, inbox, job, sent)
    BY <1>5, CalmFacts
  <2>2. PICK ms \in Seq(Message) :
           /\ inbox' = inbox \o ms
           /\ \A k \in DOMAIN ms : ms[k].kind \in Showing /\ ms[k].view = v
           /\ IF ui.save.step = "sent" THEN AnsweredOnce(ms, v.content) ELSE Unanswered(ms)
    BY <1>5, Announced DEF Calm
  <2>4. Proper(ms) /\ Uniform(ms, x)
    BY <1>3, <2>2 DEF Proper, Uniform, Showing
  <2>5. IF ui.save.step = "sent" THEN AnsweredOnce(ms, x) ELSE Unanswered(ms)
    BY <1>3, <2>2
  <2> DEFINE b == inbox \o ms
  <2>6. /\ Uniform(inbox, x) => Uniform(b, x)
        /\ EndsWith(inbox, x) => EndsWith(b, x)
        /\ Proper(inbox) => Proper(b)
        /\ Unanswered(inbox) /\ Unanswered(ms) => Unanswered(b)
        /\ Unanswered(inbox) /\ AnsweredOnce(ms, x) => AnsweredOnce(b, x)
    BY <2>1, <2>4, Joined
  <2> HIDE DEF b
  <2>7. inbox' = b
    BY <2>2 DEF b
  <2>8. Under(job, sent) = x /\ Under(job', sent') = x
    BY <1>1, <1>3 DEF Under
  <2>9. /\ ui.snap.path # Absent /\ Proper(inbox)
        /\ IF ui.save.step = "sent" THEN EndsWith(inbox, c) /\ x = c /\ Unanswered(inbox)
                                    ELSE Uniform(inbox, x) /\ Unanswered(inbox)
        /\ ~ui.dirty /\ ui.draftId # 0 => Uniform(inbox, c) /\ x = c
    BY <1>1, <2>1, <2>8 DEF Coherent
  <2>10. Proper(b) /\ (Uniform(inbox, x) => Uniform(b, x)) /\ (EndsWith(inbox, x) => EndsWith(b, x))
    BY <2>6, <2>9
  <2>11. IF ui.save.step = "sent" THEN EndsWith(b, c) /\ AnsweredOnce(b, c)
                                 ELSE Uniform(b, x) /\ Unanswered(b)
    BY <2>5, <2>6, <2>9
  <2>12. ~ui.dirty /\ ui.draftId # 0 => Uniform(b, c)
    BY <2>6, <2>9
  <2>13. ui' = ui /\ job'.step = "none"
    BY <1>1
  <2>14. QED
    BY <2>7, <2>8, <2>9, <2>10, <2>11, <2>12, <2>13 DEF Coherent
<1>6. QED
  BY <1>1, <1>4, <1>5 DEF CalmNext, InOrder, Calm

\* A new window leaves a calm state calm.
LEMMA CalmBoot ==
  ASSUME Calm, Inv', NEW v, Boot(v)
  PROVE  CalmNext
<1>1. Boots /\ v \in Views(active) /\ active' = v.path /\ sent' = v
      /\ UNCHANGED <<disk, draft, job, inbox>>
  BY BootBoots DEF Calm, Boot
<1>2. active \in Path /\ v = [path |-> active, content |-> disk[active]] /\ disk[active] # Absent
  BY <1>1, ViewsOf DEF Calm, Published
<1>3. inbox = <<>> /\ alive'
  BY <1>1 DEF Calm, Inv, Whole, Boots
<1>4. ui'.snap = v
  BY <1>1, <1>3 DEF Inv, Whole, Current
<1>5. Published'
  BY <1>1, <1>2 DEF Published, Calm
<1>6. Coherent(ui', inbox', job', sent')
  BY <1>1, <1>2, <1>3, <1>4, Drafts DEF Boots, Coherent, Saving, Proper, Uniform, Unanswered
<1>7. Accounted(ui', draft')
  BY <1>1 DEF Boots, Accounted
<1>8. QED
  BY <1>5, <1>6, <1>7 DEF CalmNext, InOrder

\* So every step from a calm state keeps what makes it calm.
LEMMA CalmStep ==
  ASSUME Calm, [Next]_vars
  PROVE  CalmNext
<1>0. Inv'
  BY StepInv DEF Calm
<1>1. CASE Next
  <2>1. CASE Tasks
    <3>1. ~ReceiveFailure
      <4> SUFFICES ASSUME ReceiveFailure PROVE FALSE
        OBVIOUS
      <4>1. alive /\ inbox # <<>> /\ Head(inbox).kind = "failed"
        BY DEF ReceiveFailure, Receive
      <4>2. inbox \in Seq(Message) /\ Proper(inbox)
        BY <4>1, CalmFacts DEF Coherent
      <4>3. QED
        BY <4>1, <4>2, Rest
    <3>2. QED
      BY <1>0, <2>1, <3>1, CalmTimers, CalmPush, CalmReply, CalmSend, CalmStored, CalmLook, CalmRestore
         DEF Tasks
  <2>2. CASE Service
    <3>1. ASSUME NEW a \in answers, TakeAnswer(a) PROVE CalmNext
      <4>1. UNCHANGED <<disk, active, sent, job>> /\ (~alive' \/ UNCHANGED <<draft, inbox, alive, ui>>)
        BY <3>1 DEF TakeAnswer, RendererGone
      <4>2. QED
        BY <4>1, PublishedSame DEF Calm, CalmNext, InOrder
    <3>2. QED
      BY <1>0, <2>2, <3>1, CalmWrite, CalmPublish, CalmNotify, CalmBoot DEF Service
  <2>3. CASE World
    <3>1. ASSUME FlushTimeout PROVE CalmNext
      BY <3>1, PublishedSame DEF FlushTimeout, main, Calm, CalmNext, InOrder
    <3>2. ~DraftFails /\ ~KernelFails /\ ~RendererCrash /\ ~ApplicationCrash /\ ~ExternalDelete
          /\ ~\E p \in Path, t \in Text : ExternalSave(p, t)
      BY AloneFacts DEF Calm, DraftFails, KernelFails, RendererCrash, ApplicationCrash, ExternalDelete,
         ExternalSave, External
    <3>3. QED
      BY <2>3, <3>1, <3>2, CalmEdit, CalmAsk DEF World
  <2>4. QED
    BY <1>1, <2>1, <2>2, <2>3 DEF Next
<1>2. CASE UNCHANGED vars
  BY <1>2, PublishedSame DEF vars, moving, main, Calm, CalmNext, InOrder
<1>3. QED
  BY <1>1, <1>2

\* Undisturbed is kept by every step.
LEMMA UndisturbedStep ==
  ASSUME Inv, Patient, Undisturbed, [Next]_vars
  PROVE  Undisturbed'
<1>1. budget' = budget
  BY DEF Next, vars
<1>2. Alone' = Alone
  BY <1>1 DEF Alone
<1>3. ASSUME Alone, ~budget.eager PROVE Published' /\ InOrder'
  <2>1. Calm
    BY <1>3 DEF Calm, Patient, Undisturbed
  <2>2. QED
    BY <2>1, CalmStep DEF CalmNext
<1>4. QED
  BY <1>1, <1>2, <1>3 DEF Undisturbed

\* It holds when the program starts.
LEMMA InitUndisturbed ==
  ASSUME Init
  PROVE  Undisturbed
<1>1. Inv
  BY InitInv
<1>2. PICK t \in Text : /\ disk = [p \in Path |-> IF p = 0 THEN t ELSE Absent]
                        /\ active = 0 /\ sent = [path |-> 0, content |-> t]
  BY DEF Init
<1>3. draft = NoDraft /\ job = NoJob /\ inbox = <<>> /\ alive = TRUE /\ ui = Render(Blank, sent)
  BY DEF Init
<1>4. 0 \in Path /\ Absent \notin Text /\ 0 # Absent
  BY Bounds, Marks, Drafts DEF Path
<1>5. Published
  BY <1>2, <1>3, <1>4 DEF Published, NoJob
<1>6. ui.snap = sent
  BY <1>1, <1>3 DEF Inv, Whole, Current
<1> DEFINE w == Render(Blank, sent)
<1>7. SameWork(Blank, w) /\ Taken(Blank, sent, w)
  BY <1>1, BlankSound, RenderFields DEF Inv, Whole, Sound
<1> HIDE DEF w
<1>8. Blank.queue = <<>> /\ Blank.save = NoSave /\ ~Blank.dirty /\ ~Saving(Blank) /\ Blank.draftId = 0
  BY DEF Blank, Saving, NoSave
<1>9. ~w.dirty /\ w.queue = <<>> /\ w.save = NoSave /\ w.draftId = 0
  BY <1>7, <1>8 DEF Taken, PutOff, Confirmed, Adopted, Replaced, Own, SameWork, SameDrafts
<1>10. ui = w
  BY <1>3 DEF w
<1>11. Accounted(ui, draft) /\ Coherent(ui, inbox, job, sent)
  BY <1>2, <1>3, <1>4, <1>6, <1>9, <1>10
     DEF Accounted, Coherent, NoDraft, NoSave, Proper, Uniform, Unanswered
<1>12. QED
  BY <1>5, <1>11 DEF Undisturbed, InOrder

\* It is an invariant, with those it rests on.
LEMMA AlwaysUndisturbed == Spec => [](Inv /\ StoredLast /\ Patient /\ Undisturbed)
<1>1. Inv /\ StoredLast /\ Patient /\ Undisturbed /\ [Next]_vars
        => (Inv /\ StoredLast /\ Patient /\ Undisturbed)'
  BY StepInv, StoredStep, PatientStep, UndisturbedStep
<1>2. QED
  BY InitInv, InitDrafts, InitUndisturbed, <1>1, PTL DEF Spec

\* Property DraftMirrors, for any texts, notes and bounds: once the debounce is over and the
\* store has answered, the draft file holds exactly what the editor would save; and a clean
\* editor nobody interferes with leaves no draft behind.
THEOREM DraftsAlwaysMirror == Spec => []DraftMirrors
<1>1. Inv /\ StoredLast /\ Undisturbed => DraftMirrors
  <2> SUFFICES ASSUME Inv, StoredLast, Undisturbed PROVE DraftMirrors
    OBVIOUS
  <2>1. ASSUME ui.dirty, ~ui.draftTimer, ui.queue = <<>>, spent.fault = 0 PROVE draft = Mine(ui)
    BY <2>1 DEF StoredLast, LastIs
  <2>2. ASSUME Alone, ~budget.eager, Quiet PROVE draft = NoDraft
    <3>1. Accounted(ui, draft) /\ ~Saving(ui) /\ ~ui.dirty /\ ui.queue = <<>> /\ ui.restore = "none"
      BY <2>2 DEF Undisturbed, InOrder, Quiet
    <3>2. ui.draftId = 0
      BY <3>1 DEF Accounted
    <3>3. draft.id = 0
      BY <3>1, <3>2 DEF Accounted, Cleared
    <3>4. QED
      BY <3>3, Drafts DEF Inv, Whole, DraftId
  <2>3. QED
    BY <2>1, <2>2 DEF DraftMirrors, Mine
<1>2. QED
  BY AlwaysUndisturbed, <1>1, PTL

-----------------------------------------------------------------------------
(* The first window of a user who is alone.                                *)

\* The first window of a user who is alone with one note.  Revision r is what
\* the vault held when the save under way began, c what it writes.
At(c) == [path |-> 0, content |-> c]
Between(box, r, c) ==
  \A k \in DOMAIN box : /\ box[k].kind # "failed"
                        /\ box[k].kind \in Showing => box[k].view \in {At(r), At(c)}
Silent(box, r) == Between(box, r, r) /\ Unanswered(box)

\* The pane shows the note, and knows of no other version.
Plain(u) ==
  /\ u.restore = "none" /\ ~u.changed /\ u.loaded.path = 0 /\ u.loaded.content = u.loaded.rev
  /\ u.dirty <=> u.text # u.loaded.rev
\* The counts are those of the text: an edit is counted as not yet written, and
\* a save that carries the last count carries the last text.
Counted(u) ==
  /\ u.persisted <= u.version /\ (u.dirty => u.persisted < u.version)
  /\ Saving(u) => /\ u.save.version <= u.version
                  /\ u.dirty /\ u.save.version = u.version => u.text = u.save.content

\* How far the save is: not handed over, in the queue of the runtime, written.
Unsent(u, box) ==
  /\ u.save.step # "sent" /\ job.step = "none"
  /\ disk[0] = u.loaded.rev /\ sent = At(u.loaded.rev) /\ Silent(box, u.loaded.rev)
  /\ Saving(u) => u.save.path = 0 /\ u.save.rev = u.loaded.rev
Passed(u, box) ==
  /\ u.save.step = "sent" /\ job.step = "write"
  /\ disk[0] = u.loaded.rev /\ sent = At(u.loaded.rev) /\ Silent(box, u.loaded.rev)
  /\ job.path = 0 /\ job.rev = u.loaded.rev /\ job.content = u.save.content
Landed(u, box) ==
  LET c == u.save.content IN
  /\ u.save.step = "sent" /\ job.step # "write"
  /\ disk[0] = c /\ Between(box, u.loaded.rev, c) /\ EndsWith(box, c)
  /\ IF job.step = "publish" THEN job.path = 0 /\ Unanswered(box)
                             ELSE sent = At(c) /\ AnsweredOnce(box, c)
Stage(u, box) == Unsent(u, box) \/ Passed(u, box) \/ Landed(u, box)
OneNote == alive /\ active = 0 /\ Plain(ui) /\ Counted(ui) /\ Stage(ui, inbox)
Single == Inv /\ Alone /\ budget.close = 0 /\ OneNote
Solo == Alone /\ budget.close = 0 => OneNote

\* What is known of the pane in its first window.
LEMMA SingleFacts ==
  ASSUME Single
  PROVE  /\ alive /\ active = 0 /\ Plain(ui) /\ Counted(ui) /\ Stage(ui, inbox)
         /\ Sound(ui) /\ Fit(ui) /\ ui \in Pane /\ HasNote(ui) /\ inbox \in Seq(Message)
         /\ ui.loaded.rev \in Text /\ (Saving(ui) => ui.save.content \in Text)
         /\ 0 \in Path /\ 0 # Absent /\ Absent \notin Text
         /\ ui.version \in Nat /\ ui.persisted \in Nat /\ ui.save.version \in Nat
         /\ disk \in [Path -> MaybeText] /\ job \in Job /\ job.step \in {"none", "write", "publish"}
<1>1. 0 \in Path /\ 0 # Absent /\ Absent \notin Text
  BY Bounds, Marks, Drafts DEF Path
<1>2. Sound(ui) /\ Fit(ui) /\ ui \in Pane /\ inbox \in Seq(Message) /\ OneNote
  BY DEF Single, Inv, TypeOK, Whole, Sound, Fit
<1>3. ui.loaded.path = 0 /\ ui.loaded # NoNote /\ ui.loaded \in Opened
  BY <1>1, <1>2 DEF OneNote, Plain, Fit, Document, NoNote
<1>4. ui.loaded.rev \in Text /\ HasNote(ui) /\ (Saving(ui) => ui.save.content \in Text)
  BY <1>1, <1>2, <1>3 DEF Opened, HasNote, Fit, Holding
<1>5. ui.version \in Nat /\ ui.persisted \in Nat /\ ui.save.version \in Nat
  BY <1>2 DEF Pane, Save
<1>6. disk \in [Path -> MaybeText] /\ job \in Job /\ job.step \in {"none", "write", "publish"}
  BY DEF Single, Inv, TypeOK, Job
<1>7. QED
  BY <1>1, <1>2, <1>4, <1>5, <1>6 DEF OneNote

\* The first message of a box, and the others.
LEMMA BetweenRest ==
  ASSUME NEW box \in Seq(Message), box # <<>>, NEW r, NEW c, Between(box, r, c)
  PROVE  /\ Between(Tail(box), r, c) /\ Head(box).kind # "failed"
         /\ Head(box).kind \in Showing => Head(box).view \in {At(r), At(c)}
<1> DEFINE b == Tail(box)
           h == Head(box)
<1>1. /\ b \in Seq(Message) /\ Len(b) = Len(box) - 1 /\ Len(box) \in Nat /\ Len(box) > 0
      /\ DOMAIN b = 1 .. Len(b) /\ DOMAIN box = 1 .. Len(box) /\ h = box[1]
      /\ \A k \in 1 .. Len(b) : b[k] = box[k + 1]
  BY HeadTailProperties, LenProperties, EmptySeq
<1> HIDE DEF b, h
<1>2. 1 \in DOMAIN box /\ \A k \in DOMAIN b : k + 1 \in DOMAIN box /\ b[k] = box[k + 1]
  BY <1>1
<1>3. Between(b, r, c)
  BY <1>2 DEF Between
<1>4. h.kind # "failed" /\ (h.kind \in Showing => h.view \in {At(r), At(c)})
  BY <1>1, <1>2 DEF Between
<1>5. QED
  BY <1>3, <1>4 DEF b, h

\* The same once more messages have come.
LEMMA BetweenJoined ==
  ASSUME NEW box \in Seq(Message), NEW ms \in Seq(Message), NEW r, NEW c,
         Between(box, r, c), Between(ms, r, c)
  PROVE  Between(box \o ms, r, c)
<1> DEFINE b == box \o ms
           n == Len(box)
<1>1. /\ Len(b) = n + Len(ms) /\ n \in Nat /\ Len(ms) \in Nat
      /\ DOMAIN b = 1 .. Len(b) /\ DOMAIN box = 1 .. n /\ DOMAIN ms = 1 .. Len(ms)
      /\ \A k \in 1 .. Len(b) : b[k] = IF k <= n THEN box[k] ELSE ms[k - n]
  BY ConcatProperties, LenProperties
<1> HIDE DEF b, n
<1>2. \A k \in DOMAIN b : \/ k \in DOMAIN box /\ b[k] = box[k]
                          \/ k - n \in DOMAIN ms /\ b[k] = ms[k - n]
  <2> TAKE k \in DOMAIN b
  <2>1. CASE k <= n
    BY <1>1, <2>1
  <2>2. CASE k > n
    BY <1>1, <2>2
  <2>3. QED
    BY <1>1, <2>1, <2>2
<1>3. Between(b, r, c)
  BY <1>2 DEF Between
<1>4. QED
  BY <1>3 DEF b

\* What a box between two revisions that are one shows.
LEMMA Alike ==
  ASSUME NEW box, NEW r, Between(box, r, r)
  PROVE  Uniform(box, r) /\ \A c : Between(box, r, c)
BY DEF Between, Uniform, At

\* A task that goes on with the document as it is, and with its save or a new one.
LEMMA SingleProceeds ==
  ASSUME Single, NEW w, SameDocument(ui, w), w.restore = ui.restore, w.version = ui.version,
         \/ w.persisted = ui.persisted /\ w.save = ui.save
         \/ ~ui.dirty /\ w.persisted = ui.version /\ w.save = ui.save
         \/ ui.dirty /\ ~Saving(ui) /\ w.persisted = ui.persisted /\ SaveOf(ui, w.save)
  PROVE  Plain(w) /\ Counted(w) /\ \A box : Stage(ui, box) => Stage(w, box)
<1>1. Plain(w)
  BY SingleFacts DEF Plain, SameDocument
<1>2. CASE w.save = ui.save
  <2>1. Counted(w)
    BY <1>2, SingleFacts DEF Counted, SameDocument, Saving
  <2>2. \A box : Stage(ui, box) => Stage(w, box)
    BY <1>2 DEF Stage, Unsent, Passed, Landed, SameDocument, Saving
  <2>3. QED
    BY <1>1, <2>1, <2>2
<1>3. CASE ui.dirty /\ ~Saving(ui) /\ w.persisted = ui.persisted /\ SaveOf(ui, w.save)
  <2>1. Counted(w)
    BY <1>3, SingleFacts DEF Counted, SameDocument, Saving, SaveOf
  <2>2. ASSUME NEW box, Stage(ui, box) PROVE Stage(w, box)
    <3>1. Unsent(ui, box)
      BY <1>3, <2>2 DEF Stage, Passed, Landed, Saving
    <3>2. w.save.step # "sent" /\ w.save.path = 0 /\ w.save.rev = ui.loaded.rev
      BY <1>3, SingleFacts DEF SaveOf, Plain
    <3>3. QED
      BY <3>1, <3>2 DEF Stage, Unsent, SameDocument
  <2>3. QED
    BY <1>1, <2>1, <2>2
<1>4. QED
  BY <1>2, <1>3

\* A view of the note, shown in the pane: the text stays, and if it is the
\* saved one it is counted as saved.
LEMMA SingleShows ==
  ASSUME Single, NEW v, NEW w, SameWork(ui, w), Taken(ui, v, w),
         v = At(ui.loaded.rev) \/ (Saving(ui) /\ v = At(ui.save.content))
  PROVE  /\ Plain(w) /\ Counted(w) /\ w.loaded = Note(v) /\ w.loaded.rev = v.content
         /\ v.content = ui.save.content /\ w.dirty /\ Saving(ui) => ui.save.version < w.version
         /\ w.version \in Nat /\ w.persisted \in Nat
<1>0. /\ Plain(ui) /\ Counted(ui) /\ HasNote(ui) /\ 0 # Absent
      /\ ui.version \in Nat /\ ui.persisted \in Nat /\ ui.save.version \in Nat
  BY SingleFacts
<1>1. v.path = 0 /\ v.path # Absent /\ (IsShown(ui, v) \/ Own(ui, v))
  BY <1>0 DEF At, IsShown, Own, Plain
<1>2. w.loaded = Note(v) /\ w.loaded.path = 0 /\ w.loaded.content = v.content /\ w.loaded.rev = v.content
  <2>1. w.loaded = Note(v)
    BY <1>0, <1>1 DEF Taken, PutOff, Confirmed, Adopted, Replaced
  <2>2. QED
    BY <1>1, <2>1 DEF Note
<1>3. w.save = ui.save /\ w.restore = ui.restore /\ Saving(w) = Saving(ui)
  BY DEF SameWork, Saving
<1>4. CASE Confirmed(ui, v, w)
  <2>1. /\ w.text = ui.text /\ w.dirty = ui.dirty /\ w.changed = ui.changed /\ ui.loaded.rev = v.content
        /\ w.version = ui.version /\ w.persisted = ui.persisted
    BY <1>4 DEF Confirmed, SameCounts, IsShown
  <2>2. Plain(w)
    BY <1>0, <1>2, <1>3, <2>1 DEF Plain
  <2>3. Counted(w)
    BY <1>0, <1>3, <2>1 DEF Counted
  <2>4. v.content = ui.save.content /\ w.dirty /\ Saving(ui) => ui.save.version < w.version
    BY <1>0, <2>1 DEF Counted, Plain
  <2>5. QED
    BY <1>0, <1>2, <2>1, <2>2, <2>3, <2>4
<1>5. CASE Adopted(ui, v, w)
  <2>1. /\ w.text = ui.text /\ w.changed = FALSE /\ (w.dirty <=> ui.text # v.content)
        /\ w.dirty => w.version = ui.version + 1 /\ w.persisted = ui.persisted
        /\ ~w.dirty => w.version = ui.version /\ w.persisted = ui.version
    BY <1>5 DEF Adopted
  <2>2. Plain(w)
    BY <1>0, <1>2, <1>3, <2>1 DEF Plain
  <2>3. CASE w.dirty
    BY <1>0, <1>2, <1>3, <2>1, <2>2, <2>3 DEF Counted
  <2>4. CASE ~w.dirty
    BY <1>0, <1>2, <1>3, <2>1, <2>2, <2>4 DEF Counted
  <2>5. QED
    BY <2>3, <2>4
<1>6. QED
  BY <1>0, <1>1, <1>4, <1>5 DEF Taken, PutOff, Replaced

\* The stage of a save does not depend on a message that is taken.
LEMMA StageRest ==
  ASSUME Single, inbox # <<>>, NEW u, Stage(u, inbox)
  PROVE  Stage(u, Tail(inbox))
<1> DEFINE r == u.loaded.rev
           c == u.save.content
<1>1. inbox \in Seq(Message)
  BY SingleFacts
<1>2. /\ Between(inbox, r, r) => Between(Tail(inbox), r, r)
      /\ Between(inbox, r, c) => Between(Tail(inbox), r, c)
  BY <1>1, BetweenRest
<1>3. /\ Unanswered(inbox) => Unanswered(Tail(inbox))
      /\ EndsWith(inbox, c) => EndsWith(Tail(inbox), c)
      /\ AnsweredOnce(inbox, c) => AnsweredOnce(Tail(inbox), c)
  BY <1>1, Rest
<1>4. CASE Unsent(u, inbox)
  BY <1>2, <1>3, <1>4 DEF Stage, Unsent, Silent
<1>5. CASE Passed(u, inbox)
  BY <1>2, <1>3, <1>5 DEF Stage, Passed, Silent
<1>6. CASE Landed(u, inbox)
  BY <1>2, <1>3, <1>6 DEF Stage, Landed
<1>7. QED
  BY <1>4, <1>5, <1>6 DEF Stage

\* A timer, or a flush that arrives, keeps the order of the first window.
LEMMA SingleTimers ==
  ASSUME Single, AutosaveTimer \/ DraftTimer \/ ReceiveFlush
  PROVE  OneNote'
<1>1. Stage(ui, inbox) /\ active = 0 /\ Fit(ui)
  BY SingleFacts
<1>2. CASE AutosaveTimer
  <2>1. alive' /\ inbox' = inbox /\ UNCHANGED <<disk, active, sent, job>>
    BY <1>2 DEF AutosaveTimer, main
  <2>2. Plain(ui') /\ Counted(ui') /\ \A box : Stage(ui, box) => Stage(ui', box)
    BY <1>2, AutosaveFields, SingleProceeds DEF Single
  <2>3. QED
    BY <1>1, <2>1, <2>2 DEF OneNote, Stage, Unsent, Passed, Landed
<1>3. CASE DraftTimer
  <2>1. alive' /\ inbox' = inbox /\ UNCHANGED <<disk, active, sent, job>> /\ ui' = PersistDraft(ui)
    BY <1>3 DEF DraftTimer, main
  <2>2. SameDocument(ui, ui') /\ ui'.save = ui.save /\ ui'.restore = ui.restore /\ SameCounts(ui, ui')
    BY <1>1, <2>1, PersistFields
  <2>3. Plain(ui') /\ Counted(ui') /\ \A box : Stage(ui, box) => Stage(ui', box)
    BY <2>2, SingleProceeds DEF SameCounts
  <2>4. QED
    BY <1>1, <2>1, <2>3 DEF OneNote, Stage, Unsent, Passed, Landed
<1>4. CASE ReceiveFlush
  <2>1. /\ alive' /\ inbox # <<>> /\ inbox' = Tail(inbox) /\ UNCHANGED <<disk, active, sent, job>>
    BY <1>4 DEF ReceiveFlush, Receive, main
  <2>2. Plain(ui') /\ Counted(ui') /\ \A box : Stage(ui, box) => Stage(ui', box)
    BY <1>4, FlushFields, SingleProceeds DEF Single
  <2>3. Stage(ui', inbox')
    BY <1>1, <2>1, <2>2, StageRest
  <2>4. QED
    BY <1>1, <2>1, <2>2, <2>3 DEF OneNote, Stage, Unsent, Passed, Landed
<1>5. QED
  BY <1>2, <1>3, <1>4

\* A snapshot that is shown keeps the order of the first window.
LEMMA SinglePush ==
  ASSUME Single, ReceivePush
  PROVE  OneNote'
<1> DEFINE v == Head(inbox).view
           w == Render(ui, v)
           b == Tail(inbox)
           r == ui.loaded.rev
           c == ui.save.content
<1>1. /\ alive' /\ UNCHANGED <<disk, active, sent, job>> /\ Receive("push") /\ ui' = w
      /\ inbox # <<>> /\ inbox' = b /\ Head(inbox).kind \in Showing
  BY DEF ReceivePush, Receive, main, Showing
<1>2. v \in Shown /\ Fit(ui) /\ inbox \in Seq(Message) /\ Stage(ui, inbox) /\ active = 0
  BY <1>1, FirstLetter, SingleFacts DEF Single
<1>3. SameWork(ui, w) /\ Taken(ui, v, w)
  BY <1>2, RenderFields
<1> HIDE DEF w
<1>4. /\ Between(inbox, r, r) => Between(b, r, r) /\ v = At(r)
      /\ Between(inbox, r, c) => Between(b, r, c) /\ v \in {At(r), At(c)}
  BY <1>1, <1>2, BetweenRest
<1>5. v = At(r) \/ (Saving(ui) /\ v = At(c))
  BY <1>2, <1>4 DEF Stage, Unsent, Passed, Landed, Silent, Saving
<1>6. Plain(w) /\ Counted(w) /\ w.loaded.rev = v.content
  BY <1>3, <1>5, SingleShows
<1>7. Stage(ui, b)
  BY <1>1, <1>2, StageRest
<1>8. w.save = ui.save /\ Saving(w) = Saving(ui)
  BY <1>3 DEF SameWork, Saving
<1>9. Stage(w, b)
  <2>1. CASE w.loaded.rev = r
    BY <1>7, <1>8, <2>1 DEF Stage, Unsent, Passed, Landed
  <2>2. CASE w.loaded.rev # r
    <3>1. v = At(c) /\ v.content = c /\ v # At(r)
      BY <1>5, <1>6, <2>2 DEF At
    <3>2. Landed(ui, inbox) /\ Landed(ui, b)
      BY <1>2, <1>4, <1>7, <3>1 DEF Stage, Unsent, Passed, Landed, Silent
    <3>3. Uniform(b, c)
      BY <1>1, <1>2, <3>1, <3>2, Rest DEF Landed
    <3>4. Between(b, c, c)
      <4>1. \A x : x \in {At(r), At(c)} /\ x.content = c => x = At(c)
        BY DEF At
      <4>2. QED
        BY <3>2, <3>3, <4>1 DEF Between, Uniform, Landed
    <3>5. QED
      BY <1>6, <1>8, <3>1, <3>2, <3>4 DEF Stage, Landed
  <2>3. QED
    BY <2>1, <2>2
<1> HIDE DEF b
<1>10. QED
  BY <1>1, <1>2, <1>6, <1>9 DEF OneNote, Stage, Unsent, Passed, Landed

\* The answer to a save keeps the order of the first window.
LEMMA SingleReply ==
  ASSUME Single, ReceiveReply
  PROVE  OneNote'
<1> DEFINE v == Head(inbox).view
           w == Render(ui, v)
           b == Tail(inbox)
           r == ui.loaded.rev
           c == ui.save.content
<1>0. Answered(w)
  BY ReplyFields DEF Single
<1> HIDE DEF w
<1>1. /\ Receive("reply") /\ v \in Shown /\ SameWork(ui, w) /\ Taken(ui, v, w)
      /\ SameDocument(w, ui') /\ ui'.restore = w.restore /\ ui'.version = w.version
      /\ \/ ui'.persisted = Larger(w.persisted, w.save.version)
         \/ ~w.dirty /\ ui'.persisted = w.version
      /\ ui'.save = NoSave \/ (w.dirty /\ SaveOf(w, ui'.save))
  BY <1>0 DEF Answered
<1>2. /\ alive' /\ UNCHANGED <<disk, active, sent, job>> /\ inbox # <<>> /\ inbox' = b
      /\ Head(inbox).kind = "reply" /\ Head(inbox).kind \in Showing
  BY <1>1 DEF Receive, main, Showing
<1>3. inbox \in Seq(Message) /\ Stage(ui, inbox) /\ active = 0
      /\ job.step \in {"none", "write", "publish"}
  BY SingleFacts
<1>4. ~Unanswered(inbox)
  BY <1>2, <1>3, Rest
<1>5. Landed(ui, inbox) /\ job.step = "none"
  BY <1>3, <1>4 DEF Stage, Unsent, Passed, Landed, Silent
<1>6. /\ disk[0] = c /\ sent = At(c) /\ Saving(ui) /\ Between(inbox, r, c) /\ EndsWith(inbox, c)
      /\ AnsweredOnce(inbox, c)
  BY <1>5 DEF Landed, Saving
<1>7. v \in {At(r), At(c)} /\ Between(b, r, c)
  BY <1>2, <1>3, <1>6, BetweenRest
<1>8. Unanswered(b) /\ v.content = c
  BY <1>2, <1>3, <1>6, Rest
<1>9. v = At(c)
  BY <1>7, <1>8 DEF At
<1>10. Silent(b, c)
  <2>1. Uniform(b, c)
    BY <1>2, <1>3, <1>6, <1>8, Rest
  <2>2. \A x : x \in {At(r), At(c)} /\ x.content = c => x = At(c)
    BY DEF At
  <2>3. QED
    BY <1>7, <1>8, <2>1, <2>2 DEF Between, Uniform, Silent
<1>11. /\ Plain(w) /\ Counted(w) /\ w.loaded.rev = c
       /\ w.dirty => ui.save.version < w.version
       /\ w.version \in Nat /\ w.persisted \in Nat
  BY <1>1, <1>6, <1>8, <1>9, SingleShows
<1>12. w.save = ui.save /\ ui.save.version \in Nat /\ ui.save.version <= w.version
  <2>1. w.save = ui.save
    BY <1>1 DEF SameWork
  <2>2. QED
    BY <1>6, <1>11, <2>1, SingleFacts DEF Counted, Saving
<1>13. Plain(ui')
  BY <1>1, <1>11 DEF Plain, SameDocument
<1>14. Counted(ui')
  <2>1. ui'.persisted <= ui'.version /\ (ui'.dirty => ui'.persisted < ui'.version)
    BY <1>1, <1>11, <1>12 DEF Counted, Larger, SameDocument
  <2>2. Saving(ui') => /\ ui'.save.version <= ui'.version
                       /\ ui'.dirty /\ ui'.save.version = ui'.version => ui'.text = ui'.save.content
    BY <1>1, <1>11 DEF Saving, SaveOf, SameDocument, NoSave
  <2>3. QED
    BY <2>1, <2>2 DEF Counted
<1>15. Unsent(ui', b)
  <2>1. ui'.save.step # "sent" /\ ui'.loaded.rev = c
    BY <1>1, <1>11 DEF NoSave, SaveOf, SameDocument
  <2>2. Saving(ui') => ui'.save.path = 0 /\ ui'.save.rev = c
    BY <1>1, <1>11 DEF Saving, NoSave, SaveOf, Plain
  <2>3. QED
    BY <1>5, <1>6, <1>10, <2>1, <2>2 DEF Unsent
<1> HIDE DEF b
<1>16. QED
  BY <1>2, <1>3, <1>13, <1>14, <1>15 DEF OneNote, Stage, Unsent

\* A save handed to the runtime keeps the order of the first window.
LEMMA SingleSend ==
  ASSUME Single, SendSave
  PROVE  OneNote'
<1> DEFINE s == [ui.save EXCEPT !.step = "sent"]
           r == ui.loaded.rev
<1>0. /\ ui \in Pane /\ active = 0 /\ Plain(ui) /\ Counted(ui) /\ Stage(ui, inbox)
  BY SingleFacts
<1>1. /\ ui' = [ui EXCEPT !.save = s] /\ UNCHANGED <<disk, active, sent, inbox, alive>> /\ alive
      /\ ui.save.step = "draft" /\ job.step = "none"
      /\ job'.step = "write" /\ job'.content = ui.save.content /\ job'.path = ui.save.path
      /\ job'.rev = ui.save.rev
  BY <1>0 DEF SendSave, Pane
<1>2. s.step = "sent" /\ s.content = ui.save.content /\ s.version = ui.save.version
  BY <1>0 DEF Pane, Save
<1> HIDE DEF s
<1>3. /\ SameDocument(ui, ui') /\ ui'.save = s /\ ui'.restore = ui.restore
      /\ SameCounts(ui, ui')
  BY <1>0, <1>1 DEF Pane, SameDocument, SameCounts
<1>4. Plain(ui') /\ Counted(ui')
  BY <1>0, <1>1, <1>2, <1>3 DEF Plain, Counted, SameDocument, SameCounts, Saving
<1>5. Unsent(ui, inbox) /\ ui.save.path = 0 /\ ui.save.rev = r
  BY <1>0, <1>1 DEF Stage, Unsent, Passed, Landed, Saving
<1>6. ui'.save.step = "sent" /\ ui'.save.content = ui.save.content /\ ui'.loaded.rev = r
  BY <1>2, <1>3 DEF SameDocument
<1>7. disk'[0] = r /\ sent' = At(r) /\ Silent(inbox', r)
  BY <1>1, <1>5 DEF Unsent
<1>8. QED
  BY <1>0, <1>1, <1>4, <1>5, <1>6, <1>7 DEF OneNote, Stage, Passed

\* An edit keeps the order of the first window.
LEMMA SingleEdit ==
  ASSUME Single, NEW t \in Text, Edit(t)
  PROVE  OneNote'
<1> DEFINE w == Typed(ui, t)
<1>0. /\ alive /\ alive' /\ ui' = w /\ HasNote(ui) /\ UNCHANGED <<disk, active, sent, job, inbox>>
  BY DEF Edit, main
<1>1. /\ Sound(ui) /\ active = 0 /\ Plain(ui) /\ Counted(ui) /\ Stage(ui, inbox)
      /\ ui.version \in Nat /\ ui.persisted \in Nat /\ ui.save.version \in Nat
  BY SingleFacts
<1>2. /\ w.save = ui.save /\ w.restore = ui.restore
      /\ w.text = t /\ w.loaded = ui.loaded /\ w.changed = ui.changed
      /\ w.dirty <=> t # ui.loaded.content
      /\ w.version = ui.version + 1
      /\ w.persisted = ui.persisted \/ (~w.dirty /\ w.persisted = w.version)
  BY <1>0, <1>1, TypedFields DEF Plain
<1> HIDE DEF w
<1>3. Plain(w)
  BY <1>1, <1>2 DEF Plain
<1>4. Counted(w)
  BY <1>1, <1>2 DEF Counted, Saving
<1>5. Stage(w, inbox)
  BY <1>1, <1>2 DEF Stage, Unsent, Passed, Landed, Saving
<1>6. QED
  BY <1>0, <1>1, <1>3, <1>4, <1>5 DEF OneNote, Stage, Unsent, Passed, Landed

\* An operation of the draft store keeps the order of the first window.
LEMMA SingleStored ==
  ASSUME Single, DraftStored
  PROVE  OneNote'
<1> DEFINE s == [ui.save EXCEPT !.ahead = Ahead(@)]
           q == Tail(ui.queue)
<1>0. /\ ui \in Pane /\ active = 0 /\ Plain(ui) /\ Counted(ui) /\ Stage(ui, inbox)
  BY SingleFacts
<1>1. /\ alive /\ alive' /\ ui' = [ui EXCEPT !.queue = q, !.save = s]
      /\ UNCHANGED <<disk, active, sent, job, inbox>>
  BY <1>0 DEF DraftStored, DraftOperation, Pane
<1>2. /\ s.step = ui.save.step /\ s.content = ui.save.content /\ s.version = ui.save.version
      /\ s.path = ui.save.path /\ s.rev = ui.save.rev
  BY <1>0 DEF Pane, Save
<1> HIDE DEF s, q
<1>3. /\ SameDocument(ui, ui') /\ ui'.save = s /\ ui'.restore = ui.restore
      /\ SameCounts(ui, ui')
  BY <1>0, <1>1 DEF Pane, SameDocument, SameCounts
<1>4. Plain(ui') /\ Counted(ui')
  BY <1>0, <1>2, <1>3 DEF Plain, Counted, SameDocument, SameCounts, Saving
<1>5. Stage(ui', inbox)
  BY <1>0, <1>2, <1>3 DEF Stage, Unsent, Passed, Landed, SameDocument, Saving
<1>6. QED
  BY <1>0, <1>1, <1>4, <1>5 DEF OneNote, Stage, Unsent, Passed, Landed

\* The write of the kernel, which finds the revision it was given, keeps the order of the first window.
LEMMA SingleWrite ==
  ASSUME Single, KernelWrite
  PROVE  OneNote'
<1> DEFINE p == Destination(job)
           c == ui.save.content
           r == ui.loaded.rev
           f == "publish"
<1>0. /\ active = 0 /\ Plain(ui) /\ Counted(ui) /\ Stage(ui, inbox) /\ 0 \in Path /\ job \in Job
      /\ disk \in [Path -> MaybeText] /\ alive
  BY SingleFacts
<1>1. /\ job.step = "write" /\ disk' = [disk EXCEPT ![p] = job.content]
      /\ job' = [job EXCEPT !.step = f, !.path = p]
      /\ UNCHANGED <<active, sent, inbox, alive, ui>>
  BY DEF KernelWrite, Wrote
<1>2. /\ ui.save.step = "sent" /\ disk[0] = r /\ Silent(inbox, r)
      /\ job.path = 0 /\ job.rev = r /\ job.content = c
  BY <1>0, <1>1 DEF Stage, Unsent, Passed, Landed
<1>3. p = 0
  BY <1>2 DEF Destination
<1> HIDE DEF p
<1>4. disk'[0] = c /\ job'.step = "publish" /\ job'.path = 0
  BY <1>0, <1>1, <1>2, <1>3 DEF Job
<1>5. Between(inbox, r, c) /\ Unanswered(inbox) /\ Uniform(inbox, r)
  BY <1>2, Alike DEF Silent
<1>6. EndsWith(inbox, c)
  BY <1>5 DEF Uniform, EndsWith
<1>7. Landed(ui, inbox)'
  BY <1>1, <1>2, <1>4, <1>5, <1>6 DEF Landed
<1>8. QED
  BY <1>0, <1>1, <1>7 DEF OneNote, Stage

\* Views of the note on top of those that wait.
LEMMA LandedJoined ==
  ASSUME Single, Landed(ui, inbox), job.step = "publish", NEW ms \in Seq(Message),
         \A k \in DOMAIN ms : ms[k].kind \in Showing /\ ms[k].view = At(ui.save.content)
  PROVE  LET c == ui.save.content
             b == inbox \o ms
         IN /\ Between(b, ui.loaded.rev, c) /\ EndsWith(b, c)
            /\ Unanswered(ms) => Unanswered(b)
            /\ AnsweredOnce(ms, c) => AnsweredOnce(b, c)
<1> DEFINE c == ui.save.content
           b == inbox \o ms
           r == ui.loaded.rev
<1>1. inbox \in Seq(Message) /\ 0 # Absent
  BY SingleFacts
<1>2. Between(inbox, r, c) /\ EndsWith(inbox, c) /\ Unanswered(inbox)
  BY DEF Landed
<1>3. Between(ms, r, c) /\ Uniform(ms, c) /\ Proper(ms)
  BY <1>1 DEF Between, Uniform, Proper, At, Showing
<1>4. Between(b, r, c)
  BY <1>1, <1>2, <1>3, BetweenJoined
<1>5. /\ EndsWith(inbox, c) => EndsWith(b, c)
      /\ Unanswered(inbox) /\ Unanswered(ms) => Unanswered(b)
      /\ Unanswered(inbox) /\ AnsweredOnce(ms, c) => AnsweredOnce(b, c)
  BY <1>1, <1>3, Joined
<1>6. QED
  BY <1>2, <1>4, <1>5

\* The publication of a completed save keeps the order of the first window.
LEMMA SinglePublish ==
  ASSUME Single, NEW v, Publish(v)
  PROVE  OneNote'
<1> DEFINE c == ui.save.content
<1>0. /\ active = 0 /\ Plain(ui) /\ Counted(ui) /\ Stage(ui, inbox) /\ 0 \in Path /\ alive
      /\ (Saving(ui) => c \in Text) /\ Absent \notin Text
  BY SingleFacts
<1>1. /\ job.step = "publish" /\ v \in Views(job.path) /\ active' = v.path /\ sent' = v
      /\ job'.step = "none"
      /\ UNCHANGED <<disk, alive, ui>>
  BY DEF Publish, NoJob
<1>2. Landed(ui, inbox) /\ job.path = 0 /\ disk[0] = c /\ c # Absent
  BY <1>0, <1>1 DEF Stage, Unsent, Passed, Landed, Saving
<1>3. v = At(c) /\ v.path = 0 /\ v.content = c
  BY <1>0, <1>1, <1>2, ViewsOf DEF At
<1>4. PICK ms \in Seq(Message) :
         /\ inbox' = inbox \o ms
         /\ \A k \in DOMAIN ms : ms[k].kind \in Showing /\ ms[k].view = v
         /\ IF ui.save.step = "sent" THEN AnsweredOnce(ms, v.content) ELSE Unanswered(ms)
  BY <1>0, Announced DEF Single
<1>5. ui.save.step = "sent" /\ AnsweredOnce(ms, c)
  BY <1>2, <1>3, <1>4 DEF Landed
<1> DEFINE b == inbox \o ms
<1>6. Between(b, ui.loaded.rev, c) /\ EndsWith(b, c) /\ AnsweredOnce(b, c)
  BY <1>1, <1>2, <1>3, <1>4, <1>5, LandedJoined
<1>7. inbox' = b
  BY <1>4
<1> HIDE DEF b
<1>8. Landed(ui, inbox)'
  BY <1>1, <1>2, <1>3, <1>5, <1>6, <1>7 DEF Landed
<1>9. QED
  BY <1>0, <1>1, <1>3, <1>8 DEF OneNote, Stage

\* A snapshot for the vault watcher keeps the order of the first window.
LEMMA SingleNotify ==
  ASSUME Single, NEW v, Notify(v)
  PROVE  OneNote'
<1> DEFINE c == ui.save.content
           p == Push(v)
           ms == <<p>>
<1>0. /\ active = 0 /\ Plain(ui) /\ Counted(ui) /\ Stage(ui, inbox) /\ 0 \in Path /\ alive
      /\ (Saving(ui) => c \in Text) /\ Absent \notin Text /\ ui.loaded.rev \in Text
      /\ job.step \in {"none", "write", "publish"}
  BY SingleFacts
<1>1. /\ v \in Views(active) /\ v # sent /\ active' = v.path /\ sent' = v /\ Tell(ms)
      /\ UNCHANGED <<disk, job, alive, ui>>
  BY DEF Notify
<1>2. disk[0] # Absent
  BY <1>0 DEF Stage, Unsent, Passed, Landed, Saving
<1>3. v = At(disk[0]) /\ v.path = 0 /\ v.content = disk[0]
  BY <1>0, <1>1, <1>2, ViewsOf DEF At
<1>4. Landed(ui, inbox) /\ job.step = "publish" /\ disk[0] = c /\ v = At(c)
  BY <1>0, <1>1, <1>3 DEF Stage, Unsent, Passed, Landed
<1>5. p \in Message /\ p.kind = "push" /\ p.view = v
  BY <1>1, ViewsShown, LetterFacts DEF Letter, Single
<1> HIDE DEF p
<1>6. ms \in Seq(Message) /\ \A k \in DOMAIN ms : ms[k] = p
  BY <1>5
<1>7. inbox' = inbox \o ms
  BY <1>0, <1>1 DEF Tell
<1> HIDE DEF ms
<1>8. Unanswered(ms) /\ \A k \in DOMAIN ms : ms[k].kind \in Showing /\ ms[k].view = v
  BY <1>5, <1>6 DEF Unanswered, Showing
<1> DEFINE b == inbox \o ms
<1>9. Between(b, ui.loaded.rev, c) /\ EndsWith(b, c) /\ Unanswered(b)
  BY <1>4, <1>6, <1>8, LandedJoined
<1>10. inbox' = b
  BY <1>7
<1> HIDE DEF b
<1>11. Landed(ui, inbox)'
  BY <1>1, <1>4, <1>9, <1>10 DEF Landed
<1>12. QED
  BY <1>0, <1>1, <1>3, <1>11 DEF OneNote, Stage

\* A flush that is asked for keeps the order of the first window.
LEMMA SingleAsk ==
  ASSUME Single, AskFlush
  PROVE  OneNote'
<1> DEFINE m == [kind |-> "flush", view |-> NoView, flush |-> request']
           ms == <<m>>
           r == ui.loaded.rev
           c == ui.save.content
<1>0. /\ active = 0 /\ Plain(ui) /\ Counted(ui) /\ Stage(ui, inbox) /\ inbox \in Seq(Message)
  BY SingleFacts
<1>1. alive' = alive /\ alive /\ UNCHANGED <<disk, active, sent, job, ui>>
      /\ inbox' = Append(inbox, m)
  BY DEF AskFlush, main
<1>2. m \in Message /\ m.kind = "flush"
  <2>1. request' \in Flush
    BY Spends DEF AskFlush, Flush, Single
  <2>2. QED
    BY <2>1, LetterFacts DEF Letter
<1> HIDE DEF m
<1>4. inbox' = inbox \o ms /\ ms \in Seq(Message)
  BY <1>0, <1>1, <1>2, AppendIsConcat
<1>5. \A k \in DOMAIN ms : ms[k].kind = "flush"
  BY <1>2
<1> HIDE DEF ms
<1>6. Proper(ms) /\ Unanswered(ms) /\ (\A x : Uniform(ms, x)) /\ \A x, y : Between(ms, x, y)
  BY <1>5 DEF Proper, Unanswered, Uniform, Showing, Between
<1> DEFINE b == inbox \o ms
<1>7. /\ Between(inbox, r, r) => Between(b, r, r)
      /\ Between(inbox, r, c) => Between(b, r, c)
  BY <1>0, <1>4, <1>6, BetweenJoined
<1>8. /\ Unanswered(inbox) => Unanswered(b)
      /\ EndsWith(inbox, c) => EndsWith(b, c)
      /\ AnsweredOnce(inbox, c) => AnsweredOnce(b, c)
  BY <1>0, <1>4, <1>6, Joined
<1>9. inbox' = b
  BY <1>4
<1> HIDE DEF b
<1>10. Stage(ui, b)
  <2>1. CASE Unsent(ui, inbox)
    BY <1>7, <1>8, <2>1 DEF Stage, Unsent, Silent
  <2>2. CASE Passed(ui, inbox)
    BY <1>7, <1>8, <2>2 DEF Stage, Passed, Silent
  <2>3. CASE Landed(ui, inbox)
    BY <1>7, <1>8, <2>3 DEF Stage, Landed
  <2>4. QED
    BY <1>0, <2>1, <2>2, <2>3 DEF Stage
<1>11. QED
  BY <1>0, <1>1, <1>9, <1>10 DEF OneNote, Stage, Unsent, Passed, Landed

\* So every step of the first window keeps it, and answers a flush only when all is written.
LEMMA SingleStep ==
  ASSUME Single, [Next]_vars
  PROVE  OneNote' /\ FlushCovers
<1>0. /\ alive /\ ui.restore = "none" /\ Plain(ui) /\ Stage(ui, inbox) /\ inbox \in Seq(Message)
  BY SingleFacts DEF Plain
<1>1. CASE UNCHANGED vars
  BY <1>1 DEF vars, moving, main, FlushCovers, Single, OneNote, Stage, Unsent, Passed, Landed
<1>2. CASE AutosaveTimer \/ DraftTimer \/ ReceiveFlush \/ ReceivePush \/ ReceiveReply
           \/ SendSave \/ DraftStored
  <2>1. OneNote'
    BY <1>2, SingleTimers, SinglePush, SingleReply, SingleSend, SingleStored
  <2>2. (\E a \in answers' \ answers : a.ok) => ~ui'.dirty \/ ~Unpersisted(ui')
    <3>1. CASE ReceiveFlush
      BY <3>1, FlushFields DEF Single
    <3>2. CASE ReceiveReply
      BY <3>2, ReplyFields DEF Single, Answered
    <3>3. CASE AutosaveTimer \/ DraftTimer \/ ReceivePush \/ SendSave \/ DraftStored
      <4>1. answers' = answers
        BY <3>3 DEF AutosaveTimer, DraftTimer, ReceivePush, SendSave, DraftStored, DraftOperation
      <4>2. QED
        BY <4>1
    <3>4. QED
      BY <1>2, <3>1, <3>2, <3>3
  <2>3. ui'.dirty => Unpersisted(ui')
    BY <2>1 DEF OneNote, Counted, Unpersisted
  <2>4. QED
    BY <2>1, <2>2, <2>3 DEF FlushCovers
<1>3. CASE KernelWrite \/ AskFlush \/ (\E v \in View : Publish(v) \/ Notify(v)) \/ \E t \in Text : Edit(t)
  <2>1. OneNote'
    BY <1>3, SingleWrite, SingleAsk, SinglePublish, SingleNotify, SingleEdit
  <2>2. answers' = answers
    BY <1>3 DEF KernelWrite, AskFlush, Publish, Notify, Edit
  <2>3. QED
    BY <2>1, <2>2 DEF FlushCovers
<1>4. CASE FlushTimeout \/ \E a \in answers : TakeAnswer(a)
  <2>1. ~(spent.close < budget.close)
    <3>1. spent.close \in Nat
      BY Spends DEF Single, Counts
    <3>2. QED
      BY <3>1 DEF Single
  <2>2. UNCHANGED <<disk, active, sent, job, inbox, alive, ui>> /\ answers' \subseteq answers
    <3>1. CASE FlushTimeout
      BY <3>1 DEF FlushTimeout, main
    <3>2. CASE \E a \in answers : TakeAnswer(a)
      BY <2>1, <3>2 DEF TakeAnswer
    <3>3. QED
      BY <1>4, <3>1, <3>2
  <2>3. QED
    BY <2>2 DEF FlushCovers, Single, OneNote, Stage, Unsent, Passed, Landed
<1>5. ~ReceiveFailure /\ ~LoadDraft /\ ~GiveUpRestore /\ ~RestoreHere /\ ~RestoreElsewhere
      /\ ~\E v \in View : Boot(v)
  <2>1. ~ReceiveFailure
    <3> SUFFICES ASSUME ReceiveFailure PROVE FALSE
      OBVIOUS
    <3>1. inbox # <<>> /\ Head(inbox).kind = "failed"
      BY DEF ReceiveFailure, Receive
    <3>2. \E r, c : Between(inbox, r, c)
      BY <1>0 DEF Stage, Unsent, Passed, Landed, Silent
    <3>3. QED
      BY <1>0, <3>1, <3>2, BetweenRest
  <2>2. QED
    BY <1>0, <2>1 DEF LoadDraft, GiveUpRestore, RestoreHere, RestoreElsewhere, Restorable, Boot
<1>6. ~DraftFails /\ ~KernelFails /\ ~RendererCrash /\ ~ApplicationCrash /\ ~ExternalDelete
      /\ ~\E p \in Path, t \in Text : ExternalSave(p, t)
  BY AloneFacts DEF Single, DraftFails, KernelFails, RendererCrash, ApplicationCrash, ExternalDelete,
     ExternalSave, External
<1>7. QED
  BY <1>1, <1>2, <1>3, <1>4, <1>5, <1>6 DEF Next, Tasks, Service, World

\* The first window opens with one note.
LEMMA InitSolo ==
  ASSUME Init
  PROVE  Solo
<1>1. Inv
  BY InitInv
<1>2. PICK t \in Text : /\ disk = [p \in Path |-> IF p = 0 THEN t ELSE Absent]
                        /\ active = 0 /\ sent = [path |-> 0, content |-> t]
  BY DEF Init
<1>3. job = NoJob /\ inbox = <<>> /\ alive = TRUE /\ ui = Render(Blank, sent)
  BY DEF Init
<1>4. 0 \in Path /\ Absent \notin Text /\ 0 # Absent
  BY Bounds, Marks, Drafts DEF Path
<1> DEFINE w == Render(Blank, sent)
<1>5. SameWork(Blank, w) /\ Taken(Blank, sent, w) /\ w \in Pane
  BY <1>1, <1>3, BlankSound, RenderFields DEF Inv, Whole, Sound, Fit
<1> HIDE DEF w
<1>6. /\ Blank.save = NoSave /\ ~Blank.dirty /\ ~Saving(Blank) /\ ~HasNote(Blank)
      /\ Blank.restore = "none" /\ Blank.text = Absent
  BY DEF Blank, Saving, NoSave, HasNote, NoNote
<1>7. Replaced(Blank, sent, w)
  BY <1>5, <1>6 DEF Taken, PutOff, Confirmed, Adopted, Own
<1>8. /\ ~w.dirty /\ w.loaded = Note(sent) /\ w.changed = FALSE /\ w.save = NoSave /\ w.restore = "none"
  BY <1>5, <1>6, <1>7 DEF Replaced, SameWork
<1>9. w.loaded.path = 0 /\ w.loaded.rev = t /\ w.loaded.content = t
  BY <1>2, <1>8 DEF Note
<1>10. ui = w /\ Clean(w)
  BY <1>1, <1>3 DEF w, Inv, Whole, Sound
<1>11. Plain(w)
  BY <1>8, <1>9, <1>10 DEF Plain, Clean
<1>12. Counted(w)
  BY <1>7, <1>8 DEF Counted, Replaced, Saving, NoSave
<1>13. Silent(inbox, t)
  BY <1>3 DEF Silent, Between, Unanswered
<1>14. disk[0] = t /\ sent = At(t) /\ job.step = "none" /\ w.save.step = "none"
  BY <1>2, <1>3, <1>4, <1>8 DEF At, NoJob, NoSave
<1>15. Unsent(w, inbox)
  BY <1>9, <1>13, <1>14 DEF Unsent, Saving
<1>16. QED
  BY <1>2, <1>3, <1>10, <1>11, <1>12, <1>15 DEF Solo, OneNote, Stage

\* Solo is kept by every step.
LEMMA SoloStep ==
  ASSUME Inv, Solo, [Next]_vars
  PROVE  Solo' /\ (Alone /\ budget.close = 0 => FlushCovers)
<1>1. budget' = budget
  BY DEF Next, vars
<1>2. ASSUME Alone, budget.close = 0 PROVE OneNote' /\ FlushCovers
  BY <1>2, SingleStep DEF Single, Solo
<1>3. QED
  BY <1>1, <1>2 DEF Solo, Alone

\* Property FlushReachesAlone, for any texts and bounds: in the first window of a user who is
\* alone, RendererAutosaveFlushCoordinator is answered "flushed" only when every edit in the
\* editor has reached the writer.
THEOREM FlushAlwaysReaches == Spec => FlushReachesAlone
<1>1. Inv /\ Solo /\ [Next]_vars => (Inv /\ Solo)' /\ [Alone /\ budget.close = 0 => FlushCovers]_vars
  BY StepInv, SoloStep
<1>2. Init => Inv /\ Solo
  BY InitInv, InitSolo
<1>3. QED
  BY <1>1, <1>2, PTL DEF Spec, FlushReachesAlone
=============================================================================
