------------------------- MODULE VaultWriteRefinement -------------------------
(***************************************************************************)
(* VaultWrite implements KeepBoth, for every set of transactions and       *)
(* versions and every bound on saves, crashes and failing calls, when no   *)
(* program writes through a descriptor it opened before the note was moved *)
(* (MaxLate = 0): such a write may end in a claim nobody opens.            *)
(***************************************************************************)
EXTENDS VaultWriteKeeps, VaultWriteDurability
-----------------------------------------------------------------------------
(* The invariant the refinement rests on, beside Durable.                  *)

\* The note's name has a version, or another program left it without one.
Seen == disk[Note] \in Version \/ (disk[Note] = Absent /\ ~there)

\* Where a live save may have the note aside.
AwayStep ==
  \/ pc = "moved" /\ \/ sub.step \in {"inspect", "reinspect", "putback", "settle"}
                     \/ sub.step = "putfill" /\ disk[Note] = Torn
                     \/ sub.step = "none" /\ ok
  \/ pc = "verify"
  \/ /\ pc \in {"install-done", "restored", "rethrow"}
     /\ sub.step = "create" \/ (sub.step = "fill" /\ disk[Note] = Torn)
Away == Saving /\ J.before # Absent /\ AwayStep

\* The labels of a live save that has not been taken back, and those only
\* recovery reaches.
Standing == {"staged", "backup", "backed-up", "final", "prepare", "authorize", "aside", "aside-made",
             "moved", "verify", "restored", "rethrow", "install-done", "log-installed", "keep-commit",
             "log-committed"}
InRecovery == {"recover", "rec-read", "rec-temp", "rec-temp-removed", "rec-installed", "rec-restore",
               "rec-restored", "rec-extra", "rec-outcome", "rec-keep-temp", "rec-keep-extra"}

\* The proposal has been in the note, or is in a copy.
Reached(t) == journal[t].next \in held \cup VisibleCopies
Accepted(t) == journal[t].phase \notin {"none", "intent"} /\ t \notin withdrawn

\* What was ever under the note's name is known.
Known == LogicalNote \in Version => LogicalNote \in held

\* Files and journals: a rollback copy is of the note; a proposal that is
\* accepted and no longer staged has reached its place.
Stores ==
  /\ spent.late = 0
  /\ held \subseteq Version
  /\ there \in BOOLEAN /\ (disk[Note] \in Version => there)
  /\ \A t \in Tx : disk[Roll(t)] \in held \cup {Torn, Absent}
  /\ \A t \in Tx : journal[t].phase # "none" => disk[Temp(t)] \in {journal[t].next, Torn, Absent}
  /\ withdrawn \subseteq Tx
  /\ \A t \in withdrawn : /\ journal[t].before # Absent
                          /\ journal[t].phase # "none" \/ history[t] # "none"
  /\ \A t \in Tx : Accepted(t) => disk[Temp(t)] = journal[t].next \/ Reached(t)

\* A live save that does not have the note aside has a version there.
Sights == Saving /\ J.before # Absent =>
  /\ AwayStep \/ Seen
  /\ disk[Note] = Torn => Filling

\* What a routine that moves the note works on.
Moves ==
  /\ sub.step # "none" /\ pc = "aside-made" => sub.rev \in held
  /\ pc = "moved" /\ sub.step \in InClaim => disk[Claim] \in held /\ disk[Claim] \in Version
  /\ sub.step \in {"putback", "putfill"} => sub.bytes = disk[Claim]
  /\ sub.step # "none" /\ pc \in {"install-done", "rec-installed"} => sub.rev = J.next
  /\ pc = "aside-made" /\ sub.step = "none" => disk[Roll(cur)] # Torn
  /\ pc \in {"moved", "verify", "install-done", "restored", "rethrow"} => disk[Roll(cur)] # Torn

\* What the labels know of the save.
Stages ==
  /\ mode = "open" => pc \notin InRecovery \cup {"down"}
  /\ pc = "staged" => J.phase = "intent"
  /\ pc \in Standing \ {"staged"} => J.phase \notin {"none", "intent"}
  /\ pc \in Standing \cup {"retire-temp"} => mode = "open"
  /\ pc \in Standing \cup {"rec-installed"} => cur \notin withdrawn
  /\ pc = "retire-temp" => cur \in withdrawn

\* The staged file goes when the proposal has reached its place.
Reaches ==
  /\ sub.step \in Removal /\ sub.file = Temp(cur) /\ sub.rev = J.next /\ pc # "retire-temp" => Reached(cur)
  /\ pc = "rec-installed" /\ sub.step = "none" /\ ok => Reached(cur)
  /\ pc \in {"rec-keep-temp", "rec-temp", "rec-temp-removed"} => Reached(cur)

Faithful == Known /\ Stores /\ Sights /\ Moves /\ Stages /\ Reaches
-----------------------------------------------------------------------------
(* The history variables and the mapped variables.                         *)

\* The part of a step that records it.
Recorded ==
  /\ withdrawn' = withdrawn \cup (IF pc' = "retire-temp" THEN {cur} ELSE {})
  /\ there' = IF spent'.save # spent.save THEN disk'[Note] # Absent
                                         ELSE there \/ disk'[Note] \in Version
  /\ held' = held \cup ({LogicalNote'} \cap Version)

\* What the refinement asks of a step.
Implemented == Faithful' /\ [KeepsBoth!Next]_(KeepsBoth!vars)

\* What is known of every step, before and after it.
Ready == TypeOK /\ Durable /\ Faithful /\ TypeOK' /\ Durable' /\ Recorded

\* No step forgets a version.
LEMMA HeldGrows == Recorded => held \subseteq held' /\ Known'
  BY DEF Recorded, Known

\* The file the note is in while it is aside, and the note as other programs
\* see it.
AsideFile == IF pc = "moved" /\ sub.step \in InClaim THEN disk[Claim] ELSE disk[Roll(cur)]
NoteSeen ==
  IF Away
    THEN CASE disk[Note] \in Version -> disk[Note]
           [] disk[Note] \notin Version /\ ~there -> Absent
           [] disk[Note] \notin Version /\ there -> AsideFile
    ELSE IF disk[Note] = Torn /\ Filling THEN Absent ELSE disk[Note]

\* What the note's name holds while a note is being moved.
LEMMA AsideIs ==
  ASSUME TypeOK, Durable, Stages, Saving, J.before # Absent, there
  PROVE  Aside = AsideFile
  <1>1. cur \in Tx
    BY DEF TypeOK
  <1>2. CASE pc = "moved" /\ sub.step \in InClaim
    <2>1. sub.file = Note /\ Exists(Claim)
      BY <1>2, RoutineFacts DEF Durable, Holds, InClaim
    <2> QED
      BY <1>2, <2>1 DEF Aside, AsideFile
  <1>3. CASE ~(pc = "moved" /\ sub.step \in InClaim)
    <2>1. ~(sub.file = Note /\ Exists(Claim))
      <3>1. CASE sub.step \notin InClaim
        BY <3>1 DEF Durable, Holds
      <3>2. CASE sub.step \in InClaim /\ pc # "moved"
        <4>1. sub.file \in {Temp(cur), Roll(cur)}
          BY <3>2, RoutineFacts DEF InClaim
        <4> QED
          BY <1>1, <4>1, CurNames
      <3> QED
        BY <1>3, <3>1, <3>2
    <2>2. J.dest = Note
      <3>1. J.phase # "none"
        BY DEF Durable, Works, Saving, Busy, Stages, InRecovery, J
      <3> QED
        BY <1>1, <3>1 DEF Durable, Plans, J
    <2> QED
      BY <1>3, <2>1, <2>2 DEF Aside, AsideFile
  <1> QED
    BY <1>2, <1>3

\* The mapped note.
LEMMA NoteIs == TypeOK /\ Durable /\ Stores /\ Sights /\ Stages => LogicalNote = NoteSeen
  <1> SUFFICES ASSUME TypeOK, Durable, Stores, Sights, Stages
               PROVE  LogicalNote = NoteSeen
    OBVIOUS
  <1>1. Saving => Busy
    BY DEF Saving, Busy, Stages, InRecovery
  <1>2. cur \in Tx /\ disk[Note] \in Version \cup {Absent, Torn} /\ Torn # Absent
        /\ Absent \notin Version /\ Torn \notin Version
    BY SlotNames, Marks DEF TypeOK, Content
  <1>3. CASE disk[Note] \in Version
    BY <1>2, <1>3 DEF LogicalNote, NoteSeen
  <1>4. CASE disk[Note] = Torn /\ ~Filling
    <2>1. ~Away
      BY <1>4 DEF Away, Sights
    <2> QED
      BY <1>2, <1>4, <2>1 DEF LogicalNote, NoteSeen
  <1>5. CASE disk[Note] = Absent \/ (disk[Note] = Torn /\ Filling)
    <2>1. LogicalNote = IF Saving THEN Aside ELSE Absent
      BY <1>5 DEF LogicalNote
    <2>2. CASE ~Saving
      BY <1>2, <1>5, <2>1, <2>2 DEF NoteSeen, Away
    <2>3. CASE Saving /\ ~there
      BY <1>2, <1>5, <2>1, <2>3 DEF NoteSeen, Aside
    <2>4. CASE Saving /\ there /\ J.before # Absent
      <3>1. AwayStep
        BY <1>2, <1>5, <2>4 DEF Sights, Seen, AwayStep, Filling, Running
      <3> QED
        BY <1>2, <1>5, <2>1, <2>4, <3>1, AsideIs DEF NoteSeen, Away
    <2>5. CASE Saving /\ there /\ J.before = Absent
      <3>1. ~Exists(Roll(cur))
        BY <1>1, <2>5, CurFacts
      <3>2. ~(sub.file = Note /\ Exists(Claim))
        <4>1. CASE sub.step = "none"
          BY <4>1, AtFacts DEF Exists
        <4>2. CASE sub.step # "none" /\ sub.op = "remove"
          BY <1>2, <2>5, <4>2, RoutineFacts, CurNames DEF J
        <4>3. CASE sub.step # "none" /\ sub.op = "install"
          BY <1>2, <4>3, RoutineFacts, CurNames
        <4>4. CASE sub.step # "none" /\ sub.op = "create"
          BY <4>4, RoutineFacts DEF Durable, Holds, InClaim
        <4> QED
          BY <4>1, <4>2, <4>3, <4>4 DEF TypeOK, Sub
      <3>3. Aside = Absent
        BY <2>5, <3>1, <3>2 DEF Aside, Exists
      <3> QED
        BY <1>2, <1>5, <2>1, <2>5, <3>3 DEF NoteSeen, Away
    <2> QED
      BY <2>2, <2>3, <2>4, <2>5
  <1> QED
    BY <1>2, <1>3, <1>4, <1>5

\* The same after a step.
LEMMA NoteIsNext == (TypeOK /\ Durable /\ Stores /\ Sights /\ Stages => LogicalNote = NoteSeen)'
  BY NoteIs, PTL
-----------------------------------------------------------------------------
(* Steps of KeepBoth, as steps of the mapped variables.                    *)

Mapped == [KeepsBoth!Next]_(KeepsBoth!vars)
SavesKept == \A t \in Tx : SaveOf(t)' = SaveOf(t)
NoteKept == LogicalNote' = LogicalNote /\ VisibleCopies' = VisibleCopies
Spends(save, failure) ==
  /\ spent'.save = spent.save + save
  /\ spent'.crash + spent'.fault = spent.crash + spent.fault + failure

\* A save is open while its transaction has a journal.
LEMMA OpenSaves ==
  ASSUME NEW t \in Tx
  PROVE  /\ SaveOf(t).base = journal[t].before /\ SaveOf(t).next = journal[t].next
         /\ SaveOf(t).fresh = (journal[t].dest = Note /\ (journal[t].phase # "none" \/ history[t] # "none"))
         /\ journal[t].phase = "none" /\ history[t] = "none" => SaveOf(t).stage = "none"
         /\ journal[t].phase = "none" /\ history[t] # "none" => SaveOf(t).stage = "closed"
         /\ journal[t].phase = "intent" => SaveOf(t).stage = "begun"
         /\ Accepted(t) => SaveOf(t).stage = "accepted"
         /\ journal[t].phase \notin {"none", "intent"} /\ t \in withdrawn => SaveOf(t).stage = "withdrawn"
  BY DEF SaveOf, Accepted

\* What does not touch its journal, or logs a later phase, keeps a save.
LEMMA SaveKept ==
  ASSUME NEW t \in Tx,
         journal'[t].dest = journal[t].dest, journal'[t].before = journal[t].before,
         journal'[t].next = journal[t].next,
         \/ journal'[t].phase = journal[t].phase
         \/ {journal[t].phase, journal'[t].phase} \cap {"none", "intent"} = {},
         journal[t].phase = "none" => (history'[t] = "none" <=> history[t] = "none"),
         t \in withdrawn' <=> t \in withdrawn
  PROVE  SaveOf(t)' = SaveOf(t)
  <1>1. (journal'[t].phase # "none" \/ history'[t] # "none") = (journal[t].phase # "none" \/ history[t] # "none")
    OBVIOUS
  <1>2. SaveOf(t)'.stage = SaveOf(t).stage
    BY DEF SaveOf
  <1> QED
    BY <1>1, <1>2 DEF SaveOf

\* No step of a save.
LEMMA MapNothing ==
  ASSUME Recorded, Known, NoteKept, SavesKept, Spends(0, 0), TypeOK
  PROVE  Mapped
  <1>1. held' = held
    BY DEF Recorded, Known, NoteKept
  <1>2. [t \in Tx |-> SaveOf(t)]' = [t \in Tx |-> SaveOf(t)]
    BY DEF SavesKept
  <1>3. spent'.save = spent.save /\ spent'.crash + spent'.fault = spent.crash + spent.fault
    BY DEF Spends, TypeOK
  <1>4. UNCHANGED KeepsBoth!vars
    BY <1>1, <1>2, <1>3 DEF NoteKept, KeepsBoth!vars, KeepsBoth!world
  <1> QED
    BY <1>4 DEF Mapped

\* The proposal replaces what the save had read.
LEMMA MapSwap ==
  ASSUME Recorded, SavesKept, Spends(0, 0), TypeOK, VisibleCopies' = VisibleCopies, cur \in Tx,
         J.phase # "none", cur \notin withdrawn, J.dest = Note,
         LogicalNote \in {J.before, Absent}, LogicalNote' = J.next
  PROVE  Mapped
  <1>1. held' = held \cup ({LogicalNote'} \cap Version)
    BY DEF Recorded
  <1>2. [t \in Tx |-> SaveOf(t)]' = [t \in Tx |-> SaveOf(t)]
    BY DEF SavesKept
  <1>3. spent'.save = spent.save /\ spent'.crash + spent'.fault = spent.crash + spent.fault
    BY DEF Spends, TypeOK
  <1>4. /\ SaveOf(cur).stage \in {"begun", "accepted"} /\ SaveOf(cur).fresh
        /\ SaveOf(cur).base = J.before /\ SaveOf(cur).next = J.next
    BY OpenSaves DEF J, Accepted
  <1>5. KeepsBoth!Swap(cur)
    BY <1>1, <1>2, <1>3, <1>4 DEF KeepsBoth!Swap, KeepsBoth!Open, KeepsBoth!Becomes, KeepsBoth!world
  <1> QED
    BY <1>5 DEF Mapped, KeepsBoth!Next

\* The proposal goes to a name of its own.
LEMMA MapCopy ==
  ASSUME Recorded, Known, SavesKept, Spends(0, 0), TypeOK, LogicalNote' = LogicalNote, cur \in Tx,
         J.phase # "none", VisibleCopies' = VisibleCopies \cup {J.next}
  PROVE  Mapped
  <1>1. held' = held
    BY DEF Recorded, Known
  <1>2. [t \in Tx |-> SaveOf(t)]' = [t \in Tx |-> SaveOf(t)]
    BY DEF SavesKept
  <1>3. spent'.save = spent.save /\ spent'.crash + spent'.fault = spent.crash + spent.fault
    BY DEF Spends, TypeOK
  <1>4. SaveOf(cur).stage \in {"begun", "accepted", "withdrawn"} /\ SaveOf(cur).next = J.next
    BY OpenSaves DEF J, Accepted
  <1>5. KeepsBoth!AddCopy(cur)
    BY <1>1, <1>2, <1>3, <1>4 DEF KeepsBoth!AddCopy, KeepsBoth!Open, KeepsBoth!world
  <1> QED
    BY <1>5 DEF Mapped, KeepsBoth!Next

\* The name gets a version back.
LEMMA MapRestore ==
  ASSUME Recorded, SavesKept, Spends(0, 0), TypeOK, VisibleCopies' = VisibleCopies, cur \in Tx,
         J.phase # "none", LogicalNote = Absent, LogicalNote' \in held \cup {Torn}
  PROVE  Mapped
  <1>1. held' = held \cup ({LogicalNote'} \cap Version)
    BY DEF Recorded
  <1>2. [t \in Tx |-> SaveOf(t)]' = [t \in Tx |-> SaveOf(t)]
    BY DEF SavesKept
  <1>3. spent'.save = spent.save /\ spent'.crash + spent'.fault = spent.crash + spent.fault
    BY DEF Spends, TypeOK
  <1>4. SaveOf(cur).stage \in {"begun", "accepted", "withdrawn"}
    BY OpenSaves DEF J, Accepted
  <1>5. KeepsBoth!Restore
    BY <1>1, <1>2, <1>3, <1>4 DEF KeepsBoth!Restore, KeepsBoth!Open, KeepsBoth!Becomes, KeepsBoth!world
  <1> QED
    BY <1>5 DEF Mapped, KeepsBoth!Next

\* Something fails, with the note in its place or in the middle of a move.
LEMMA MapFail ==
  ASSUME Recorded, SavesKept, Spends(0, 1), TypeOK, VisibleCopies' = VisibleCopies, cur \in Tx,
         \/ LogicalNote' = LogicalNote
         \/ J.phase # "none" /\ LogicalNote' \in {Absent, Torn}
  PROVE  Mapped
  <1>1. held' = held \cup ({LogicalNote'} \cap Version)
    BY DEF Recorded
  <1>2. [t \in Tx |-> SaveOf(t)]' = [t \in Tx |-> SaveOf(t)]
    BY DEF SavesKept
  <1>3. spent'.save = spent.save /\ spent'.crash + spent'.fault = (spent.crash + spent.fault) + 1
    BY DEF Spends, TypeOK
  <1>4. J.phase # "none" => SaveOf(cur).stage \in {"begun", "accepted", "withdrawn"}
    BY OpenSaves DEF J, Accepted
  <1>5. KeepsBoth!Fail
    BY <1>1, <1>2, <1>3, <1>4 DEF KeepsBoth!Fail, KeepsBoth!Open, KeepsBoth!Becomes
  <1> QED
    BY <1>5 DEF Mapped, KeepsBoth!Next

\* Another program saves or deletes the note.
LEMMA MapExternal ==
  ASSUME Recorded, SavesKept, Spends(1, 0), TypeOK, VisibleCopies' = VisibleCopies,
         LogicalNote' \in Version \cup {Absent}
  PROVE  Mapped
  <1>1. held' = held \cup ({LogicalNote'} \cap Version)
    BY DEF Recorded
  <1>2. [t \in Tx |-> SaveOf(t)]' = [t \in Tx |-> SaveOf(t)]
    BY DEF SavesKept
  <1>3. spent'.save = spent.save + 1 /\ spent'.crash + spent'.fault = spent.crash + spent.fault
    BY DEF Spends, TypeOK
  <1>5. KeepsBoth!External
    BY <1>1, <1>2, <1>3 DEF KeepsBoth!External, KeepsBoth!Becomes
  <1> QED
    BY <1>5 DEF Mapped, KeepsBoth!Next

\* A save begins, is accepted, is taken back, or is over.
LEMMA MapStage ==
  ASSUME Recorded, Known, NoteKept, Spends(0, 0), TypeOK, NEW c \in Tx,
         \A t \in Tx : t # c => SaveOf(t)' = SaveOf(t),
         NEW s, SaveOf(c)' = [SaveOf(c) EXCEPT !.stage = s],
         \/ SaveOf(c).stage = "begun" /\ s = "accepted"
         \/ SaveOf(c).stage = "accepted" /\ s = "withdrawn"
         \/ SaveOf(c).stage \in {"begun", "withdrawn"} /\ s = "closed"
         \/ SaveOf(c).stage = "accepted" /\ s = "closed" /\ Reached(c)
  PROVE  Mapped
  <1>1. held' = held
    BY DEF Recorded, Known, NoteKept
  <1> DEFINE f == [t \in Tx |-> SaveOf(t)]
  <1>2. f' = [f EXCEPT ![c].stage = s]
    <2>1. f[c] = SaveOf(c)
      OBVIOUS
    <2>2. f' = [t \in Tx |-> IF t = c THEN [SaveOf(c) EXCEPT !.stage = s] ELSE SaveOf(t)]
      OBVIOUS
    <2>3. [f EXCEPT ![c] = [f[c] EXCEPT !.stage = s]]
            = [t \in Tx |-> IF t = c THEN [f[c] EXCEPT !.stage = s] ELSE SaveOf(t)]
      OBVIOUS
    <2> HIDE DEF f
    <2> QED
      BY <2>1, <2>2, <2>3
  <1>3. spent'.save = spent.save /\ spent'.crash + spent'.fault = spent.crash + spent.fault
    BY DEF Spends, TypeOK
  <1>4. SaveOf(c).next = journal[c].next
    BY OpenSaves
  <1>5. KeepsBoth!Accept(c) \/ KeepsBoth!Withdraw(c) \/ KeepsBoth!Close(c)
    BY <1>1, <1>2, <1>3, <1>4 DEF NoteKept, Reached, KeepsBoth!Accept, KeepsBoth!Withdraw, KeepsBoth!Close,
       KeepsBoth!Open, KeepsBoth!Effective, KeepsBoth!world
  <1> QED
    BY <1>5 DEF Mapped, KeepsBoth!Next
-----------------------------------------------------------------------------
(* How the invariant is kept.                                              *)

SameBase(t) ==
  /\ journal'[t].dest = journal[t].dest /\ journal'[t].before = journal[t].before
  /\ journal'[t].next = journal[t].next

\* What has reached its place stays there.
LEMMA StaysReached ==
  ASSUME Recorded, VisibleCopies \subseteq VisibleCopies', NEW t \in Tx, SameBase(t), Reached(t)
  PROVE  journal'[t].next \in held' \cup VisibleCopies'
  BY HeldGrows DEF Reached, SameBase

\* The files and the journals stay in order.
LEMMA StoresKeep ==
  ASSUME Ready, spent'.late = spent.late, VisibleCopies \subseteq VisibleCopies',
         \A t \in Tx : SameBase(t),
         \A t \in Tx : journal'[t].phase # "none" => journal[t].phase # "none",
         \A t \in Tx : journal[t].phase # "none" \/ history[t] # "none"
                         => journal'[t].phase # "none" \/ history'[t] # "none",
         \A t \in Tx : journal'[t].phase \notin {"none", "intent"} /\ journal[t].phase \in {"none", "intent"}
                         => disk'[Temp(t)] = journal[t].next \/ Reached(t),
         \A t \in Tx : disk'[Roll(t)] = disk[Roll(t)] \/ disk'[Roll(t)] \in held \cup {Torn, Absent},
         \A t \in Tx : journal[t].phase # "none" =>
           \/ disk'[Temp(t)] \in {disk[Temp(t)], journal[t].next}
           \/ disk'[Temp(t)] \in {Torn, Absent} /\ (Accepted(t) => Reached(t)),
         withdrawn' # withdrawn => J.before # Absent /\ J.phase # "none"
  PROVE  Stores'
  <1> USE DEF Ready, Faithful, Stores
  <1>1. held \subseteq held'
    BY HeldGrows
  <1>2. there' \in BOOLEAN /\ (disk'[Note] \in Version => there') /\ held' \subseteq Version
    BY Marks DEF Recorded
  <1>3. cur \in Tx /\ withdrawn \subseteq withdrawn' /\ withdrawn' \subseteq withdrawn \cup {cur}
    BY DEF Recorded, TypeOK
  <1>4. \A t \in Tx : disk'[Roll(t)] \in held' \cup {Torn, Absent}
    BY <1>1
  <1>5. \A t \in Tx : journal'[t].phase # "none" => disk'[Temp(t)] \in {journal'[t].next, Torn, Absent}
    BY DEF SameBase
  <1>6. \A t \in withdrawn' : /\ journal'[t].before # Absent
                              /\ journal'[t].phase # "none" \/ history'[t] # "none"
    BY <1>3 DEF SameBase, J
  <1>7. ASSUME NEW t \in Tx, journal'[t].phase \notin {"none", "intent"}, t \notin withdrawn'
        PROVE  disk'[Temp(t)] = journal'[t].next \/ journal'[t].next \in held' \cup VisibleCopies'
    <2>1. t \notin withdrawn /\ SameBase(t)
      BY <1>3, <1>7
    <2>2. CASE Reached(t)
      BY <2>1, <2>2, StaysReached
    <2>3. CASE ~Reached(t)
      BY <1>7, <2>1, <2>3 DEF Accepted, SameBase
    <2> QED
      BY <2>2, <2>3
  <1> QED
    BY <1>2, <1>3, <1>4, <1>5, <1>6, <1>7 DEF Accepted, Reached

\* The note stays where it is seen.
LEMMA NoteStill ==
  ASSUME Ready, Stores', Sights', Stages', disk'[Note] = disk[Note],
         ~Filling, ~Filling', disk[Note] \in Version \/ (~Away /\ ~Away')
  PROVE  LogicalNote' = LogicalNote
  <1>1. LogicalNote = NoteSeen
    BY NoteIs DEF Ready, Faithful
  <1>2. LogicalNote' = NoteSeen'
    BY NoteIsNext DEF Ready
  <1>3. NoteSeen = disk[Note]
    BY DEF NoteSeen
  <1>4. NoteSeen' = disk'[Note]
    BY DEF NoteSeen
  <1> QED
    BY <1>1, <1>2, <1>3, <1>4

\* It stays aside.
LEMMA NoteAside ==
  ASSUME Ready, Stores', Sights', Stages', spent'.save = spent.save,
         disk[Note] \notin Version, disk'[Note] \notin Version,
         Away, Away', AsideFile' = AsideFile
  PROVE  LogicalNote' = LogicalNote
  <1>1. LogicalNote = NoteSeen
    BY NoteIs DEF Ready, Faithful
  <1>2. LogicalNote' = NoteSeen'
    BY NoteIsNext DEF Ready
  <1>3. there' = there
    BY DEF Ready, Recorded, Faithful, Stores
  <1>4. NoteSeen' = NoteSeen
    BY <1>3 DEF NoteSeen
  <1> QED
    BY <1>1, <1>2, <1>4

\* The note is seen as before, or another program has left it.
LEMMA SightsKeep ==
  ASSUME Ready, disk'[Note] = disk[Note], spent'.save = spent.save, sub.step = "none",
         Saving' => Saving /\ J.before' = J.before,
         Saving /\ J.before # Absent /\ AwayStep /\ disk[Note] \notin Version => AwayStep'
  PROVE  Sights'
  <1>1. there => there'
    BY DEF Ready, Recorded
  <1>2. Saving /\ J.before # Absent /\ ~AwayStep => disk[Note] \in Version \/ (disk[Note] = Absent /\ ~there)
    BY DEF Ready, Faithful, Sights, Seen
  <1>3. disk[Note] \notin Version => (there' <=> there)
    BY DEF Ready, Recorded
  <1>4. Saving /\ J.before # Absent => disk[Note] # Torn
    BY DEF Ready, Faithful, Sights, Filling, Running
  <1> QED
    BY <1>2, <1>3, <1>4 DEF Sights, Seen

\* A step of the transaction code that changes no file but the evidence.
Quiet ==
  /\ sub.step = "none" /\ sub'.step \in {"none", "create", "validate"}
  /\ \A s \in Slot : s # Before(cur) => disk'[s] = disk[s]
  /\ UNCHANGED <<copies, spent, cur>>
  /\ \A t \in Tx : journal[t].phase = "none" => history'[t] = history[t]
  /\ \A t \in Tx : /\ SameBase(t)
                   /\ \/ journal'[t].phase = journal[t].phase
                      \/ {journal[t].phase, journal'[t].phase} \cap {"none", "intent"} = {}

\* What such a step leaves as it was.
LEMMA QuietFiles ==
  ASSUME Ready, Quiet
  PROVE  /\ disk'[Note] = disk[Note] /\ disk'[Roll(cur)] = disk[Roll(cur)] /\ disk'[Copy] = disk[Copy]
         /\ disk'[Claim] = disk[Claim] /\ disk'[Temp(cur)] = disk[Temp(cur)] /\ VisibleCopies' = VisibleCopies
         /\ \A t \in Tx : disk'[Roll(t)] = disk[Roll(t)] /\ disk'[Temp(t)] = disk[Temp(t)]
         /\ J.before' = J.before /\ J.next' = J.next /\ J.dest' = J.dest /\ cur \in Tx
         /\ ~Filling /\ ~Filling'
  <1>1. cur \in Tx
    BY DEF Ready, TypeOK
  <1>2. Note # Before(cur) /\ Copy # Before(cur) /\ Claim # Before(cur)
    BY <1>1, CurNames
  <1>3. \A t \in Tx : Roll(t) # Before(cur) /\ Temp(t) # Before(cur) /\ Side(t) # Before(cur)
    BY <1>1, NamesApart
  <1>4. /\ disk'[Note] = disk[Note] /\ disk'[Copy] = disk[Copy] /\ disk'[Claim] = disk[Claim]
        /\ \A t \in Tx : disk'[Roll(t)] = disk[Roll(t)] /\ disk'[Temp(t)] = disk[Temp(t)] /\ disk'[Side(t)] = disk[Side(t)]
    BY <1>2, <1>3, SlotNames DEF Quiet
  <1>5. VisibleCopies' = VisibleCopies
    BY <1>4 DEF VisibleCopies, Quiet
  <1>6. J.before' = J.before /\ J.next' = J.next /\ J.dest' = J.dest
    BY <1>1 DEF Quiet, SameBase, J
  <1>7. ~Filling /\ ~Filling'
    BY DEF Quiet, Filling, Running
  <1> QED
    BY <1>1, <1>4, <1>5, <1>6, <1>7

\* It is no step of any save, if the labels stay in order.
LEMMA QuietImplemented ==
  ASSUME Ready, Quiet, Sights', Moves', Stages', Reaches', withdrawn' = withdrawn,
         disk[Note] \in Version \/ (~Away /\ ~Away') \/ (Away /\ Away' /\ AsideFile' = AsideFile)
  PROVE  Implemented
  <1>1. Stores'
    <2>1. /\ \A t \in Tx : SameBase(t) /\ disk'[Roll(t)] = disk[Roll(t)] /\ disk'[Temp(t)] = disk[Temp(t)]
          /\ \A t \in Tx : journal'[t].phase # "none" <=> journal[t].phase # "none"
          /\ \A t \in Tx : journal'[t].phase \notin {"none", "intent"} => journal[t].phase \notin {"none", "intent"}
          /\ \A t \in Tx : journal[t].phase = "none" => history'[t] = history[t]
          /\ spent'.late = spent.late /\ VisibleCopies' = VisibleCopies
      BY QuietFiles DEF Quiet
    <2>2. \A t \in Tx : journal'[t].phase \notin {"none", "intent"} /\ journal[t].phase \in {"none", "intent"}
                          => disk'[Temp(t)] = journal[t].next \/ Reached(t)
      BY <2>1
    <2>3. \A t \in Tx : journal[t].phase # "none" =>
            \/ disk'[Temp(t)] \in {disk[Temp(t)], journal[t].next}
            \/ disk'[Temp(t)] \in {Torn, Absent} /\ (Accepted(t) => Reached(t))
      BY <2>1
    <2>4. \A t \in Tx : disk'[Roll(t)] = disk[Roll(t)] \/ disk'[Roll(t)] \in held \cup {Torn, Absent}
      BY <2>1
    <2>5. /\ \A t \in Tx : journal'[t].phase # "none" => journal[t].phase # "none"
          /\ \A t \in Tx : journal[t].phase # "none" \/ history[t] # "none"
                           => journal'[t].phase # "none" \/ history'[t] # "none"
      BY <2>1
    <2>6. VisibleCopies \subseteq VisibleCopies' /\ (\A t \in Tx : SameBase(t)) /\ spent'.late = spent.late
      BY <2>1
    <2> QED
      BY <2>2, <2>3, <2>4, <2>5, <2>6, StoresKeep
  <1>2. LogicalNote' = LogicalNote
    BY <1>1, QuietFiles, NoteStill, NoteAside DEF Quiet
  <1>3. SavesKept
    <2> SUFFICES ASSUME NEW t \in Tx
                 PROVE  SaveOf(t)' = SaveOf(t)
      BY DEF SavesKept
    <2> QED
      BY SaveKept DEF Quiet, SameBase
  <1>4. Mapped
    <2>1. Spends(0, 0)
      BY DEF Spends, Quiet, Ready, TypeOK
    <2> QED
      BY <1>2, <1>3, <2>1, QuietFiles, MapNothing DEF NoteKept, Ready, Faithful
  <1> QED
    BY <1>1, <1>4, HeldGrows DEF Implemented, Mapped, Faithful, Ready
-----------------------------------------------------------------------------
(* The steps of the transaction code.                                      *)

\* Logging one more phase of a staged transaction.
LEMMA LogKeeps ==
  ASSUME TypeOK, NEW p \in Phase, p \notin {"none", "intent"},
         journal' = [journal EXCEPT ![cur].phase = p]
  PROVE  /\ \A t \in Tx : SameBase(t) /\ (t # cur => journal'[t].phase = journal[t].phase)
         /\ journal'[cur].phase = p
  BY DEF TypeOK, Journal, SameBase

\* The note is in its place, and no routine works on it.
LEMMA InPlace ==
  ASSUME Ready, Saving, J.before # Absent, ~AwayStep
  PROVE  disk[Note] \in Version \/ (disk[Note] = Absent /\ ~there)
  BY DEF Ready, Faithful, Sights, Seen

\* The evidence is copied, the base is compared, and the phases are logged.
LEMMA StagingImplemented ==
  ASSUME Ready, BackUp \/ LogBackedUp \/ FinalCheck \/ LogPrepared
  PROVE  Implemented
  <1>1. /\ UNCHANGED <<disk, copies, residue, history, mode, cur, ok, spent>>
        /\ pc \in {"backup", "backed-up", "final", "prepare"} /\ sub.step = "none"
    BY DEF BackUp, LogBackedUp, FinalCheck, LogPrepared, Log, Conflict, Frame, ghost, At
  <1>2. \/ pc' \in {"final", "prepare", "authorize"} /\ sub' = sub
        \/ pc' = "promote" /\ sub' = sub
        \/ pc' = "backed-up" /\ (sub' = sub \/ sub' = Creating(Before(cur), J.before))
    BY <1>1 DEF BackUp, LogBackedUp, FinalCheck, LogPrepared, Log, Conflict, Go, Call, At
  <1>3. \/ pc' = "backed-up" /\ sub'.op = "create" /\ sub'.step = "create"
        \/ pc' \in {"final", "prepare", "authorize", "promote", "backed-up"} /\ sub'.step = "none"
    BY <1>1, <1>2, Started
  <1>4. J.phase \notin {"none", "intent"} /\ mode = "open" /\ cur \notin withdrawn /\ cur \in Tx
    BY <1>1 DEF Ready, Faithful, Stages, Standing, TypeOK
  <1>5. /\ \A t \in Tx : /\ SameBase(t)
                         /\ \/ journal'[t].phase = journal[t].phase
                            \/ {journal[t].phase, journal'[t].phase} \cap {"none", "intent"} = {}
        /\ journal'[cur].phase \notin {"none", "intent"}
    <2>1. CASE BackUp \/ FinalCheck
      BY <2>1, <1>4 DEF BackUp, FinalCheck, SameBase, J
    <2>2. CASE LogBackedUp \/ LogPrepared
      <3>1. PICK p \in {"backed-up", "prepared"} : journal' = [journal EXCEPT ![cur].phase = p]
        BY <2>2 DEF LogBackedUp, LogPrepared, Log
      <3>2. p \in Phase /\ p \notin {"none", "intent"}
        BY DEF Phase
      <3> QED
        BY <1>4, <3>1, <3>2, LogKeeps DEF J, Ready
    <2> QED
      BY <2>1, <2>2
  <1>6. Quiet
    BY <1>1, <1>3, <1>5 DEF Quiet
  <1>7. ~AwayStep /\ ~AwayStep'
    BY <1>1, <1>3 DEF AwayStep
  <1>8. Sights'
    BY <1>1, <1>6, <1>7, QuietFiles, SightsKeep DEF Saving, Quiet
  <1>9. Moves' /\ Reaches'
    BY <1>3 DEF Moves, Reaches, InClaim, Removal
  <1>10. withdrawn' = withdrawn
    BY <1>3 DEF Ready, Recorded
  <1>11. Stages'
    BY <1>1, <1>3, <1>4, <1>5, <1>10 DEF Stages, InRecovery, Standing, J
  <1> QED
    BY <1>6, <1>7, <1>8, <1>9, <1>10, <1>11, QuietImplemented DEF Away

\* The proposal is authorized, and installed at once if there is no base.
LEMMA AuthorizeImplemented ==
  ASSUME Ready, Authorize
  PROVE  Implemented
  <1>1. /\ UNCHANGED <<disk, copies, residue, journal, history, mode, cur, ok, spent>>
        /\ pc = "authorize" /\ sub.step = "none"
    BY DEF Authorize, Frame, ghost, At
  <1>2. \/ J.before = Absent /\ pc' = "install-done" /\ sub' = Installing(Temp(cur), J.dest)
        \/ J.before # Absent /\ pc' = "aside" /\ sub' = sub
    BY <1>1 DEF Authorize, Go, Call
  <1>3. disk[Temp(cur)] = J.next
    BY <1>1 DEF Ready, Durable, Files, HasTemp
  <1>4. \/ /\ J.before = Absent /\ pc' = "install-done" /\ sub'.op = "install" /\ sub'.step = "create"
           /\ sub'.rev = J.next
        \/ J.before # Absent /\ pc' = "aside" /\ sub'.step = "none"
    BY <1>1, <1>2, <1>3, Started
  <1>5. J.phase \notin {"none", "intent"} /\ mode = "open" /\ cur \notin withdrawn /\ cur \in Tx
    BY <1>1 DEF Ready, Faithful, Stages, Standing, TypeOK
  <1>6. Quiet
    BY <1>1, <1>4 DEF Quiet, SameBase
  <1>7. ~Away /\ ~Away'
    BY <1>1, <1>4 DEF Away, AwayStep, J
  <1>8. Sights'
    BY <1>1, <1>6, QuietFiles, SightsKeep DEF Saving, AwayStep
  <1>9. Moves' /\ Reaches'
    <2>1. J.before = Absent => disk[Roll(cur)] # Torn
      BY <1>1, <1>5, CurFacts, Marks DEF Ready, Busy, Exists
    <2> QED
      BY <1>1, <1>4, <2>1 DEF Moves, Reaches, InClaim, Removal, J
  <1>10. withdrawn' = withdrawn
    BY <1>4 DEF Ready, Recorded
  <1>11. Stages'
    BY <1>1, <1>4, <1>5, <1>10 DEF Stages, InRecovery, Standing, J
  <1> QED
    BY <1>6, <1>7, <1>8, <1>9, <1>10, <1>11, QuietImplemented

\* The note is copied aside and removed.
LEMMA AsideImplemented ==
  ASSUME Ready, CopyAside \/ TakeAside \/ MovedAside
  PROVE  Implemented
  <1>1. /\ UNCHANGED <<disk, copies, residue, journal, history, mode, cur, ok, spent>>
        /\ pc \in {"aside", "aside-made", "moved"} /\ sub.step = "none"
    BY DEF CopyAside, TakeAside, MovedAside, Conflict, Frame, ghost, At
  <1>2. \/ pc = "aside" /\ pc' = "aside-made" /\ sub' = Creating(Roll(cur), disk[J.dest]) /\ Exists(J.dest)
        \/ pc = "aside-made" /\ pc' = "moved" /\ sub' = Removing(J.dest, disk[Roll(cur)])
        \/ pc = "moved" /\ ok /\ pc' = "verify" /\ sub' = sub
        \/ pc = "aside" /\ pc' = "keep-promote" /\ sub' = sub
        \/ pc = "moved" /\ ~ok /\ pc' = "keep-promote" /\ sub' = sub
    BY <1>1 DEF CopyAside, TakeAside, MovedAside, Conflict, Go, Call, At
  <1>3. /\ J.before # Absent /\ mode = "open" /\ cur \notin withdrawn /\ cur \in Tx
        /\ J.dest = Note /\ J.phase \notin {"none", "intent"}
    <2>1. J.before # Absent /\ J.phase # "none" /\ cur \in Tx
      BY <1>1 DEF Ready, Durable, Works, Busy, TypeOK, J
    <2>2. mode = "open" /\ cur \notin withdrawn /\ J.phase \notin {"none", "intent"}
      BY <1>1 DEF Ready, Faithful, Stages, Standing
    <2> QED
      BY <2>1, <2>2 DEF Ready, Durable, Plans, J
  <1>4. Exists(J.dest) /\ pc = "aside" => disk[J.dest] \in held
    <2>1. ASSUME Exists(J.dest), pc = "aside" PROVE disk[Note] \in Version /\ ~Away /\ ~Filling
      <3>1. ~AwayStep /\ ~Filling /\ Saving
        BY <1>1, <1>3, <2>1 DEF AwayStep, Saving, Filling, Running
      <3> QED
        BY <1>3, <2>1, <3>1, InPlace DEF Away, Exists
    <2>2. LogicalNote = NoteSeen
      BY NoteIs DEF Ready, Faithful
    <2> QED
      BY <1>3, <2>1, <2>2 DEF NoteSeen, Ready, Faithful, Known
  <1>5. \/ pc = "aside" /\ pc' = "aside-made" /\ sub'.op = "create" /\ sub'.step = "create" /\ sub'.rev \in held
        \/ pc = "aside-made" /\ pc' = "moved" /\ sub'.op = "remove" /\ sub'.step = "validate" /\ sub'.file = Note
        \/ pc = "moved" /\ ok /\ pc' = "verify" /\ sub'.step = "none"
        \/ pc = "aside" /\ pc' = "keep-promote" /\ sub'.step = "none"
        \/ pc = "moved" /\ ~ok /\ pc' = "keep-promote" /\ sub'.step = "none"
    BY <1>1, <1>2, <1>3, <1>4, Started
  <1>6. Quiet
    BY <1>1, <1>5 DEF Quiet, SameBase
  <1>7. \/ ~AwayStep /\ ~AwayStep'
        \/ Away /\ Away' /\ AsideFile' = AsideFile
    BY <1>1, <1>3, <1>5 DEF Away, AwayStep, Saving, J, AsideFile, InClaim
  <1>7a. AwayStep => AwayStep'
    BY <1>7 DEF Away
  <1>8. Sights'
    BY <1>1, <1>6, <1>7a, QuietFiles, SightsKeep DEF Saving
  <1>9. Moves' /\ Reaches'
    BY <1>1, <1>3, <1>5, HeldGrows, CurNames DEF Moves, Reaches, InClaim, Removal, Ready, Faithful
  <1>10. withdrawn' = withdrawn
    BY <1>5 DEF Ready, Recorded
  <1>11. Stages'
    BY <1>1, <1>3, <1>5, <1>10 DEF Stages, InRecovery, Standing, J
  <1>12. disk[Note] \in Version \/ (~Away /\ ~Away') \/ (Away /\ Away' /\ AsideFile' = AsideFile)
    BY <1>7 DEF Away
  <1> QED
    BY <1>6, <1>8, <1>9, <1>10, <1>11, <1>12, QuietImplemented

\* What was moved aside is compared; the proposal or the note is installed.
LEMMA VerifyImplemented ==
  ASSUME Ready, VerifyAside
  PROVE  Implemented
  <1>1. /\ UNCHANGED <<copies, residue, journal, history, mode, cur, ok, spent>>
        /\ pc = "verify" /\ sub.step = "none" /\ disk' = [disk EXCEPT ![Before(cur)] = disk[Roll(cur)]]
    BY DEF VerifyAside, Frame, ghost, At
  <1>2. \/ pc' = "install-done" /\ sub' = Installing(Temp(cur), J.dest)
        \/ pc' = "restored" /\ sub' = Installing(Roll(cur), J.dest)
        \/ pc' = "keep-promote" /\ sub' = sub /\ Exists(J.dest)
    BY <1>1 DEF VerifyAside, Go, Call, Conflict
  <1>3. /\ J.before # Absent /\ J.dest = Note /\ mode = "open" /\ cur \notin withdrawn /\ cur \in Tx
        /\ J.phase \notin {"none", "intent"}
    <2>1. J.before # Absent /\ J.phase # "none" /\ cur \in Tx
      BY <1>1 DEF Ready, Durable, Works, Busy, TypeOK, J
    <2>2. mode = "open" /\ cur \notin withdrawn /\ J.phase \notin {"none", "intent"}
      BY <1>1 DEF Ready, Faithful, Stages, Standing
    <2> QED
      BY <2>1, <2>2 DEF Ready, Durable, Plans, J
  <1>4. disk[Temp(cur)] = J.next
    BY <1>1 DEF Ready, Durable, Files, HasTemp
  <1>5. \/ pc' = "install-done" /\ sub'.op = "install" /\ sub'.step = "create" /\ sub'.rev = J.next
        \/ pc' = "restored" /\ sub'.op = "install" /\ sub'.step = "create"
        \/ pc' = "keep-promote" /\ sub'.step = "none" /\ Exists(J.dest)
    BY <1>1, <1>2, <1>4, Started
  <1>6. Quiet
    BY <1>1, <1>5 DEF Quiet, SameBase, Ready, TypeOK
  <1>7. Exists(J.dest) => disk[Note] \in Version
    <2>1. disk[Note] # Torn
      BY <1>1, <1>3 DEF Ready, Faithful, Sights, Saving, Filling, Running
    <2> QED
      BY <1>3, <2>1, SlotNames DEF Ready, TypeOK, Content, Exists
  <1>8. disk[Note] \in Version \/ (Away /\ Away' /\ AsideFile' = AsideFile)
    <2>1. CASE pc' = "keep-promote"
      BY <1>5, <1>7, <2>1
    <2>2. CASE pc' # "keep-promote"
      <3>1. Away
        BY <1>1, <1>3 DEF Away, AwayStep, Saving
      <3>2. Away'
        BY <1>1, <1>3, <1>5, <1>6, <2>2, QuietFiles DEF Away, AwayStep, Saving
      <3>3. AsideFile' = AsideFile
        BY <1>1, <1>5, <1>6, QuietFiles DEF AsideFile, InClaim
      <3> QED
        BY <3>1, <3>2, <3>3
    <2> QED
      BY <2>1, <2>2
  <1>9. Sights'
    <2>1. disk'[Note] = disk[Note] /\ J.before' = J.before
      BY <1>6, QuietFiles
    <2> QED
      BY <1>1, <1>8, <2>1, SightsKeep DEF Away, Saving
  <1>10. Moves' /\ Reaches'
    <2>1. disk[Roll(cur)] # Torn
      BY <1>1 DEF Ready, Faithful, Moves
    <2>2. disk'[Roll(cur)] = disk[Roll(cur)]
      BY <1>6, QuietFiles
    <2> QED
      BY <1>1, <1>5, <2>1, <2>2 DEF Moves, Reaches, InClaim, Removal, J
  <1>11. withdrawn' = withdrawn
    BY <1>5 DEF Ready, Recorded
  <1>12. Stages'
    BY <1>1, <1>3, <1>5, <1>11 DEF Stages, InRecovery, Standing, J
  <1> QED
    BY <1>6, <1>8, <1>9, <1>10, <1>11, <1>12, QuietImplemented

\* Labels between routines at which no live save has the note aside.
Plain == {"keep-promote", "keep-commit", "log-installed", "log-committed", "promote", "archive",
          "rec-keep-temp", "rec-keep-extra", "rec-temp", "rec-temp-removed", "rec-restore", "rec-restored",
          "rec-extra", "rec-outcome", "retire-temp", "restored", "install-done", "rec-installed", "rec-read"}
\* A quiet step from one to the other is no step of any save.
LEMMA PlainStep ==
  ASSUME Ready, Quiet, mode' = mode, sub.step = "none", pc \in Plain, pc' \in Plain,
         mode = "open" => sub'.step # "create",
         Moves', Stages', Reaches', withdrawn' = withdrawn
  PROVE  Implemented
  <1>1. ~AwayStep
    BY DEF AwayStep, Plain
  <1>2. Sights'
    BY <1>1, QuietFiles, SightsKeep DEF Saving, Quiet, Plain
  <1>3. ~Away /\ ~Away'
    BY <1>1 DEF Away, AwayStep, Plain, Saving, Quiet
  <1> QED
    BY <1>2, <1>3, QuietImplemented

\* An install has ended, and its phase is logged.
LEMMA InstalledImplemented ==
  ASSUME Ready, Restored \/ InstallDone \/ LogInstalled \/ LogCommitted
  PROVE  Implemented
  <1>1. /\ UNCHANGED <<disk, copies, residue, history, mode, cur, ok, spent, sub>>
        /\ pc \in {"restored", "install-done", "log-installed", "log-committed"} /\ sub.step = "none"
    BY DEF Restored, InstallDone, LogInstalled, LogCommitted, Log, Conflict, Frame, ghost, At
  <1>2. \/ /\ pc \in {"restored", "install-done"} /\ pc' \in {"promote", "keep-promote"}
           /\ journal' = journal
        \/ pc = "install-done" /\ pc' = "log-installed" /\ journal' = journal
        \/ pc = "log-installed" /\ pc' = "keep-commit" /\ journal' = [journal EXCEPT ![cur].phase = "installed"]
        \/ pc = "log-committed" /\ pc' = "archive" /\ journal' = [journal EXCEPT ![cur].phase = "committed"]
    BY <1>1 DEF Restored, InstallDone, LogInstalled, LogCommitted, Log, Conflict, Go, At
  <1>3. mode = "open" /\ cur \notin withdrawn /\ cur \in Tx
    BY <1>1 DEF Ready, Faithful, Stages, Standing, TypeOK
  <1>4. J.phase \notin {"none", "intent"}
    BY <1>1 DEF Ready, Faithful, Stages, Standing
  <1>5. /\ \A t \in Tx : /\ SameBase(t)
                         /\ \/ journal'[t].phase = journal[t].phase
                            \/ {journal[t].phase, journal'[t].phase} \cap {"none", "intent"} = {}
        /\ journal'[cur].phase \notin {"none", "intent"}
    <2>1. CASE journal' = journal
      BY <2>1, <1>4 DEF SameBase, J
    <2>2. CASE pc \in {"log-installed", "log-committed"}
      <3>1. PICK p \in {"installed", "committed"} : journal' = [journal EXCEPT ![cur].phase = p]
        BY <1>2, <2>2
      <3>2. p \in Phase /\ p \notin {"none", "intent"}
        BY DEF Phase
      <3> QED
        BY <1>4, <3>1, <3>2, LogKeeps DEF J, Ready
    <2> QED
      BY <1>2, <2>1, <2>2
  <1>6. Quiet
    BY <1>1, <1>5 DEF Quiet
  <1>7. withdrawn' = withdrawn
    BY <1>2 DEF Ready, Recorded
  <1>8. Moves' /\ Reaches'
    BY <1>1, <1>2 DEF Moves, Reaches, InClaim, Removal
  <1>9. Stages'
    BY <1>1, <1>2, <1>3, <1>5, <1>7 DEF Stages, InRecovery, Standing, J
  <1>10. pc \in Plain /\ pc' \in Plain
    BY <1>1, <1>2 DEF Plain
  <1> QED
    BY <1>1, <1>6, <1>7, <1>8, <1>9, <1>10, PlainStep

\* A proposal at its place has reached it.
LEMMA PlaceReached ==
  ASSUME TypeOK, Durable, Known, cur \in Tx, J.phase # "none",
         disk[J.dest] = J.next \/ disk[Copy] = J.next
  PROVE  Reached(cur)
  <1>1. J.next \in Version /\ (J.dest = Note \/ J.dest = Side(cur))
    BY DEF Durable, Plans, J
  <1>2. CASE J.dest = Note /\ disk[Note] = J.next
    <2>1. LogicalNote = disk[Note]
      BY <1>1, <1>2, Marks DEF LogicalNote
    <2> QED
      BY <1>1, <1>2, <2>1 DEF Known, Reached, J
  <1>3. CASE disk[Side(cur)] = J.next \/ disk[Copy] = J.next
    BY <1>1, <1>3 DEF Reached, VisibleCopies, J
  <1> QED
    BY <1>1, <1>2, <1>3

\* What has reached its place, after a quiet step.
LEMMA QuietReached ==
  ASSUME Ready, Quiet, Reached(cur)
  PROVE  Reached(cur)'
  <1>1. cur \in Tx /\ SameBase(cur) /\ VisibleCopies \subseteq VisibleCopies' /\ cur' = cur
    BY QuietFiles DEF Quiet
  <1> QED
    BY <1>1, StaysReached DEF Reached, Ready

\* The rollback copy becomes evidence.
LEMMA PreserveImplemented ==
  ASSUME Ready, PreserveRollback
  PROVE  Implemented
  <1>1. /\ UNCHANGED <<copies, residue, journal, history, mode, cur, ok, spent>>
        /\ pc \in Keeps /\ sub.step = "none"
        /\ disk' = disk \/ disk' = [disk EXCEPT ![Before(cur)] = disk[Roll(cur)]]
        /\ sub' = sub \/ sub' = Removing(Roll(cur), disk[Roll(cur)])
    BY DEF PreserveRollback, Frame, ghost
  <1>2. pc' = AfterKeep[pc]
    BY DEF PreserveRollback, Go
  <1>3. \/ pc = "keep-promote" /\ pc' = "promote"
        \/ pc = "keep-commit" /\ pc' = "log-committed"
        \/ pc = "rec-keep-temp" /\ pc' = "rec-temp"
        \/ pc = "rec-keep-extra" /\ pc' = "rec-extra"
    BY <1>1, <1>2 DEF AfterKeep, Keeps
  <1>4. sub'.step = "none" \/ (sub'.step = "validate" /\ sub'.op = "remove" /\ sub'.file = Roll(cur))
    BY <1>1, Started
  <1>5. Quiet
    BY <1>1, <1>4 DEF Quiet, SameBase, Ready, TypeOK
  <1>6. withdrawn' = withdrawn
    BY <1>3 DEF Ready, Recorded
  <1>7. Moves'
    BY <1>3, <1>4 DEF Moves, InClaim
  <1>8. Reaches'
    <2>1. Temp(cur) # Roll(cur)
      BY CurNames DEF Ready, TypeOK
    <2>2. pc' = "rec-temp" => Reached(cur)'
      BY <1>3, <1>5, QuietReached DEF Ready, Faithful, Reaches
    <2> QED
      BY <1>1, <1>3, <1>4, <2>1, <2>2 DEF Reaches, Removal
  <1>9. Stages'
    BY <1>1, <1>3, <1>6 DEF Stages, InRecovery, Standing, J, Ready, Faithful
  <1>10. pc \in Plain /\ pc' \in Plain /\ sub'.step # "create"
    BY <1>3, <1>4 DEF Plain
  <1> QED
    BY <1>1, <1>5, <1>6, <1>7, <1>8, <1>9, <1>10, PlainStep

\* A withdrawn proposal's evidence goes.
LEMMA RefusedImplemented ==
  ASSUME Ready, RetireRefused
  PROVE  Implemented
  <1>1. /\ UNCHANGED <<copies, residue, journal, history, mode, cur, ok, spent, sub>>
        /\ pc = "retire-temp" /\ sub.step = "none" /\ pc' = "archive"
        /\ disk' = [disk EXCEPT ![Before(cur)] = Absent]
    BY DEF RetireRefused, Frame, ghost, At, Go
  <1>2. Quiet
    BY <1>1 DEF Quiet, SameBase, Ready, TypeOK
  <1>3. withdrawn' = withdrawn
    BY <1>1 DEF Ready, Recorded
  <1>4. Moves' /\ Reaches' /\ Stages'
    BY <1>1 DEF Moves, Reaches, Stages, InClaim, Removal, InRecovery, Standing
  <1>5. pc \in Plain /\ pc' \in Plain
    BY <1>1 DEF Plain
  <1> QED
    BY <1>1, <1>2, <1>3, <1>4, <1>5, PlainStep

\* Recovery looks at what a transaction has left, and goes on accordingly.
LEMMA RecoveringImplemented ==
  ASSUME Ready, RecRead \/ RecTemp \/ RecTempRemoved \/ RecRestore \/ RecRestored \/ RecExtra \/ RecOutcome
  PROVE  Implemented
  <1>1. /\ UNCHANGED <<disk, copies, residue, journal, history, mode, cur, ok, spent>>
        /\ pc \in {"rec-read", "rec-temp", "rec-temp-removed", "rec-restore", "rec-restored", "rec-extra",
                   "rec-outcome"}
        /\ sub.step = "none"
    BY DEF RecRead, RecTemp, RecTempRemoved, RecRestore, RecRestored, RecExtra, RecOutcome, Conflict,
       Frame, ghost, At
  <1>2. \/ pc = "rec-read" /\ pc' = "rec-keep-temp" /\ sub' = sub /\ disk[J.dest] = J.next
        \/ /\ pc = "rec-read" /\ pc' = "rec-installed" /\ sub' = Installing(Temp(cur), J.dest)
           /\ J.before = Absent /\ disk[Temp(cur)] = J.next
        \/ pc' \in {"rec-restore", "archive", "promote", "rec-extra", "rec-keep-extra", "rec-outcome"} /\ sub' = sub
        \/ pc = "rec-temp" /\ pc' = "rec-temp-removed" /\ sub' = Removing(Temp(cur), disk[Temp(cur)])
        \/ pc = "rec-restore" /\ pc' = "rec-restored" /\ sub' = Installing(Roll(cur), J.dest)
    BY <1>1 DEF RecRead, RecTemp, RecTempRemoved, RecRestore, RecRestored, RecExtra, RecOutcome, Conflict,
       Go, Call, At
  <1>3. \/ pc = "rec-read" /\ pc' = "rec-keep-temp" /\ sub'.step = "none" /\ disk[J.dest] = J.next
        \/ /\ pc = "rec-read" /\ pc' = "rec-installed" /\ sub'.step = "create" /\ sub'.rev = J.next
           /\ J.before = Absent
        \/ /\ pc' \in {"rec-restore", "archive", "promote", "rec-extra", "rec-keep-extra", "rec-outcome"}
           /\ sub'.step = "none"
        \/ pc = "rec-temp" /\ pc' = "rec-temp-removed" /\ sub'.step = "validate"
        \/ pc = "rec-restore" /\ pc' = "rec-restored" /\ sub'.step = "create"
    BY <1>1, <1>2, Started
  <1>4. cur \in Tx /\ J.phase # "none" /\ mode # "open"
    <2>1. cur \in Tx /\ J.phase # "none"
      BY <1>1 DEF Ready, TypeOK, Durable, Works, Busy, J
    <2>2. mode # "open"
      BY <1>1 DEF Ready, Faithful, Stages, InRecovery
    <2> QED
      BY <2>1, <2>2
  <1>5. Quiet
    BY <1>1, <1>3 DEF Quiet, SameBase
  <1>6. withdrawn' = withdrawn
    BY <1>3 DEF Ready, Recorded
  <1>7. Moves'
    BY <1>1, <1>3 DEF Moves, InClaim, J
  <1>8. Reaches'
    <2>1. pc' \in {"rec-keep-temp", "rec-temp-removed"} => Reached(cur)'
      <3>1. pc' \in {"rec-keep-temp", "rec-temp-removed"} => Reached(cur)
        BY <1>3, <1>4, PlaceReached DEF Ready, Faithful, Reaches
      <3> QED
        BY <1>5, <3>1, QuietReached
    <2> QED
      BY <1>1, <1>3, <2>1 DEF Reaches, Removal
  <1>9. Stages'
    <2>1. pc' = "rec-installed" => cur \notin withdrawn
      BY <1>3, <1>4 DEF Ready, Faithful, Stores, J
    <2> QED
      BY <1>1, <1>3, <1>4, <1>6, <2>1 DEF Stages, Standing, InRecovery
  <1>10. pc \in Plain /\ pc' \in Plain
    BY <1>1, <1>3 DEF Plain
  <1> QED
    BY <1>1, <1>4, <1>5, <1>6, <1>7, <1>8, <1>9, <1>10, PlainStep
-----------------------------------------------------------------------------
(* The file routines.                                                      *)

\* A routine changes files, and its own state.
RoutineFrame == UNCHANGED <<journal, history, mode, pc, cur, spent>>

\* Only this transaction's staged file and rollback copy change; the staged
\* file only towards the proposal, or when it has reached its place.
FilesKept ==
  /\ \A t \in Tx : disk'[Roll(t)] = disk[Roll(t)] \/ disk'[Roll(t)] \in held \cup {Torn, Absent}
  /\ \A t \in Tx : journal[t].phase # "none" =>
       \/ disk'[Temp(t)] \in {disk[Temp(t)], journal[t].next}
       \/ disk'[Temp(t)] \in {Torn, Absent} /\ (Accepted(t) => Reached(t))

\* What a running routine leaves as it was.
LEMMA RunKeeps ==
  ASSUME Ready, RoutineFrame
  PROVE  /\ Stages' /\ SavesKept /\ withdrawn' = withdrawn /\ Spends(0, 0)
         /\ J' = J /\ (Saving' <=> Saving) /\ cur \in Tx
         /\ \A t \in Tx : SameBase(t)
  <1>1. withdrawn' = withdrawn
    BY DEF Ready, Recorded, Faithful, Stages, RoutineFrame
  <1>2. J' = J /\ cur \in Tx /\ (Saving' <=> Saving) /\ \A t \in Tx : SameBase(t)
    BY DEF RoutineFrame, J, Ready, TypeOK, Saving, SameBase
  <1>3. Stages'
    BY <1>1, <1>2 DEF RoutineFrame, Ready, Faithful, Stages
  <1>4. SavesKept
    <2> SUFFICES ASSUME NEW t \in Tx
                 PROVE  SaveOf(t)' = SaveOf(t)
      BY DEF SavesKept
    <2> QED
      BY <1>1, SaveKept DEF RoutineFrame
  <1>5. Spends(0, 0)
    BY DEF Spends, RoutineFrame, Ready, TypeOK
  <1> QED
    BY <1>1, <1>2, <1>3, <1>4, <1>5

\* The files stay in order while a routine runs.
LEMMA RunStores ==
  ASSUME Ready, RoutineFrame, VisibleCopies \subseteq VisibleCopies', FilesKept
  PROVE  Stores'
  <1>1. withdrawn' = withdrawn /\ \A t \in Tx : SameBase(t)
    BY RunKeeps
  <1>2. /\ \A t \in Tx : journal'[t].phase # "none" => journal[t].phase # "none"
        /\ \A t \in Tx : journal[t].phase # "none" \/ history[t] # "none"
                           => journal'[t].phase # "none" \/ history'[t] # "none"
        /\ \A t \in Tx : journal'[t].phase \notin {"none", "intent"} /\ journal[t].phase \in {"none", "intent"}
                           => disk'[Temp(t)] = journal[t].next \/ Reached(t)
        /\ spent'.late = spent.late
    BY DEF RoutineFrame
  <1>3. /\ \A t \in Tx : disk'[Roll(t)] = disk[Roll(t)] \/ disk'[Roll(t)] \in held \cup {Torn, Absent}
        /\ \A t \in Tx : journal[t].phase # "none" =>
             \/ disk'[Temp(t)] \in {disk[Temp(t)], journal[t].next}
             \/ disk'[Temp(t)] \in {Torn, Absent} /\ (Accepted(t) => Reached(t))
    BY DEF FilesKept
  <1> QED
    BY <1>1, <1>2, <1>3, StoresKeep

\* A routine that leaves the note's name alone, or works where the note is
\* not seen.
LEMMA RunSights ==
  ASSUME Ready, RoutineFrame, disk'[Note] = disk[Note], disk[Note] = Torn => ~Filling,
         disk[Note] \in Version \/ (AwayStep => AwayStep')
  PROVE  Sights'
  <1>1. J' = J /\ (Saving' <=> Saving)
    BY RunKeeps
  <1>2. disk[Note] \notin Version => (there' <=> there)
    BY DEF Ready, Recorded, RoutineFrame
  <1> QED
    BY <1>1, <1>2 DEF Ready, Faithful, Sights, Seen

\* So does what has reached its place.
LEMMA RunReached ==
  ASSUME Ready, RoutineFrame, VisibleCopies \subseteq VisibleCopies', Reached(cur)
  PROVE  Reached(cur)'
  <1>1. cur \in Tx /\ SameBase(cur) /\ cur' = cur
    BY RunKeeps DEF RoutineFrame
  <1> QED
    BY <1>1, StaysReached DEF Reached, Ready

\* A step of a routine that leaves the note and the copies alone is no step of
\* any save.
LEMMA RunImplemented ==
  ASSUME Ready, RoutineFrame, disk'[Note] = disk[Note], VisibleCopies' = VisibleCopies, FilesKept,
         disk[Note] = Torn => ~Filling /\ ~Filling',
         disk[Note] \in Version \/ (~Away /\ ~Away') \/ (Away /\ Away' /\ AsideFile' = AsideFile),
         Moves', Reaches'
  PROVE  Implemented
  <1>1. Stores' /\ Stages'
    BY RunStores, RunKeeps
  <1>2. J' = J /\ (Saving' <=> Saving) /\ SavesKept /\ Spends(0, 0)
    BY RunKeeps
  <1>3. Sights'
    <2>1. CASE Saving /\ J.before # Absent
      <3>1. disk[Note] \in Version \/ (AwayStep => AwayStep')
        BY <2>1 DEF Away
      <3> QED
        BY <3>1, RunSights
    <2>2. CASE ~(Saving /\ J.before # Absent)
      BY <1>2, <2>2 DEF Sights
    <2> QED
      BY <2>1, <2>2
  <1>4. LogicalNote' = LogicalNote
    <2>1. LogicalNote = NoteSeen
      BY NoteIs DEF Ready, Faithful
    <2>2. LogicalNote' = NoteSeen'
      BY <1>1, <1>3, NoteIsNext DEF Ready
    <2>3. disk[Note] \notin Version => (there' <=> there)
      BY DEF Ready, Recorded, RoutineFrame
    <2>4. NoteSeen' = NoteSeen
      <3>1. CASE disk[Note] \in Version
        BY <3>1, Marks DEF NoteSeen
      <3>2. CASE disk[Note] \notin Version /\ ~Away /\ ~Away'
        BY <3>2 DEF NoteSeen
      <3>3. CASE disk[Note] \notin Version /\ Away /\ Away' /\ AsideFile' = AsideFile
        BY <2>3, <3>3 DEF NoteSeen
      <3> QED
        BY <3>1, <3>2, <3>3
    <2> QED
      BY <2>1, <2>2, <2>4
  <1>5. Mapped
    BY <1>2, <1>4, MapNothing DEF NoteKept, Ready, Faithful
  <1> QED
    BY <1>1, <1>3, <1>5, HeldGrows DEF Implemented, Mapped, Faithful, Ready

\* A live save has the note aside only in these routines.
LEMMA AwayRuns ==
  ASSUME TypeOK, Durable, sub.step # "none", Away
  PROVE  \/ /\ pc = "moved" /\ sub.op = "remove" /\ sub.file = Note
            /\ sub.step \in {"inspect", "reinspect", "putback", "settle", "putfill"}
         \/ /\ pc \in {"install-done", "restored", "rethrow"} /\ sub.op = "install" /\ sub.to = Note
            /\ J.dest = Note /\ sub.step \in {"create", "fill"}
  <1>1. pc # "verify"
    BY RoutineFacts
  <1>2. CASE pc = "moved"
    BY <1>2, RoutineFacts DEF Away, AwayStep
  <1>3. CASE pc \in {"install-done", "restored", "rethrow"}
    <2>1. Busy
      BY <1>3 DEF Busy
    <2> QED
      BY <1>3, <2>1, RoutineFacts, CurFacts DEF Away, AwayStep
  <1> QED
    BY <1>1, <1>2, <1>3 DEF Away, AwayStep

\* The installed file is checked, and the file to remove is.
LEMMA CheckImplemented ==
  ASSUME Ready, CheckInstalled \/ ValidateClaim
  PROVE  Implemented
  <1>1. /\ RoutineFrame /\ UNCHANGED <<disk, copies>> /\ sub.step \in {"check", "validate"}
        /\ \/ sub.step = "check" /\ disk[sub.to] = sub.rev /\ sub' = [sub EXCEPT !.step = "validate"]
           \/ sub.step = "validate" /\ sub' = [sub EXCEPT !.step = "claim"] /\ ok' = ok
           \/ sub' = NoSub /\ ok' = FALSE
    BY DEF CheckInstalled, ValidateClaim, RoutineFrame, durable, ghost, Running, Verified, Return
  <1>2. /\ sub' # NoSub => sub'.op = sub.op /\ sub'.file = sub.file /\ sub'.to = sub.to /\ sub'.rev = sub.rev
        /\ \/ sub.step = "check" /\ disk[sub.to] = sub.rev /\ sub'.step = "validate"
           \/ sub.step = "validate" /\ sub'.step = "claim" /\ ok' = ok
           \/ sub' = NoSub /\ sub'.step = "none" /\ ok' = FALSE
    BY <1>1 DEF Ready, TypeOK, Sub, NoSub
  <1>3. VisibleCopies' = VisibleCopies /\ FilesKept
    BY <1>1 DEF VisibleCopies, FilesKept
  <1>4. ~Filling /\ ~Filling'
    BY <1>1, <1>2 DEF Filling, Running
  <1>5. pc # "verify"
    BY <1>1, RoutineFacts DEF Ready
  <1>6. ~Away /\ ~Away'
    BY <1>1, <1>2, <1>5 DEF Away, AwayStep, RoutineFrame
  <1>7. J' = J /\ cur \in Tx
    BY <1>1, RunKeeps
  <1>8. Moves'
    <2>1. pc # "aside-made"
      BY <1>1, RoutineFacts DEF Ready
    <2> QED
      BY <1>1, <1>2, <1>7, <2>1 DEF Moves, Ready, Faithful, RoutineFrame, InClaim, NoSub
  <1>9. Reaches'
    <2>1. Reached(cur) => Reached(cur)'
      BY <1>1, <1>3, RunReached
    <2>2. sub.step = "check" /\ disk[sub.to] = sub.rev /\ sub.file = Temp(cur) /\ sub.rev = J.next => Reached(cur)
      <3> SUFFICES ASSUME sub.step = "check", disk[sub.to] = sub.rev, sub.file = Temp(cur), sub.rev = J.next
                   PROVE  Reached(cur)
        OBVIOUS
      <3>1. sub.to \in {J.dest, Copy}
        BY RoutineFacts DEF Ready, Removal
      <3>2. J.phase # "none"
        BY RoutineFacts, CurFacts DEF Ready
      <3> QED
        BY <1>7, <3>1, <3>2, PlaceReached DEF Ready, Faithful
    <2>3. pc' = pc /\ cur' = cur /\ Temp(cur)' = Temp(cur) /\ "check" \notin Removal /\ {"validate", "claim"} \subseteq Removal
      BY <1>1 DEF RoutineFrame, Temp, Removal
    <2>4. sub'.step \in Removal /\ sub'.file = Temp(cur) /\ sub'.rev = J.next /\ pc # "retire-temp" => Reached(cur)
      <3>1. CASE sub.step = "check" /\ disk[sub.to] = sub.rev
        BY <1>2, <2>2, <3>1 DEF NoSub, Removal
      <3>2. CASE sub.step = "validate"
        BY <1>2, <2>3, <3>2 DEF NoSub, Removal, Ready, Faithful, Reaches
      <3>3. CASE sub.step = "check" /\ disk[sub.to] # sub.rev
        BY <1>2, <3>3 DEF Removal
      <3> QED
        BY <1>1, <3>1, <3>2, <3>3
    <2>5. ~(sub'.step = "none" /\ ok')
      BY <1>2
    <2>6. pc \in {"rec-keep-temp", "rec-temp", "rec-temp-removed"} => Reached(cur)
      BY DEF Ready, Faithful, Reaches
    <2> QED
      BY <1>7, <2>1, <2>3, <2>4, <2>5, <2>6 DEF Reaches
  <1> QED
    BY <1>1, <1>3, <1>4, <1>6, <1>8, <1>9, RunImplemented

\* The claim is inspected.
LEMMA InspectImplemented ==
  ASSUME Ready, InspectClaim \/ ReinspectClaim
  PROVE  Implemented
  <1>1. /\ RoutineFrame /\ UNCHANGED <<disk, copies, ok>> /\ sub.step \in {"inspect", "reinspect"}
        /\ \/ sub.step = "inspect" /\ sub' = [sub EXCEPT !.step = "reinspect"]
           \/ sub.step = "reinspect" /\ sub' = [sub EXCEPT !.step = "settle"]
           \/ ~Exists(sub.file) /\ sub' = [sub EXCEPT !.step = "putback", !.bytes = disk[Claim]]
           \/ Exists(sub.file) /\ sub' = [sub EXCEPT !.step = "settle-failed", !.bytes = disk[Claim]]
    BY DEF InspectClaim, ReinspectClaim, GiveBack, RoutineFrame, durable, ghost, Running
  <1>2. /\ sub'.op = sub.op /\ sub'.file = sub.file /\ sub'.to = sub.to /\ sub'.rev = sub.rev
        /\ \/ sub'.step \in {"reinspect", "settle"}
           \/ sub'.step = "putback" /\ sub'.bytes = disk[Claim]
           \/ sub'.step = "settle-failed" /\ Exists(sub.file)
    BY <1>1 DEF Ready, TypeOK, Sub
  <1>3. VisibleCopies' = VisibleCopies /\ FilesKept
    BY <1>1 DEF VisibleCopies, FilesKept
  <1>4. ~Filling /\ ~Filling'
    BY <1>1, <1>2 DEF Filling, Running
  <1>5. pc # "verify" /\ pc # "aside-made" /\ (pc = "moved" => sub.file = Note /\ J.before # Absent)
    BY <1>1, RoutineFacts DEF Ready
  <1>6. disk[Note] \in Version \/ (~Away /\ ~Away') \/ (Away /\ Away' /\ AsideFile' = AsideFile)
    <2>1. CASE pc = "moved"
      <3>1. Saving /\ J' = J /\ (Saving' <=> Saving)
        BY <1>1, <2>1, RunKeeps DEF Ready, Faithful, Stages, Standing, Saving
      <3>2. Away /\ AsideFile = disk[Claim]
        BY <1>1, <1>5, <2>1, <3>1 DEF Away, AwayStep, AsideFile, InClaim
      <3>3. CASE sub'.step = "settle-failed"
        <4>1. disk[Note] # Torn
          BY <1>4, <1>5, <2>1, <3>1 DEF Ready, Faithful, Sights
        <4> QED
          BY <1>2, <1>5, <2>1, <3>3, <4>1, SlotNames DEF Ready, TypeOK, Content, Exists
      <3>4. CASE sub'.step # "settle-failed"
        BY <1>1, <1>2, <1>5, <2>1, <3>1, <3>2, <3>4 DEF Away, AwayStep, AsideFile, InClaim, RoutineFrame
      <3> QED
        BY <3>3, <3>4
    <2>2. CASE pc # "moved"
      BY <1>1, <1>2, <1>5, <2>2 DEF Away, AwayStep, RoutineFrame
    <2> QED
      BY <2>1, <2>2
  <1>7. J' = J /\ cur \in Tx
    BY <1>1, RunKeeps
  <1>8. Moves'
    <2>1. held \subseteq held'
      BY HeldGrows DEF Ready
    <2> QED
      BY <1>1, <1>2, <1>5, <1>7, <2>1 DEF Moves, Ready, Faithful, RoutineFrame, InClaim
  <1>9. Reaches'
    <2>1. Reached(cur) => Reached(cur)'
      BY <1>1, <1>3, RunReached
    <2> QED
      BY <1>1, <1>2, <1>7, <2>1 DEF Reaches, Ready, Faithful, RoutineFrame, Removal
  <1> QED
    BY <1>1, <1>3, <1>4, <1>6, <1>8, <1>9, RunImplemented

\* What changes no file in a copy's place changes no copy.
LEMMA CopiesKept ==
  ASSUME cur \in Tx, OthersKept, copies' = copies, cur' = cur,
         disk'[Copy] = disk[Copy] \/ {disk'[Copy], disk[Copy]} \cap Version = {},
         disk'[Side(cur)] = disk[Side(cur)] \/ {disk'[Side(cur)], disk[Side(cur)]} \cap Version = {}
  PROVE  VisibleCopies' = VisibleCopies
  <1>1. \A t \in Tx : disk'[Side(t)] = disk[Side(t)] \/ {disk'[Side(t)], disk[Side(t)]} \cap Version = {}
    BY DEF OthersKept
  <1>2. {disk'[Side(t)] : t \in Tx} \cap Version = {disk[Side(t)] : t \in Tx} \cap Version
    BY <1>1
  <1>3. {disk'[Copy]} \cap Version = {disk[Copy]} \cap Version
    OBVIOUS
  <1> QED
    BY <1>2, <1>3 DEF VisibleCopies

\* It is enough to look at the running transaction's own files.
LEMMA OwnFilesKept ==
  ASSUME cur \in Tx, OthersKept,
         disk'[Roll(cur)] = disk[Roll(cur)] \/ disk'[Roll(cur)] \in held \cup {Torn, Absent},
         \/ disk'[Temp(cur)] \in {disk[Temp(cur)], J.next}
         \/ disk'[Temp(cur)] \in {Torn, Absent} /\ (Accepted(cur) => Reached(cur))
  PROVE  FilesKept
  BY DEF FilesKept, OthersKept, J

\* A routine works on the note or on files of its transaction.
LEMMA RunNames ==
  ASSUME TypeOK, Durable, sub.step # "none"
  PROVE  /\ cur \in Tx /\ Reach(cur) \subseteq Slot /\ disk \in [Slot -> Content]
         /\ sub.op # "remove" => sub.to \in Reach(cur)
         /\ sub.op # "create" => sub.file \in Reach(cur)
         /\ sub.op = "remove" => sub.file \in {Note, Temp(cur), Roll(cur)} /\ (sub.file = Note <=> pc = "moved")
         /\ sub.op = "install" => sub.file \in {Temp(cur), Roll(cur)} /\ sub.to \in {Note, Copy, Side(cur)}
         /\ sub.op = "create" => sub.to \in {Temp(cur), Roll(cur), Before(cur)} /\ sub.step \in {"create", "fill"}
         /\ sub.op \in {"create", "install", "remove"} /\ (pc = "moved" => sub.op = "remove")
  <1>1. cur \in Tx /\ disk \in [Slot -> Content] /\ sub.op \in {"create", "install", "remove"}
    BY DEF TypeOK, Sub
  <1>2. /\ Note # Copy /\ Note # Claim /\ Copy # Claim
        /\ Temp(cur) # Note /\ Roll(cur) # Note /\ Before(cur) # Note
    BY <1>1, CurNames
  <1>3. /\ sub.op = "remove" => sub.file \in {Note, Temp(cur), Roll(cur)} /\ (sub.file = Note <=> pc = "moved")
        /\ sub.op = "install" => sub.file \in {Temp(cur), Roll(cur)} /\ sub.to \in {Note, Copy, Side(cur)}
        /\ sub.op = "create" => sub.to \in {Temp(cur), Roll(cur), Before(cur)} /\ sub.step \in {"create", "fill"}
    BY <1>2, RoutineFacts, CurFacts
  <1>4. pc = "moved" => sub.op = "remove"
    BY RoutineFacts
  <1> QED
    BY <1>1, <1>3, <1>4, CurNames DEF Reach, OwnNames

\* The file to remove moves to the claim.
LEMMA TakeImplemented ==
  ASSUME Ready, TakeClaim
  PROVE  Implemented
  <1>1. /\ RoutineFrame /\ copies' = copies /\ sub.step = "claim"
        /\ \/ /\ Exists(sub.file) /\ disk' = [disk EXCEPT ![Claim] = disk[sub.file], ![sub.file] = Absent]
              /\ sub' = [sub EXCEPT !.step = "inspect"] /\ ok' = ok
           \/ ~Exists(sub.file) /\ disk' = disk /\ sub' = NoSub /\ ok' = FALSE
    BY DEF TakeClaim, RoutineFrame, ghost, Running, Return
  <1>2. \/ /\ Exists(sub.file) /\ disk' = [disk EXCEPT ![Claim] = disk[sub.file], ![sub.file] = Absent]
           /\ sub'.op = sub.op /\ sub'.file = sub.file /\ sub'.to = sub.to /\ sub'.rev = sub.rev
           /\ sub'.step = "inspect" /\ ok' = ok
        \/ ~Exists(sub.file) /\ disk' = disk /\ sub' = NoSub /\ sub'.step = "none" /\ ok' = FALSE
    BY <1>1 DEF Ready, TypeOK, Sub, NoSub
  <1>3. cur \in Tx /\ J' = J /\ cur' = cur /\ pc' = pc /\ (Saving' <=> Saving) /\ disk \in [Slot -> Content]
    BY <1>1, RunKeeps DEF RoutineFrame, Ready, TypeOK
  <1>4. /\ sub.op \in {"install", "remove"} /\ sub.file \in {Note, Temp(cur), Roll(cur)}
        /\ (sub.file = Note <=> pc = "moved") /\ pc # "verify"
    <2>1. Temp(cur) # Note /\ Roll(cur) # Note
      BY <1>3, CurNames
    <2> QED
      BY <1>1, <2>1, RunNames, RoutineFacts DEF Ready
  <1>5. /\ OthersKept /\ disk'[Copy] = disk[Copy] /\ disk'[Side(cur)] = disk[Side(cur)]
        /\ disk'[Temp(cur)] = disk[Temp(cur)] \/ (disk'[Temp(cur)] = Absent /\ sub.file = Temp(cur))
        /\ disk'[Roll(cur)] = disk[Roll(cur)] \/ disk'[Roll(cur)] = Absent
        /\ sub.file # Note => disk'[Note] = disk[Note]
        /\ sub.file = Note /\ sub'.step = "inspect" => disk'[Note] = Absent /\ disk'[Claim] = disk[Note]
                                                       /\ disk'[Roll(cur)] = disk[Roll(cur)]
    <2>1. CASE disk' = disk /\ sub'.step = "none"
      BY <2>1 DEF OthersKept
    <2>2. CASE Exists(sub.file) /\ disk' = [disk EXCEPT ![Claim] = disk[sub.file], ![sub.file] = Absent]
      <3>1. /\ Reach(cur) \subseteq Slot /\ sub.file \in Reach(cur) /\ sub.file # Claim
            /\ \A s \in Slot : s \notin {Claim, sub.file} => disk'[s] = disk[s]
            /\ disk'[Claim] = disk[sub.file] /\ disk'[sub.file] = Absent
        BY <1>3, <1>4, <2>2, CurNames DEF Reach, OwnNames
      <3>2. OthersKept
        BY <1>3, <3>1, Others DEF Reach, OwnNames
      <3>3. disk'[Copy] = disk[Copy] /\ disk'[Side(cur)] = disk[Side(cur)]
        BY <1>3, <1>4, <3>1, CurNames DEF Reach, OwnNames
      <3> QED
        BY <1>3, <1>4, <3>1, <3>2, <3>3, CurNames DEF Reach, OwnNames
    <2> QED
      BY <1>2, <2>1, <2>2
  <1>6. VisibleCopies' = VisibleCopies
    BY <1>1, <1>3, <1>5, CopiesKept
  <1>7. FilesKept
    <2>1. sub.file = Temp(cur) /\ Accepted(cur) => Reached(cur)
      <3> SUFFICES ASSUME sub.file = Temp(cur), Accepted(cur), ~Reached(cur)
                   PROVE  FALSE
        OBVIOUS
      <3>1. pc # "retire-temp"
        BY <1>3 DEF Accepted, Ready, Faithful, Stages
      <3>2. disk[Temp(cur)] = J.next
        BY <1>3 DEF Ready, Faithful, Stores, J
      <3>3. disk[Temp(cur)] = sub.rev
        BY <1>1, <1>3, <1>4, CurNames DEF Ready, Durable, Holds, Unclaimed
      <3> QED
        BY <1>1, <3>1, <3>2, <3>3 DEF Ready, Faithful, Reaches, Removal
    <2> QED
      BY <1>3, <1>5, <2>1, OwnFilesKept
  <1>8. Reaches'
    <2>1. Reached(cur) => Reached(cur)'
      BY <1>1, <1>6, RunReached
    <2>2. sub'.step \in Removal /\ sub'.file = Temp(cur) /\ sub'.rev = J.next /\ pc # "retire-temp" => Reached(cur)
      BY <1>1, <1>2 DEF Ready, Faithful, Reaches, Removal
    <2>3. sub'.step = "none" => ok' = FALSE
      BY <1>2
    <2>4. pc \in {"rec-keep-temp", "rec-temp", "rec-temp-removed"} => Reached(cur)
      BY DEF Ready, Faithful, Reaches
    <2> QED
      BY <1>3, <2>1, <2>2, <2>3, <2>4 DEF Reaches, Temp
  <1>9. ~Filling /\ ~Filling' /\ ~Away
    BY <1>1, <1>2, <1>4 DEF Filling, Running, Away, AwayStep, NoSub
  <1>10. CASE sub.file # Note \/ sub' = NoSub
    <2>1. disk'[Note] = disk[Note]
      BY <1>2, <1>5, <1>10 DEF NoSub
    <2>2. ~Away'
      BY <1>2, <1>3, <1>4, <1>10 DEF Away, AwayStep, NoSub
    <2>3. Moves'
      <3>1. disk'[Roll(cur)] = disk[Roll(cur)] \/ disk'[Roll(cur)] # Torn
        BY <1>5, Marks
      <3>2. pc = "moved" => sub'.step = "none"
        BY <1>4, <1>10 DEF NoSub
      <3>3. pc # "aside-made"
        BY <1>1, RoutineFacts DEF Ready
      <3> QED
        BY <1>1, <1>2, <1>3, <3>1, <3>2, <3>3 DEF Moves, Ready, Faithful, InClaim, NoSub, Roll
    <2> QED
      BY <1>1, <1>6, <1>7, <1>8, <1>9, <2>1, <2>2, <2>3, RunImplemented
  <1>11. CASE sub.file = Note /\ sub' # NoSub
    <2>1. /\ sub'.step = "inspect" /\ disk'[Note] = Absent /\ disk'[Claim] = disk[Note] /\ disk[Note] # Absent
          /\ pc = "moved" /\ disk'[Roll(cur)] = disk[Roll(cur)]
      BY <1>2, <1>4, <1>5, <1>11 DEF Exists
    <2>2. Saving /\ J.before # Absent /\ J.phase # "none"
      BY <1>1, <2>1, RoutineFacts, CurFacts DEF Ready, Faithful, Stages, Standing, Saving, J, Durable, Works
    <2>3. disk[Note] \in Version
      <3>1. ~AwayStep
        BY <1>9, <2>2 DEF Away
      <3> QED
        BY <2>1, <2>2, <3>1, InPlace
    <2>4. LogicalNote = disk[Note] /\ disk[Note] \in held
      <3>1. LogicalNote = NoteSeen
        BY NoteIs DEF Ready, Faithful
      <3> QED
        BY <2>3, <3>1, Marks DEF NoteSeen, Ready, Faithful, Known
    <2>5. Away' /\ AwayStep' /\ AsideFile' = disk[Note]
      BY <1>3, <2>1, <2>2 DEF Away, AwayStep, AsideFile, InClaim
    <2>6. there' = there /\ there
      BY <1>1, <2>1, <2>3, Marks DEF Ready, Recorded, Faithful, Stores, RoutineFrame
    <2>7. Sights'
      BY <2>1, <2>5, Marks DEF Sights
    <2>8. Moves'
      <3>1. disk[Note] \in held'
        BY <2>4, HeldGrows DEF Ready
      <3> QED
        BY <1>3, <2>1, <2>3, <3>1 DEF Moves, Ready, Faithful, InClaim, Roll
    <2>9. Stores' /\ Stages' /\ SavesKept /\ Spends(0, 0)
      BY <1>1, <1>6, <1>7, RunStores, RunKeeps
    <2>10. LogicalNote' = LogicalNote
      <3>1. LogicalNote' = NoteSeen'
        BY <2>7, <2>9, NoteIsNext DEF Ready
      <3>2. NoteSeen' = disk[Note]
        BY <2>1, <2>5, <2>6, Marks DEF NoteSeen
      <3> QED
        BY <2>4, <3>1, <3>2
    <2>11. Mapped
      BY <1>6, <2>9, <2>10, MapNothing DEF NoteKept, Ready, Faithful
    <2> QED
      BY <1>8, <2>7, <2>8, <2>9, <2>11, HeldGrows DEF Implemented, Mapped, Faithful, Ready
  <1> QED
    BY <1>10, <1>11

\* Bytes the user did not expect go back to the note's name.
LEMMA PutImplemented ==
  ASSUME Ready, PutBack \/ PutFill
  PROVE  Implemented
  <1>1. /\ RoutineFrame /\ copies' = copies /\ ok' = ok
        /\ \/ sub.step = "putback" /\ Exists(sub.file) /\ sub' = [sub EXCEPT !.step = "settle-failed"] /\ disk' = disk
           \/ /\ sub.step = "putback" /\ ~Exists(sub.file) /\ sub' = [sub EXCEPT !.step = "putfill"]
              /\ disk' = [disk EXCEPT ![sub.file] = Torn]
           \/ /\ sub.step = "putfill" /\ sub' = [sub EXCEPT !.step = "settle-failed"]
              /\ disk' = [disk EXCEPT ![sub.file] = IF @ = Torn THEN sub.bytes ELSE @]
    BY DEF PutBack, PutFill, RoutineFrame, ghost, Running
  <1>2. sub.file = Note /\ pc = "moved" /\ sub.op = "remove"
    <2>1. sub.op # "create"
      BY <1>1, RunNames DEF Ready
    <2>2. sub.file = Note
      BY <1>1, <2>1 DEF Ready, Durable, Holds
    <2>3. Temp(cur) # Note /\ Roll(cur) # Note
      BY CurNames DEF Ready, TypeOK
    <2> QED
      BY <1>1, <2>1, <2>2, <2>3, RunNames DEF Ready
  <1>3. cur \in Tx /\ J' = J /\ cur' = cur /\ pc' = pc /\ (Saving' <=> Saving) /\ disk \in [Slot -> Content]
    BY <1>1, RunKeeps DEF RoutineFrame, Ready, TypeOK
  <1>4. /\ sub'.file = Note /\ sub'.step \in {"putfill", "settle-failed"} /\ sub'.bytes = sub.bytes
        /\ sub'.rev = sub.rev /\ sub'.op = sub.op
        /\ disk'[Note] = IF sub'.step = "putfill" THEN Torn
                         ELSE IF sub.step = "putfill" /\ disk[Note] = Torn THEN sub.bytes ELSE disk[Note]
        /\ sub'.step = "putfill" => sub.step = "putback" /\ disk[Note] = Absent
        /\ sub'.step = "settle-failed" => sub.step = "putfill" \/ disk[Note] # Absent
        /\ \A s \in Slot : s # Note => disk'[s] = disk[s]
    BY <1>1, <1>2, <1>3, SlotNames DEF Ready, TypeOK, Sub, Exists
  <1>5. /\ disk'[Copy] = disk[Copy] /\ disk'[Claim] = disk[Claim] /\ disk'[Side(cur)] = disk[Side(cur)]
        /\ disk'[Temp(cur)] = disk[Temp(cur)] /\ disk'[Roll(cur)] = disk[Roll(cur)] /\ OthersKept
    <2>1. OthersKept
      BY <1>3, <1>4, Others DEF Reach
    <2> QED
      BY <1>3, <1>4, <2>1, CurNames DEF Reach, OwnNames
  <1>6. VisibleCopies' = VisibleCopies /\ FilesKept
    BY <1>1, <1>3, <1>5, CopiesKept, OwnFilesKept
  <1>7. /\ Saving /\ J.before # Absent /\ J.phase # "none" /\ sub.step \in {"putback", "putfill"}
        /\ disk[Claim] \in held /\ disk[Claim] \in Version /\ sub.bytes = disk[Claim]
    BY <1>1, <1>2, RoutineFacts, CurFacts DEF Ready, Faithful, Stages, Standing, Saving, J, Durable, Works, Moves, InClaim
  <1>8. Moves'
    <2>1. held \subseteq held'
      BY HeldGrows DEF Ready
    <2> QED
      BY <1>2, <1>3, <1>4, <1>5, <1>7, <2>1 DEF Moves, Ready, Faithful, InClaim, Roll
  <1>9. Reaches'
    <2>1. Temp(cur) # Note
      BY <1>3, CurNames
    <2> QED
      BY <1>2, <1>3, <1>4, <2>1 DEF Reaches, Temp
  <1>10. Stores' /\ Stages' /\ SavesKept /\ Spends(0, 0)
    BY <1>1, <1>6, RunStores, RunKeeps
  <1>11. LogicalNote = NoteSeen
    BY NoteIs DEF Ready, Faithful
  <1>12. CASE sub'.step = "settle-failed" /\ ~(sub.step = "putfill" /\ disk[Note] = Torn)
    <2>1. disk'[Note] = disk[Note]
      BY <1>4, <1>12
    <2>2. disk[Note] # Torn
      BY <1>2, <1>7, <1>12 DEF Ready, Faithful, Sights, Filling, Running
    <2>3. disk[Note] \in Version \/ (~Away /\ ~Away')
      <3>1. CASE sub.step = "putfill"
        BY <1>2, <1>3, <1>4, <1>12, <2>2, <3>1 DEF Away, AwayStep
      <3>2. CASE sub.step # "putfill"
        BY <1>3, <1>4, <1>12, <2>2, <3>2, SlotNames DEF Content
      <3> QED
        BY <3>1, <3>2
    <2> QED
      BY <1>1, <1>6, <1>8, <1>9, <2>1, <2>2, <2>3, RunImplemented
  <1>13. CASE sub'.step = "putfill"
    <2>1. disk[Note] = Absent /\ disk'[Note] = Torn /\ sub.step = "putback"
      BY <1>4, <1>13
    <2>2. Away /\ Away' /\ AsideFile' = AsideFile /\ AwayStep' /\ Filling'
      BY <1>2, <1>3, <1>4, <1>5, <1>7, <1>13, <2>1 DEF Away, AwayStep, AsideFile, InClaim, Filling, Running
    <2>3. Sights'
      BY <2>2 DEF Sights
    <2>4. LogicalNote' = LogicalNote
      BY <1>1, <1>10, <2>1, <2>2, <2>3, Marks, NoteAside DEF RoutineFrame
    <2>5. Mapped
      BY <1>6, <1>10, <2>4, MapNothing DEF NoteKept, Ready, Faithful
    <2> QED
      BY <1>8, <1>9, <1>10, <2>3, <2>5, HeldGrows DEF Implemented, Mapped, Faithful, Ready
  <1>14. CASE sub.step = "putfill" /\ disk[Note] = Torn
    <2>1. sub'.step = "settle-failed" /\ disk'[Note] = disk[Claim]
      BY <1>4, <1>7, <1>14
    <2>2. Sights'
      BY <1>7, <2>1, Marks DEF Sights, Seen
    <2>3. LogicalNote' = disk[Claim]
      <3>1. LogicalNote' = NoteSeen'
        BY <1>10, <2>2, NoteIsNext DEF Ready
      <3> QED
        BY <1>7, <2>1, <3>1, Marks DEF NoteSeen
    <2>4. Away /\ AsideFile = disk[Claim]
      BY <1>2, <1>7, <1>14 DEF Away, AwayStep, AsideFile, InClaim
    <2>5. LogicalNote \in {Absent, disk[Claim]}
      BY <1>11, <1>14, <2>4, Marks DEF NoteSeen
    <2>6. Mapped
      <3>1. CASE LogicalNote = disk[Claim]
        BY <1>6, <1>10, <2>3, <3>1, MapNothing DEF NoteKept, Ready, Faithful
      <3>2. CASE LogicalNote = Absent
        BY <1>3, <1>6, <1>7, <1>10, <2>3, <3>2, MapRestore DEF Ready
      <3> QED
        BY <2>5, <3>1, <3>2
    <2> QED
      BY <1>8, <1>9, <1>10, <2>2, <2>6, HeldGrows DEF Implemented, Mapped, Faithful, Ready
  <1> QED
    BY <1>4, <1>12, <1>13, <1>14

\* The claim is removed, or left where it is.
LEMMA SettleImplemented ==
  ASSUME Ready, SettleClaim
  PROVE  Implemented
  <1>1. /\ RoutineFrame /\ copies' = copies /\ sub.step \in {"settle", "settle-failed"}
        /\ sub' = NoSub /\ sub'.step = "none" /\ disk' = [disk EXCEPT ![Claim] = Absent]
        /\ ok' = (sub.step = "settle" /\ disk[Claim] = sub.rev)
    BY DEF SettleClaim, RoutineFrame, ghost, Running, Return, NoSub
  <1>2. cur \in Tx /\ J' = J /\ cur' = cur /\ pc' = pc /\ (Saving' <=> Saving) /\ disk \in [Slot -> Content]
    BY <1>1, RunKeeps DEF RoutineFrame, Ready, TypeOK
  <1>3. /\ disk'[Copy] = disk[Copy] /\ disk'[Note] = disk[Note] /\ disk'[Side(cur)] = disk[Side(cur)]
        /\ disk'[Temp(cur)] = disk[Temp(cur)] /\ disk'[Roll(cur)] = disk[Roll(cur)] /\ OthersKept
    <2>1. \A s \in Slot : s # Claim => disk'[s] = disk[s]
      BY <1>1, <1>2
    <2>2. OthersKept
      BY <1>2, <2>1, Others DEF Reach
    <2> QED
      BY <1>2, <2>1, <2>2, CurNames DEF Reach, OwnNames
  <1>4. VisibleCopies' = VisibleCopies /\ FilesKept
    BY <1>1, <1>2, <1>3, CopiesKept, OwnFilesKept
  <1>5. ~Filling /\ ~Filling'
    BY <1>1 DEF Filling, Running
  <1>6. pc # "verify" /\ pc # "aside-made"
    BY <1>1, RoutineFacts DEF Ready
  <1>7. disk[Note] \in Version \/ (~Away /\ ~Away') \/ (Away /\ Away' /\ AsideFile' = AsideFile)
    <2>1. CASE pc = "moved"
      <3>1. J.before # Absent /\ Saving /\ sub.rev = disk[Roll(cur)]
        BY <1>1, <2>1, RoutineFacts DEF Ready, Faithful, Stages, Standing, Saving, Durable, Works
      <3>2. CASE sub.step = "settle"
        <4>1. disk[Claim] = sub.rev /\ ok'
          BY <1>1, <3>2 DEF Ready, Durable, Holds, Faithful, Stores
        <4> QED
          BY <1>1, <1>2, <1>3, <2>1, <3>1, <3>2, <4>1 DEF Away, AwayStep, AsideFile, InClaim
      <3>3. CASE sub.step = "settle-failed"
        BY <1>1, <1>2, <2>1, <3>3 DEF Away, AwayStep
      <3> QED
        BY <1>1, <3>2, <3>3
    <2>2. CASE pc # "moved"
      BY <1>1, <1>2, <1>6, <2>2 DEF Away, AwayStep
    <2> QED
      BY <2>1, <2>2
  <1>8. Moves'
    BY <1>1, <1>2, <1>3, <1>6 DEF Moves, Ready, Faithful, InClaim, Roll
  <1>9. Reaches'
    <2>1. Reached(cur) => Reached(cur)'
      BY <1>1, <1>4, RunReached
    <2>2. pc = "rec-installed" /\ sub.step = "settle" => Reached(cur)
      <3> SUFFICES ASSUME pc = "rec-installed", sub.step = "settle"
                   PROVE  Reached(cur)
        OBVIOUS
      <3>1. sub.file = Temp(cur)
        BY RoutineFacts DEF Ready
      <3> QED
        BY <3>1 DEF Ready, Faithful, Reaches, Moves, Removal
    <2>3. pc \in {"rec-keep-temp", "rec-temp", "rec-temp-removed"} => Reached(cur)
      BY DEF Ready, Faithful, Reaches
    <2> QED
      BY <1>1, <1>2, <2>1, <2>2, <2>3 DEF Reaches, Removal
  <1> QED
    BY <1>1, <1>3, <1>4, <1>5, <1>7, <1>8, <1>9, RunImplemented

\* A file is created under a free name.
LEMMA CreateImplemented ==
  ASSUME Ready, CreateFile
  PROVE  Implemented
  <1>1. /\ RoutineFrame /\ copies' = copies /\ sub.step = "create"
        /\ \/ /\ ~Exists(sub.to) /\ disk' = [disk EXCEPT ![sub.to] = Torn]
              /\ sub' = [sub EXCEPT !.step = "fill"] /\ ok' = ok
           \/ Exists(sub.to) /\ disk' = disk /\ sub' = NoSub /\ ok' = FALSE
    BY DEF CreateFile, RoutineFrame, ghost, Running, Return, NameFree
  <1>2. \/ /\ ~Exists(sub.to) /\ disk' = [disk EXCEPT ![sub.to] = Torn]
           /\ sub'.op = sub.op /\ sub'.file = sub.file /\ sub'.to = sub.to /\ sub'.rev = sub.rev
           /\ sub'.step = "fill" /\ ok' = ok
        \/ Exists(sub.to) /\ disk' = disk /\ sub'.step = "none" /\ ok' = FALSE
    BY <1>1 DEF Ready, TypeOK, Sub, NoSub
  <1>3. cur \in Tx /\ J' = J /\ cur' = cur /\ pc' = pc /\ (Saving' <=> Saving) /\ disk \in [Slot -> Content]
    BY <1>1, RunKeeps DEF RoutineFrame, Ready, TypeOK
  <1>4. /\ sub.op \in {"create", "install"} /\ pc \notin {"verify", "moved"} /\ sub.to \in Reach(cur) \ {Claim}
        /\ sub.op = "create" => sub.to \in {Temp(cur), Roll(cur), Before(cur)}
                                /\ pc \in {"staged", "backed-up", "aside-made"}
        /\ sub.op = "install" => sub.to \in {Note, Copy, Side(cur)} /\ (sub.to # J.dest => sub.to = Copy)
                                 /\ pc \in {"install-done", "rec-installed", "promoted", "restored", "rethrow",
                                            "rec-restored"}
        /\ sub.to = Temp(cur) => pc = "staged"
    <2>1. sub.op # "remove" /\ pc \notin {"verify", "moved"}
      BY <1>1, RoutineFacts DEF Ready, Removal
    <2>2. sub.to \in Reach(cur) /\ sub.to # Claim
      BY <1>1, <1>3, <2>1, RunNames, CurNames DEF Ready
    <2>3. Temp(cur) # Roll(cur) /\ Temp(cur) # Before(cur)
      BY <1>3, CurNames
    <2>4. /\ sub.op = "create" => /\ sub.to \in {Temp(cur), Roll(cur), Before(cur)}
                                  /\ pc \in {"staged", "backed-up", "aside-made"}
                                  /\ sub.to = Temp(cur) => pc = "staged"
          /\ sub.op = "install" => /\ pc \in {"install-done", "rec-installed", "promoted", "restored", "rethrow",
                                              "rec-restored"}
                                   /\ sub.to # J.dest => sub.to = Copy
      BY <1>1, <2>1, <2>3, RoutineFacts DEF Ready, Removal
    <2>5. sub.op = "install" => sub.to \in {Note, Copy, Side(cur)}
      BY <1>1, RunNames DEF Ready
    <2>6. sub.op = "install" => sub.to # Temp(cur)
      BY <1>3, <2>5, CurNames
    <2> QED
      BY <1>1, <2>1, <2>2, <2>4, <2>5, <2>6, RunNames DEF Ready
  <1>5. /\ OthersKept
        /\ \A s \in {Temp(cur), Roll(cur), Side(cur), Copy, Note} :
             disk'[s] = disk[s] \/ (s = sub.to /\ disk[s] = Absent /\ disk'[s] = Torn /\ sub'.step = "fill")
        /\ disk'[Claim] = disk[Claim]
    <2>1. CASE disk' = disk
      BY <2>1 DEF OthersKept
    <2>2. CASE ~Exists(sub.to) /\ disk' = [disk EXCEPT ![sub.to] = Torn]
      <3>1. Reach(cur) \subseteq Slot
        BY <1>3, CurNames
      <3>2. /\ \A s \in Slot : s # sub.to => disk'[s] = disk[s]
            /\ disk'[sub.to] = Torn /\ disk[sub.to] = Absent
        BY <1>3, <1>4, <2>2, <3>1 DEF Exists
      <3>3. OthersKept
        BY <1>3, <1>4, <3>2, Others
      <3>4. sub'.step = "fill"
        BY <1>2, <2>2
      <3> QED
        BY <1>4, <3>1, <3>2, <3>3, <3>4 DEF Reach, OwnNames
    <2> QED
      BY <1>2, <2>1, <2>2
  <1>6. VisibleCopies' = VisibleCopies
    BY <1>1, <1>3, <1>5, CopiesKept, Marks
  <1>7. FilesKept
    <2>1. pc = "staged" => ~Accepted(cur)
      BY DEF Ready, Faithful, Stages, Accepted, J
    <2> QED
      BY <1>3, <1>4, <1>5, <2>1, OwnFilesKept
  <1>8. Moves'
    <2>1. pc \in {"moved", "verify", "install-done", "restored", "rethrow"} => disk'[Roll(cur)] = disk[Roll(cur)]
      <3>1. Roll(cur) \notin {Note, Copy, Side(cur)}
        BY <1>3, CurNames
      <3> QED
        BY <1>3, <1>4, <1>5, <3>1
    <2>2. sub'.step = "none" => pc # "aside-made"
      <3>1. sub.op = "create" => ~Exists(sub.to)
        BY <1>1 DEF Ready, Durable, Holds
      <3> QED
        BY <1>2, <1>4, <3>1
    <2>3. held \subseteq held'
      BY HeldGrows DEF Ready
    <2> QED
      BY <1>1, <1>2, <1>3, <1>4, <2>1, <2>2, <2>3 DEF Moves, Ready, Faithful, InClaim, Roll
  <1>9. Reaches'
    <2>1. Reached(cur) => Reached(cur)'
      BY <1>1, <1>6, RunReached
    <2>2. pc \in {"rec-keep-temp", "rec-temp", "rec-temp-removed"} => Reached(cur)
      BY DEF Ready, Faithful, Reaches
    <2>3. sub'.step \notin Removal /\ (sub'.step = "none" => ~ok')
      BY <1>2 DEF Removal
    <2> QED
      BY <1>3, <2>1, <2>2, <2>3 DEF Reaches
  <1>10. ~Filling
    BY <1>1 DEF Filling, Running
  <1>11. CASE disk'[Note] = disk[Note] /\ (sub'.step = "fill" => sub.to # Note)
    <2>1. ~Filling'
      BY <1>2, <1>11 DEF Filling, Running
    <2>2. disk[Note] \in Version \/ (~Away /\ ~Away')
      <3> SUFFICES ASSUME disk[Note] \notin Version PROVE ~Away /\ ~Away'
        OBVIOUS
      <3>1. ASSUME Saving, J.before # Absent, pc \in {"install-done", "restored", "rethrow"}
            PROVE  FALSE
        <4>1. J.dest = Note /\ sub.to = Note
          <5>1. Busy /\ sub.op = "install" /\ sub.to = J.dest
            BY <1>1, <3>1, RoutineFacts DEF Ready, Removal
          <5> QED
            BY <3>1, <5>1, CurFacts DEF Ready
        <4>2. Exists(Note)
          BY <1>2, <1>11, <4>1
        <4>3. disk[Note] # Torn
          BY <1>10, <3>1 DEF Ready, Faithful, Sights
        <4> QED
          BY <1>3, <4>2, <4>3, SlotNames DEF Exists, Content
      <3> QED
        BY <1>3, <1>4, <3>1 DEF Away, AwayStep
    <2> QED
      BY <1>1, <1>6, <1>7, <1>8, <1>9, <1>10, <1>11, <2>1, <2>2, RunImplemented
  <1>12. CASE ~(disk'[Note] = disk[Note] /\ (sub'.step = "fill" => sub.to # Note))
    <2>1. sub.to = Note /\ disk[Note] = Absent /\ disk'[Note] = Torn /\ sub'.step = "fill" /\ sub'.to = Note
      <3>1. sub'.step = "fill" => disk'[sub.to] = Torn /\ disk[sub.to] = Absent
        <4>1. sub.to \in Slot
          BY <1>1, RoutineFacts DEF Ready
        <4> QED
          BY <1>2, <1>3, <4>1 DEF Exists
      <3> QED
        BY <1>2, <1>5, <1>12, <3>1
    <2>2. Filling'
      BY <2>1 DEF Filling, Running
    <2>3. sub.op = "install" /\ sub.to = J.dest
      <3>1. Note \notin {Temp(cur), Roll(cur), Before(cur), Copy}
        BY <1>3, CurNames
      <3> QED
        BY <1>4, <2>1, <3>1
    <2>4. Away <=> Away'
      BY <1>1, <1>3, <1>4, <2>1, <2>3 DEF Away, AwayStep
    <2>5. Stores' /\ Stages' /\ SavesKept /\ Spends(0, 0)
      BY <1>1, <1>6, <1>7, RunStores, RunKeeps
    <2>6. Sights'
      <3> SUFFICES ASSUME Saving, J.before # Absent PROVE AwayStep'
        BY <1>3, <2>2 DEF Sights
      <3>1. pc \notin {"rec-installed", "rec-restored", "promoted"}
        <4>1. pc \notin {"rec-installed", "rec-restored"}
          BY DEF Ready, Faithful, Stages, Saving, InRecovery
        <4>2. pc # "promoted"
          <5>1. Note # Copy
            BY <1>3, CurNames
          <5> QED
            BY <1>1, <2>1, <2>3, <5>1, RoutineFacts DEF Ready, Removal
        <4> QED
          BY <4>1, <4>2
      <3>2. pc \in {"install-done", "restored", "rethrow"}
        BY <1>4, <2>3, <3>1
      <3> QED
        BY <1>3, <2>1, <3>2 DEF AwayStep
    <2>7. LogicalNote' = LogicalNote
      <3>1. CASE Away
        <4>1. AsideFile' = AsideFile
          <5>1. Roll(cur) \notin {Note, Copy, Side(cur)}
            BY <1>3, CurNames
          <5> QED
            BY <1>3, <1>4, <1>5, <2>1, <5>1 DEF AsideFile
        <4> QED
          BY <1>1, <2>1, <2>4, <2>5, <2>6, <3>1, <4>1, Marks, NoteAside DEF RoutineFrame
      <3>2. CASE ~Away
        <4>1. LogicalNote = Absent
          BY <1>10, <2>1, <3>2, NoteIs DEF Ready, Faithful, NoteSeen
        <4>2. LogicalNote' = NoteSeen'
          BY <2>5, <2>6, NoteIsNext DEF Ready
        <4> QED
          BY <2>1, <2>2, <2>4, <3>2, <4>1, <4>2 DEF NoteSeen
      <3> QED
        BY <3>1, <3>2
    <2>8. Mapped
      BY <1>6, <2>5, <2>7, MapNothing DEF NoteKept, Ready, Faithful
    <2> QED
      BY <1>8, <1>9, <2>5, <2>6, <2>8, HeldGrows DEF Implemented, Mapped, Faithful, Ready
  <1> QED
    BY <1>11, <1>12

\* What a file is filled with.
LEMMA Filled ==
  ASSUME TypeOK, Durable, Stores, Moves, sub.step = "fill"
  PROVE  /\ pc = "staged" => sub.rev = J.next
         /\ pc \in {"install-done", "rec-installed"} => sub.rev = J.next
         /\ pc = "promoted" => sub.rev \in {J.next, Torn}
         /\ pc = "aside-made" => sub.rev \in held
         /\ sub.op = "install" /\ pc \in {"restored", "rethrow", "rec-restored"} =>
              sub.rev = disk[Roll(cur)] /\ sub.rev \in held \cup {Torn} /\ J.dest = Note /\ J.before # Absent
         /\ J.phase # "none" /\ J.next \in Version
  <1>1. cur \in Tx /\ J.phase # "none" /\ J.next \in Version
    BY RoutineFacts, CurFacts
  <1>2. pc = "staged" => sub.rev = J.next
    BY RoutineFacts DEF Removal
  <1>3. sub.op = "install" => sub.file # Note /\ disk[sub.file] = sub.rev /\ sub.rev # Absent
    <2>1. sub.op = "install" => sub.file # Note
      <3>1. Temp(cur) # Note /\ Roll(cur) # Note
        BY <1>1, CurNames
      <3> QED
        BY <3>1, RoutineFacts
    <2> QED
      BY <2>1 DEF Durable, Holds, Unclaimed
  <1>4. pc = "promoted" => sub.rev \in {J.next, Torn}
    <2> SUFFICES ASSUME pc = "promoted" PROVE sub.rev \in {J.next, Torn}
      OBVIOUS
    <2>1. sub.op = "install" /\ sub.file = Temp(cur)
      BY RoutineFacts DEF Removal
    <2>2. disk[Temp(cur)] \in {J.next, Torn, Absent}
      BY <1>1 DEF Stores, J
    <2> QED
      BY <1>3, <2>1, <2>2
  <1>5. ASSUME sub.op = "install", pc \in {"restored", "rethrow", "rec-restored"}
        PROVE  sub.rev = disk[Roll(cur)] /\ sub.rev \in held \cup {Torn} /\ J.dest = Note /\ J.before # Absent
    <2>1. sub.file = Roll(cur)
      BY <1>5, RoutineFacts
    <2>2. disk[Roll(cur)] \in held \cup {Torn, Absent}
      BY <1>1 DEF Stores
    <2>3. Exists(Roll(cur))
      BY <1>3, <1>5, <2>1 DEF Exists
    <2>4. Busy
      BY RoutineFacts
    <2> QED
      BY <1>3, <1>5, <2>1, <2>2, <2>3, <2>4, CurFacts
  <1> QED
    BY <1>1, <1>2, <1>4, <1>5 DEF Moves

\* A created file gets its bytes, if it still has its name.
LEMMA FillImplemented ==
  ASSUME Ready, FillFile
  PROVE  Implemented
  <1>1. /\ RoutineFrame /\ copies' = copies /\ sub.step = "fill"
        /\ disk' = [disk EXCEPT ![sub.to] = IF @ = Torn THEN sub.rev ELSE @]
        /\ \/ sub.op = "create" /\ sub' = NoSub /\ ok' = TRUE
           \/ sub.op # "create" /\ sub' = [sub EXCEPT !.step = "check"] /\ ok' = ok
    BY DEF FillFile, RoutineFrame, ghost, Running, Return
  <1>2. \/ sub.op = "create" /\ sub'.step = "none" /\ ok' = TRUE
        \/ /\ sub.op # "create" /\ sub'.step = "check" /\ ok' = ok
           /\ sub'.op = sub.op /\ sub'.file = sub.file /\ sub'.to = sub.to /\ sub'.rev = sub.rev
    BY <1>1 DEF Ready, TypeOK, Sub, NoSub
  <1>3. cur \in Tx /\ J' = J /\ cur' = cur /\ pc' = pc /\ (Saving' <=> Saving) /\ disk \in [Slot -> Content]
    BY <1>1, RunKeeps DEF RoutineFrame, Ready, TypeOK
  <1>4. /\ sub.op \in {"create", "install"} /\ pc \notin {"verify", "moved"} /\ sub.to \in Reach(cur) \ {Claim}
        /\ sub.op = "create" => /\ sub.to \in {Temp(cur), Roll(cur), Before(cur)}
                                /\ pc \in {"staged", "backed-up", "aside-made"}
                                /\ sub.to = Temp(cur) => pc = "staged"
                                /\ sub.to = Roll(cur) <=> pc = "aside-made"
        /\ sub.op = "install" => /\ sub.to \in {Note, Copy, Side(cur)}
                                 /\ \/ pc = "promoted" /\ sub.to = Copy
                                    \/ sub.to = J.dest /\ pc \in {"install-done", "rec-installed", "restored",
                                                                  "rethrow", "rec-restored"}
    <2>1. sub.op # "remove" /\ pc \notin {"verify", "moved"}
      BY <1>1, RoutineFacts DEF Ready, Removal
    <2>2. sub.to \in Reach(cur) /\ sub.to # Claim
      BY <1>1, <1>3, <2>1, RunNames, CurNames DEF Ready
    <2>3. Temp(cur) # Roll(cur) /\ Temp(cur) # Before(cur) /\ Roll(cur) # Before(cur)
      BY <1>3, CurNames
    <2>4. /\ sub.op = "create" => /\ sub.to \in {Temp(cur), Roll(cur), Before(cur)}
                                  /\ pc \in {"staged", "backed-up", "aside-made"}
                                  /\ sub.to = Temp(cur) => pc = "staged"
                                  /\ sub.to = Roll(cur) <=> pc = "aside-made"
          /\ sub.op = "install" => \/ pc = "promoted" /\ sub.to = Copy
                                   \/ sub.to = J.dest /\ pc \in {"install-done", "rec-installed", "restored",
                                                                 "rethrow", "rec-restored"}
      BY <1>1, <2>1, <2>3, RoutineFacts DEF Ready, Removal
    <2>5. sub.op = "install" => sub.to \in {Note, Copy, Side(cur)}
      BY <1>1, RunNames DEF Ready
    <2> QED
      BY <1>1, <2>1, <2>2, <2>4, <2>5, RunNames DEF Ready
  <1>5. /\ OthersKept /\ disk'[Claim] = disk[Claim]
        /\ \A s \in Reach(cur) : disk'[s] = IF s = sub.to /\ disk[s] = Torn THEN sub.rev ELSE disk[s]
    <2>1. Reach(cur) \subseteq Slot
      BY <1>3, CurNames
    <2>2. \A s \in Slot : disk'[s] = IF s = sub.to /\ disk[s] = Torn THEN sub.rev ELSE disk[s]
      BY <1>1, <1>3, <1>4, <2>1
    <2>3. OthersKept
      BY <1>3, <1>4, <2>2, Others
    <2> QED
      BY <1>4, <2>1, <2>2, <2>3, SlotNames
  <1>6. {Temp(cur), Roll(cur), Side(cur), Copy, Note} \subseteq Reach(cur)
    BY DEF Reach, OwnNames
  <1>7. FilesKept
    <2>1. disk'[Temp(cur)] \in {disk[Temp(cur)], J.next}
      <3>1. sub.to = Temp(cur) => sub.rev = J.next
        <4>1. Temp(cur) \notin {Note, Copy, Side(cur)}
          BY <1>3, CurNames
        <4> QED
          BY <1>1, <1>4, <4>1, Filled DEF Ready, Faithful
      <3> QED
        BY <1>5, <1>6, <3>1
    <2>2. disk'[Roll(cur)] = disk[Roll(cur)] \/ disk'[Roll(cur)] \in held \cup {Torn, Absent}
      <3>1. sub.to = Roll(cur) => sub.rev \in held
        <4>1. Roll(cur) \notin {Note, Copy, Side(cur)}
          BY <1>3, CurNames
        <4> QED
          BY <1>1, <1>4, <4>1, Filled DEF Ready, Faithful
      <3> QED
        BY <1>5, <1>6, <3>1
    <2> QED
      BY <1>3, <1>5, <2>1, <2>2, OwnFilesKept
  <1>8. Moves'
    <2>1. pc \in {"moved", "verify", "install-done", "restored", "rethrow"} => disk'[Roll(cur)] = disk[Roll(cur)]
      <3>1. Roll(cur) \notin {Note, Copy, Side(cur)}
        BY <1>3, CurNames
      <3> QED
        BY <1>3, <1>4, <1>5, <1>6, <3>1
    <2>2. pc = "aside-made" /\ sub'.step = "none" => disk'[Roll(cur)] # Torn
      <3> SUFFICES ASSUME pc = "aside-made" PROVE disk'[Roll(cur)] # Torn
        OBVIOUS
      <3>1. sub.to = Roll(cur)
        BY <1>4
      <3>2. sub.rev \in Version
        BY <1>1, Filled DEF Ready, Faithful, Stores
      <3> QED
        BY <1>5, <1>6, <3>1, <3>2, Marks
    <2>3. pc = "aside-made" => sub'.step = "none"
      BY <1>2, <1>4
    <2> QED
      BY <1>1, <1>2, <1>3, <1>4, <2>1, <2>2, <2>3 DEF Moves, Ready, Faithful, InClaim, Roll
  <1>9. Reaches' \/ ~(VisibleCopies \subseteq VisibleCopies')
    <2> SUFFICES ASSUME VisibleCopies \subseteq VisibleCopies' PROVE Reaches'
      OBVIOUS
    <2>1. Reached(cur) => Reached(cur)'
      BY <1>1, RunReached
    <2>2. pc \in {"rec-keep-temp", "rec-temp", "rec-temp-removed"} => Reached(cur)
      BY DEF Ready, Faithful, Reaches
    <2>3. sub'.step \notin Removal /\ (pc = "rec-installed" => sub'.step # "none")
      BY <1>2, <1>4 DEF Removal
    <2> QED
      BY <1>3, <2>1, <2>2, <2>3 DEF Reaches
  <1>10. ~Filling'
    BY <1>2 DEF Filling, Running
  <1>11. CASE sub.to # Note \/ disk[Note] # Torn
    <2>1. disk'[Note] = disk[Note]
      BY <1>5, <1>6, <1>11
    <2>2. disk[Note] = Torn => ~Filling
      BY <1>1, <1>11 DEF Filling, Running
    <2>3. Spends(0, 0) /\ SavesKept /\ Stages'
      BY <1>1, RunKeeps
    <2>4. Saving /\ J.before # Absent /\ AwayStep => disk[Note] = Torn /\ sub.to = Note
      <3> SUFFICES ASSUME Saving, J.before # Absent, AwayStep PROVE disk[Note] = Torn /\ sub.to = Note
        OBVIOUS
      <3>1. Away
        BY DEF Away
      <3> QED
        BY <1>1, <3>1, AwayRuns DEF Ready, Away, AwayStep
    <2>5. ~Away
      BY <1>11, <2>4 DEF Away
    <2>6. ~Away'
      BY <1>2, <1>3, <1>4 DEF Away, AwayStep
    <2>7. CASE VisibleCopies' = VisibleCopies
      BY <1>1, <1>7, <1>8, <1>9, <1>10, <2>1, <2>2, <2>5, <2>6, <2>7, RunImplemented
    <2>8. CASE VisibleCopies' # VisibleCopies
      <3>1. /\ sub.op = "install" /\ sub.to \in {Copy, Side(cur)} /\ disk[sub.to] = Torn /\ sub.rev = J.next
        <4>1. \E s \in {Copy, Side(cur)} : s = sub.to /\ disk[s] = Torn /\ sub.rev \in Version
          <5> SUFFICES ASSUME \A s \in {Copy, Side(cur)} :
                                disk'[s] = disk[s] \/ {disk'[s], disk[s]} \cap Version = {}
                       PROVE  FALSE
            BY <1>5, <1>6, Marks
          <5> QED
            BY <1>1, <1>3, <1>5, <2>8, CopiesKept
        <4>2. sub.op = "install"
          <5>1. Copy \notin {Temp(cur), Roll(cur), Before(cur)} /\ Side(cur) \notin {Temp(cur), Roll(cur), Before(cur)}
            BY <1>3, CurNames
          <5> QED
            BY <1>4, <4>1, <5>1
        <4>3. J.dest # Copy /\ (J.dest = Note => J.dest # Side(cur))
          BY <1>1, <1>3, RoutineFacts, CurFacts, CurNames DEF Ready
        <4>4. pc \in {"promoted", "install-done", "rec-installed"}
          <5>1. pc \in {"restored", "rethrow", "rec-restored"} => J.dest = Note
            BY <1>1, <4>2, Filled DEF Ready, Faithful
          <5>2. Note # Copy /\ Note # Side(cur)
            BY <1>3, CurNames
          <5> QED
            BY <1>4, <4>1, <4>2, <4>3, <5>1, <5>2
        <4>5. sub.rev \in {J.next, Torn}
          BY <1>1, <4>4, Filled DEF Ready, Faithful
        <4> QED
          BY <4>1, <4>2, <4>5, Marks
      <3>2. VisibleCopies' = VisibleCopies \cup {J.next}
        <4>1. J.next \in Version /\ J.dest \in {Note, Side(cur)}
          BY <1>1, RoutineFacts, CurFacts DEF Ready
        <4>2. \A t \in Tx : disk'[Side(t)] = IF Side(t) = sub.to THEN J.next ELSE disk[Side(t)]
          <5>1. \A t \in Tx : t # cur => Side(t) # sub.to /\ disk'[Side(t)] = disk[Side(t)]
            <6>1. \A t \in Tx : t # cur => Side(t) # Side(cur) /\ Side(t) # Copy
              BY <1>3, NamesApart
            <6> QED
              BY <1>5, <3>1, <6>1 DEF OthersKept
          <5>2. disk'[Side(cur)] = IF Side(cur) = sub.to THEN J.next ELSE disk[Side(cur)]
            BY <1>5, <1>6, <3>1
          <5> QED
            BY <5>1, <5>2
        <4>3. disk'[Copy] = IF Copy = sub.to THEN J.next ELSE disk[Copy]
          BY <1>5, <1>6, <3>1
        <4>4. sub.to = Copy \/ \E t \in Tx : sub.to = Side(t)
          BY <1>3, <3>1
        <4>5. disk[sub.to] \notin Version
          BY <3>1, Marks
        <4>6. {disk'[Side(t)] : t \in Tx} \cup {disk'[Copy]} \cup {Torn} = {disk[Side(t)] : t \in Tx} \cup {disk[Copy]} \cup {J.next, Torn}
          BY <3>1, <4>2, <4>3, <4>4
        <4> QED
          BY <1>1, <4>1, <4>6, Marks DEF VisibleCopies
      <3>3. VisibleCopies \subseteq VisibleCopies' /\ J.phase # "none"
        BY <1>1, <3>2, RoutineFacts, CurFacts DEF Ready
      <3>4. Stores'
        BY <1>1, <1>7, <3>3, RunStores
      <3>5. Sights'
        <4>1. CASE Saving /\ J.before # Absent
          BY <1>1, <2>1, <2>2, <2>5, <4>1, RunSights DEF Away
        <4>2. CASE ~(Saving /\ J.before # Absent)
          BY <1>3, <4>2 DEF Sights
        <4> QED
          BY <4>1, <4>2
      <3>6. LogicalNote' = LogicalNote
        <4>1. ~Filling
          <5>1. Copy # Note /\ Side(cur) # Note
            BY <1>3, CurNames
          <5> QED
            BY <1>1, <3>1, <5>1 DEF Filling, Running
        <4> QED
          BY <1>10, <2>1, <2>3, <2>5, <2>6, <3>4, <3>5, <4>1, NoteStill
      <3>7. Mapped
        BY <1>3, <2>3, <3>2, <3>3, <3>6, MapCopy DEF Ready, Faithful
      <3> QED
        BY <1>8, <1>9, <2>3, <3>3, <3>4, <3>5, <3>7, HeldGrows DEF Implemented, Mapped, Faithful, Ready
    <2> QED
      BY <2>7, <2>8
  <1>12. CASE sub.to = Note /\ disk[Note] = Torn
    <2>1. disk'[Note] = sub.rev /\ disk'[Roll(cur)] = disk[Roll(cur)] /\ Filling
      <3>1. Roll(cur) # Note
        BY <1>3, CurNames
      <3> QED
        BY <1>1, <1>5, <1>6, <1>12, <3>1 DEF Filling, Running
    <2>2. /\ sub.op = "install" /\ J.dest = Note
          /\ pc \in {"install-done", "rec-installed", "restored", "rethrow", "rec-restored"}
      <3>1. Note \notin {Temp(cur), Roll(cur), Before(cur), Copy}
        BY <1>3, CurNames
      <3> QED
        BY <1>4, <1>12, <3>1
    <2>3. VisibleCopies' = VisibleCopies
      <3>1. disk'[Copy] = disk[Copy] /\ disk'[Side(cur)] = disk[Side(cur)]
        <4>1. Copy # Note /\ Side(cur) # Note
          BY <1>3, CurNames
        <4> QED
          BY <1>5, <1>6, <1>12, <4>1
      <3> QED
        BY <1>1, <1>3, <1>5, <3>1, CopiesKept
    <2>4. Stores' /\ Stages' /\ SavesKept /\ Spends(0, 0)
      BY <1>1, <1>7, <2>3, RunStores, RunKeeps
    <2>5. J.phase # "none" /\ J.next \in Version /\ sub.rev # Absent
      BY <1>1, <2>2, Filled DEF Ready, Faithful, Durable, Holds, Unclaimed
    <2>6. Saving => pc \in {"install-done", "restored", "rethrow"} /\ sub.rev \in Version
      <3>1. Saving => pc \in {"install-done", "restored", "rethrow"}
        BY <2>2 DEF Ready, Faithful, Stages, Saving, InRecovery
      <3>2. pc = "install-done" => sub.rev \in Version
        BY <1>1, Filled DEF Ready, Faithful
      <3>3. pc \in {"restored", "rethrow"} => sub.rev \in Version
        <4>1. pc \in {"restored", "rethrow"} => disk[Roll(cur)] # Torn
          BY DEF Ready, Faithful, Moves
        <4> QED
          BY <1>1, <2>2, <4>1, Filled DEF Ready, Faithful, Stores
      <3> QED
        BY <3>1, <3>2, <3>3
    <2>7. Sights'
      BY <1>3, <2>1, <2>6, Marks DEF Sights, Seen
    <2>8. LogicalNote = NoteSeen /\ LogicalNote' = NoteSeen'
      BY <2>4, <2>7, NoteIs, NoteIsNext DEF Ready, Faithful
    <2>9. ~Away'
      BY <1>2, <1>3, <1>4 DEF Away, AwayStep
    <2>10. LogicalNote' = sub.rev
      BY <1>10, <2>1, <2>8, <2>9 DEF NoteSeen
    <2>11. LogicalNote \in {Absent, disk[Roll(cur)]} /\ (~Saving => LogicalNote = Absent)
      BY <1>4, <1>12, <2>1, <2>8, Marks DEF NoteSeen, AsideFile, Away
    <2>12. Mapped
      <3>1. CASE pc \in {"install-done", "rec-installed"}
        <4>1. LogicalNote \in {J.before, Absent}
          <5>1. CASE pc = "install-done"
            BY <2>11, <5>1 DEF Ready, Durable, Displaced
          <5>2. CASE pc = "rec-installed"
            BY <2>6, <2>11, <5>2
          <5> QED
            BY <3>1, <5>1, <5>2
        <4>2. cur \notin withdrawn
          BY <3>1 DEF Ready, Faithful, Stages, Standing
        <4>3. sub.rev = J.next
          BY <1>1, <3>1, Filled DEF Ready, Faithful
        <4> QED
          BY <1>3, <2>2, <2>3, <2>4, <2>5, <2>10, <4>1, <4>2, <4>3, MapSwap DEF Ready
      <3>2. CASE pc \in {"restored", "rethrow", "rec-restored"}
        <4>1. sub.rev = disk[Roll(cur)] /\ sub.rev \in held \cup {Torn}
          BY <1>1, <2>2, <3>2, Filled DEF Ready, Faithful
        <4>2. CASE LogicalNote = Absent
          BY <1>3, <2>3, <2>4, <2>5, <2>10, <4>1, <4>2, MapRestore DEF Ready
        <4>3. CASE LogicalNote = disk[Roll(cur)]
          BY <2>3, <2>4, <2>10, <4>1, <4>3, MapNothing DEF NoteKept, Ready, Faithful
        <4> QED
          BY <2>11, <4>2, <4>3
      <3> QED
        BY <2>2, <3>1, <3>2
    <2> QED
      BY <1>8, <1>9, <2>3, <2>4, <2>7, <2>12, HeldGrows DEF Implemented, Mapped, Faithful, Ready
  <1> QED
    BY <1>11, <1>12
-----------------------------------------------------------------------------
(* The steps that start, accept, withdraw or end a save.                   *)

\* A save whose journal is only logged changes its stage.
LEMMA SaveStage ==
  ASSUME NEW c \in Tx, SameBase(c), NEW s, SaveOf(c)'.stage = s,
         journal[c].phase # "none", journal'[c].phase # "none" \/ history'[c] # "none"
  PROVE  SaveOf(c)' = [SaveOf(c) EXCEPT !.stage = s]
  BY DEF SaveOf, SameBase

\* A step of the transaction code that changes no file, and only the stage of
\* its save.
LEMMA StageImplemented ==
  ASSUME Ready, UNCHANGED <<disk, copies, spent, cur>>, sub.step = "none", sub'.step # "fill", sub'.step # "putfill",
         \A t \in Tx : SameBase(t),
         \A t \in Tx : t # cur => journal'[t].phase = journal[t].phase /\ history'[t] = history[t],
         J.phase # "none", journal'[cur].phase # "none" \/ history'[cur] # "none",
         journal'[cur].phase \notin {"none", "intent"} => disk[Temp(cur)] = J.next \/ Reached(cur),
         withdrawn' # withdrawn => J.before # Absent, withdrawn' \subseteq withdrawn \cup {cur},
         NEW s, SaveOf(cur)'.stage = s,
         \/ SaveOf(cur).stage = "begun" /\ s = "accepted"
         \/ SaveOf(cur).stage = "accepted" /\ s = "withdrawn"
         \/ SaveOf(cur).stage \in {"begun", "withdrawn"} /\ s = "closed"
         \/ SaveOf(cur).stage = "accepted" /\ s = "closed" /\ Reached(cur),
         ~AwayStep, ~AwayStep', Saving' => Saving,
         Moves', Stages', Reaches'
  PROVE  Implemented
  <1>1. cur \in Tx /\ VisibleCopies' = VisibleCopies /\ J.before' = J.before /\ ~Filling /\ ~Filling'
    BY DEF Ready, TypeOK, VisibleCopies, J, SameBase, Filling, Running
  <1>2. Stores'
    <2>1. /\ \A t \in Tx : journal'[t].phase # "none" => journal[t].phase # "none"
          /\ \A t \in Tx : journal[t].phase # "none" \/ history[t] # "none"
                           => journal'[t].phase # "none" \/ history'[t] # "none"
          /\ \A t \in Tx : disk'[Roll(t)] = disk[Roll(t)] \/ disk'[Roll(t)] \in held \cup {Torn, Absent}
          /\ \A t \in Tx : journal[t].phase # "none" =>
               \/ disk'[Temp(t)] \in {disk[Temp(t)], journal[t].next}
               \/ disk'[Temp(t)] \in {Torn, Absent} /\ (Accepted(t) => Reached(t))
          /\ spent'.late = spent.late
      BY DEF J
    <2>2. \A t \in Tx : journal'[t].phase \notin {"none", "intent"} /\ journal[t].phase \in {"none", "intent"}
                          => disk'[Temp(t)] = journal[t].next \/ Reached(t)
      BY DEF J
    <2> QED
      BY <1>1, <2>1, <2>2, StoresKeep
  <1>3. Sights'
    BY <1>1, SightsKeep
  <1>4. LogicalNote' = LogicalNote
    BY <1>1, <1>2, <1>3, NoteStill DEF Away
  <1>5. ASSUME NEW t \in Tx, t # cur PROVE SaveOf(t)' = SaveOf(t)
    <2>1. t \in withdrawn' <=> t \in withdrawn
      BY <1>5 DEF Ready, Recorded
    <2> QED
      BY <1>5, <2>1, SaveKept DEF SameBase
  <1>6. SaveOf(cur)' = [SaveOf(cur) EXCEPT !.stage = s]
    <2>1. PICK c \in Tx : c = cur
      BY <1>1
    <2>2. SaveOf(c)' = SaveOf(cur)'
      BY <2>1
    <2>3. SaveOf(c)' = [SaveOf(c) EXCEPT !.stage = s]
      BY <2>1, <2>2, SaveStage DEF J
    <2> QED
      BY <2>1, <2>2, <2>3
  <1>7. Mapped
    <2>1. Spends(0, 0)
      BY DEF Spends, Ready, TypeOK
    <2>2. PICK c \in Tx : c = cur
      BY <1>1
    <2>3. SaveOf(c)' = [SaveOf(c) EXCEPT !.stage = s] /\ \A t \in Tx : t # c => SaveOf(t)' = SaveOf(t)
      BY <1>5, <1>6, <2>2
    <2> QED
      BY <1>1, <1>4, <2>1, <2>2, <2>3, MapStage DEF NoteKept, Ready, Faithful
  <1> QED
    BY <1>2, <1>3, <1>7, HeldGrows DEF Implemented, Mapped, Faithful, Ready

\* The proposal is accepted.
LEMMA StagedImplemented ==
  ASSUME Ready, LogStaged
  PROVE  Implemented
  <1>1. /\ UNCHANGED <<disk, copies, history, mode, cur, ok, spent, sub>>
        /\ pc = "staged" /\ sub.step = "none" /\ pc' = "backup"
        /\ journal' = [journal EXCEPT ![cur].phase = "staged"]
    BY DEF LogStaged, Log, Go, At
  <1>2. cur \in Tx /\ J.phase = "intent" /\ cur \notin withdrawn /\ mode = "open" /\ withdrawn' = withdrawn
    BY <1>1 DEF Ready, Faithful, Stages, Standing, TypeOK, Recorded
  <1>3. "staged" \in Phase /\ "staged" \notin {"none", "intent"}
    BY DEF Phase
  <1>4. /\ \A t \in Tx : SameBase(t) /\ (t # cur => journal'[t].phase = journal[t].phase)
        /\ journal'[cur].phase = "staged"
    BY <1>1, <1>3, LogKeeps DEF Ready
  <1>5. disk[Temp(cur)] = J.next
    BY <1>1 DEF Ready, Durable, Files, At
  <1>6. SaveOf(cur).stage = "begun" /\ SaveOf(cur)'.stage = "accepted"
    BY <1>1, <1>2, <1>4 DEF SaveOf, J
  <1>7. Moves' /\ Reaches'
    BY <1>1 DEF Moves, Reaches, InClaim, Removal
  <1>8. Stages'
    BY <1>1, <1>2, <1>4 DEF Stages, Standing, InRecovery, J
  <1>9. ~AwayStep /\ ~AwayStep' /\ (Saving' => Saving)
    BY <1>1 DEF AwayStep, Saving
  <1>10. \A t \in Tx : t # cur => journal'[t].phase = journal[t].phase /\ history'[t] = history[t]
    BY <1>1, <1>4
  <1> QED
    BY <1>1, <1>2, <1>4, <1>5, <1>6, <1>7, <1>8, <1>9, <1>10, StageImplemented

\* The caller takes the save back.
LEMMA RefuseImplemented ==
  ASSUME Ready, Refuse
  PROVE  Implemented
  <1>1. /\ UNCHANGED <<disk, copies, journal, history, mode, cur, ok, spent>>
        /\ pc = "authorize" /\ sub.step = "none" /\ pc' = "retire-temp" /\ J.before # Absent
        /\ sub' = Removing(Temp(cur), J.next)
    BY DEF Refuse, Call, Go, At, durable
  <1>2. sub'.step = "validate"
    BY <1>1, Started
  <1>3. cur \in Tx /\ J.phase \notin {"none", "intent"} /\ cur \notin withdrawn /\ mode = "open"
        /\ withdrawn' = withdrawn \cup {cur}
    BY <1>1 DEF Ready, Faithful, Stages, Standing, TypeOK, Recorded
  <1>4. \A t \in Tx : SameBase(t)
    BY <1>1 DEF SameBase
  <1>5. disk[Temp(cur)] = J.next
    BY <1>1 DEF Ready, Durable, Files, HasTemp
  <1>6. SaveOf(cur).stage = "accepted" /\ SaveOf(cur)'.stage = "withdrawn"
    BY <1>1, <1>3 DEF SaveOf, J
  <1>7. Moves' /\ Reaches'
    BY <1>1, <1>2 DEF Moves, Reaches, InClaim, Removal
  <1>8. Stages'
    BY <1>1, <1>3 DEF Stages, Standing, InRecovery
  <1>9. ~AwayStep /\ ~AwayStep' /\ (Saving' => Saving)
    BY <1>1, <1>2 DEF AwayStep, Saving
  <1>10. J.phase # "none" /\ (journal'[cur].phase # "none" \/ history'[cur] # "none")
    BY <1>1, <1>3 DEF J
  <1> QED
    BY <1>1, <1>2, <1>3, <1>4, <1>5, <1>6, <1>7, <1>8, <1>9, <1>10, StageImplemented

\* Recovery has installed the proposal, or not.
LEMMA RecInstalledImplemented ==
  ASSUME Ready, RecInstalled
  PROVE  Implemented
  <1>1. /\ UNCHANGED <<disk, copies, history, mode, cur, ok, spent, sub>>
        /\ pc = "rec-installed" /\ sub.step = "none"
        /\ \/ ok /\ pc' = "archive" /\ journal' = [journal EXCEPT ![cur].phase = "committed"]
           \/ ~ok /\ pc' = "rec-restore" /\ journal' = journal
    BY DEF RecInstalled, Frame, ghost, Go, At
  <1>2. cur \in Tx /\ cur \notin withdrawn /\ mode # "open" /\ withdrawn' = withdrawn
    BY <1>1 DEF Ready, Faithful, Stages, InRecovery, TypeOK, Recorded
  <1>3. J.phase # "none"
    BY <1>1 DEF Ready, Durable, Works, Busy, J
  <1>4. "committed" \in Phase /\ "committed" \notin {"none", "intent"}
    BY DEF Phase
  <1>5. ok => /\ \A t \in Tx : SameBase(t) /\ (t # cur => journal'[t].phase = journal[t].phase)
              /\ journal'[cur].phase = "committed"
    BY <1>1, <1>4, LogKeeps DEF Ready
  <1>6. Moves' /\ Reaches'
    BY <1>1 DEF Moves, Reaches, InClaim, Removal
  <1>7. Stages'
    BY <1>1, <1>2 DEF Stages, Standing, InRecovery
  <1>8. CASE ok /\ J.phase = "intent"
    <2>1. SaveOf(cur).stage = "begun" /\ SaveOf(cur)'.stage = "accepted"
      BY <1>1, <1>2, <1>5, <1>8 DEF SaveOf, J
    <2>2. Reached(cur)
      BY <1>1, <1>8 DEF Ready, Faithful, Reaches
    <2>3. ~AwayStep /\ ~AwayStep' /\ (Saving' => Saving)
      BY <1>1, <1>2, <1>8 DEF AwayStep, Saving
    <2>4. \A t \in Tx : t # cur => journal'[t].phase = journal[t].phase /\ history'[t] = history[t]
      BY <1>1, <1>5, <1>8
    <2>5. (\A t \in Tx : SameBase(t)) /\ journal'[cur].phase # "none"
      BY <1>5, <1>8
    <2> QED
      BY <1>1, <1>2, <1>3, <1>6, <1>7, <2>1, <2>2, <2>3, <2>4, <2>5, StageImplemented
  <1>9. CASE ~(ok /\ J.phase = "intent")
    <2>1. \A t \in Tx : /\ SameBase(t)
                        /\ \/ journal'[t].phase = journal[t].phase
                           \/ {journal[t].phase, journal'[t].phase} \cap {"none", "intent"} = {}
      <3>1. CASE ok
        BY <1>3, <1>4, <1>5, <1>9, <3>1 DEF J
      <3>2. CASE ~ok
        BY <1>1, <3>2 DEF SameBase
      <3> QED
        BY <3>1, <3>2
    <2>2. Quiet
      BY <1>1, <2>1 DEF Quiet
    <2>3. pc \in Plain /\ pc' \in Plain
      BY <1>1 DEF Plain
    <2> QED
      BY <1>1, <1>2, <1>6, <1>7, <2>2, <2>3, PlainStep
  <1> QED
    BY <1>8, <1>9

\* The journal goes, and with it the save.
LEMMA RetireImplemented ==
  ASSUME Ready, Retire
  PROVE  Implemented
  <1>1. /\ UNCHANGED <<disk, copies, history, mode, cur, ok, spent, sub>>
        /\ pc = "retire" /\ sub.step = "none" /\ journal' = [journal EXCEPT ![cur].phase = "none"]
        /\ pc' = IF mode = "recovering" THEN "recover" ELSE "idle"
    BY DEF Retire, Frame, ghost, Go, At
  <1>2. cur \in Tx /\ withdrawn' = withdrawn /\ mode \in {"open", "recovering"} /\ J.phase # "none"
        /\ history[cur] # "none" /\ disk[Temp(cur)] = Absent
    BY <1>1 DEF Ready, TypeOK, Durable, Works, Busy, J, Recorded, Files, NoTemp, Exists
  <1>3. /\ \A t \in Tx : SameBase(t) /\ (t # cur => journal'[t].phase = journal[t].phase)
        /\ journal'[cur].phase = "none"
    BY <1>1, <1>2 DEF Ready, TypeOK, Journal, SameBase
  <1>4. SaveOf(cur)'.stage = "closed"
    BY <1>1, <1>2, <1>3 DEF SaveOf
  <1>5. SaveOf(cur).stage \in {"begun", "withdrawn"} \/ (SaveOf(cur).stage = "accepted" /\ Reached(cur))
    <2>1. CASE Accepted(cur)
      <3>1. J.next \in Version
        BY <1>2 DEF Ready, Durable, Plans, J
      <3>2. Reached(cur)
        BY <1>2, <2>1, <3>1, Marks DEF Ready, Faithful, Stores, J
      <3> QED
        BY <1>2, <2>1, <3>2, OpenSaves
    <2>2. CASE ~Accepted(cur)
      BY <1>2, <2>2, OpenSaves DEF Accepted, J
    <2> QED
      BY <2>1, <2>2
  <1>6. Moves' /\ Reaches'
    BY <1>1 DEF Moves, Reaches, InClaim, Removal
  <1>7. Stages'
    BY <1>1, <1>2 DEF Stages, Standing, InRecovery
  <1>8. ~AwayStep /\ ~AwayStep' /\ (Saving' => Saving)
    BY <1>1, <1>2 DEF AwayStep, Saving
  <1>9. /\ \A t \in Tx : t # cur => journal'[t].phase = journal[t].phase /\ history'[t] = history[t]
        /\ history'[cur] # "none"
    BY <1>1, <1>2, <1>3
  <1> QED
    BY <1>1, <1>2, <1>3, <1>4, <1>5, <1>6, <1>7, <1>8, <1>9, StageImplemented

\* The receipt is written, the staged file is promoted, or the save fails.
LEMMA EndingImplemented ==
  ASSUME Ready, Archive \/ Promote \/ Rethrow
  PROVE  Implemented
  <1>1. /\ UNCHANGED <<disk, copies, journal, cur, ok, spent>>
        /\ pc \in {"archive", "promote", "rethrow"} /\ sub.step = "none"
        /\ \/ pc = "archive" /\ pc' = "retire" /\ history' = [history EXCEPT ![cur] = outcome]
              /\ sub' = sub /\ mode' = mode
           \/ pc = "promote" /\ pc' = "promoted" /\ history' = history /\ mode' = mode
              /\ sub' = Installing(Temp(cur), Copy)
           \/ pc \in {"promote", "rethrow"} /\ pc' = "idle" /\ history' = history /\ mode' = mode
              /\ mode # "recovering" /\ sub'.step = "none"
           \/ pc = "promote" /\ pc' = "down" /\ history' = history /\ mode' = "down" /\ sub'.step = "none"
    <2>1. CASE Archive
      BY <2>1 DEF Archive, Frame, ghost, Go, At
    <2>2. CASE Rethrow
      <3>1. mode = "open"
        BY <2>2 DEF Rethrow, At, Ready, Faithful, Stages, Standing
      <3> QED
        BY <2>2, <3>1 DEF Rethrow, durable, Go, At
    <2>3. CASE Promote /\ Exists(Temp(cur))
      BY <2>3 DEF Promote, durable, ghost, Call, Go, At
    <2>4. CASE Promote /\ ~Exists(Temp(cur))
      BY <2>4 DEF Promote, GiveUp, NoSub, durable, ghost, Go, At
    <2> QED
      BY <2>1, <2>2, <2>3, <2>4
  <1>2. \/ pc' \in {"retire", "idle", "down"} /\ sub'.step = "none"
        \/ pc' = "promoted" /\ sub'.step = "create"
    BY <1>1, Started
  <1>3. cur \in Tx /\ J.phase # "none" /\ withdrawn' = withdrawn
    BY <1>1, <1>2 DEF Ready, TypeOK, Durable, Works, Busy, J, Recorded
  <1>4. Quiet
    BY <1>1, <1>2, <1>3 DEF Quiet, SameBase, J, Ready, TypeOK
  <1>5. ~AwayStep /\ ~AwayStep'
    BY <1>1, <1>2 DEF AwayStep
  <1>6. Sights'
    BY <1>1, <1>4, <1>5, QuietFiles, SightsKeep DEF Saving
  <1>7. Moves' /\ Reaches'
    BY <1>2 DEF Moves, Reaches, InClaim, Removal
  <1>8. Stages'
    BY <1>1, <1>2 DEF Stages, Standing, InRecovery
  <1> QED
    BY <1>3, <1>4, <1>5, <1>6, <1>7, <1>8, QuietImplemented DEF Away

\* The conflict copy is settled.
LEMMA PromotedImplemented ==
  ASSUME Ready, Promoted
  PROVE  Implemented
  <1>1. /\ UNCHANGED <<journal, history, mode, cur, ok, spent, sub>>
        /\ pc = "promoted" /\ sub.step = "none" /\ pc' \in {"archive", "promote"}
        /\ disk' = [disk EXCEPT ![Copy] = Absent] /\ copies' = copies \cup ({disk[Copy]} \ {Absent})
    BY DEF Promoted, Kept, Go, At, ghost
  <1>2. cur \in Tx /\ disk \in [Slot -> Content] /\ Copy \in Slot
    BY SlotNames DEF Ready, TypeOK
  <1>3. \A s \in Slot : s # Copy => disk'[s] = disk[s]
    BY <1>1, <1>2
  <1>4. /\ disk'[Note] = disk[Note] /\ disk'[Copy] = Absent
        /\ \A t \in Tx : disk'[Roll(t)] = disk[Roll(t)] /\ disk'[Temp(t)] = disk[Temp(t)] /\ disk'[Side(t)] = disk[Side(t)]
    BY <1>1, <1>2, <1>3, SlotNames, NamesApart
  <1>5. VisibleCopies' = VisibleCopies
    <2>1. {disk'[Side(t)] : t \in Tx} = {disk[Side(t)] : t \in Tx}
      BY <1>4
    <2>2. (copies' \cup {disk'[Copy]}) \cap Version = (copies \cup {disk[Copy]}) \cap Version
      BY <1>1, <1>4, Marks
    <2> QED
      BY <2>1, <2>2 DEF VisibleCopies
  <1>6. J' = J /\ withdrawn' = withdrawn /\ ~Filling /\ ~Filling'
    BY <1>1, <1>2 DEF J, Filling, Running, Ready, Recorded
  <1>7. Stores'
    <2>1. /\ \A t \in Tx : SameBase(t)
          /\ \A t \in Tx : journal'[t].phase # "none" => journal[t].phase # "none"
          /\ \A t \in Tx : journal[t].phase # "none" \/ history[t] # "none"
                           => journal'[t].phase # "none" \/ history'[t] # "none"
          /\ \A t \in Tx : journal'[t].phase \notin {"none", "intent"} /\ journal[t].phase \in {"none", "intent"}
                           => disk'[Temp(t)] = journal[t].next \/ Reached(t)
          /\ spent'.late = spent.late
      BY <1>1 DEF SameBase
    <2>2. /\ \A t \in Tx : disk'[Roll(t)] = disk[Roll(t)] \/ disk'[Roll(t)] \in held \cup {Torn, Absent}
          /\ \A t \in Tx : journal[t].phase # "none" =>
               \/ disk'[Temp(t)] \in {disk[Temp(t)], journal[t].next}
               \/ disk'[Temp(t)] \in {Torn, Absent} /\ (Accepted(t) => Reached(t))
      BY <1>4
    <2> QED
      BY <1>5, <1>6, <2>1, <2>2, StoresKeep
  <1>8. ~AwayStep /\ ~AwayStep'
    BY <1>1 DEF AwayStep
  <1>9. Sights'
    BY <1>1, <1>4, <1>6, <1>8, SightsKeep DEF Saving
  <1>10. Moves' /\ Reaches'
    BY <1>1 DEF Moves, Reaches, InClaim, Removal
  <1>11. Stages'
    BY <1>1, <1>2, <1>6 DEF Stages, Standing, InRecovery, Ready, Faithful
  <1>12. LogicalNote' = LogicalNote
    BY <1>4, <1>6, <1>7, <1>8, <1>9, <1>11, NoteStill DEF Away
  <1>13. SavesKept
    <2> SUFFICES ASSUME NEW t \in Tx
                 PROVE  SaveOf(t)' = SaveOf(t)
      BY DEF SavesKept
    <2> QED
      BY <1>1, <1>6, SaveKept
  <1>14. Mapped
    <2>1. Spends(0, 0)
      BY <1>1 DEF Spends, Ready, TypeOK
    <2> QED
      BY <1>5, <1>12, <1>13, <2>1, MapNothing DEF NoteKept, Ready, Faithful
  <1> QED
    BY <1>7, <1>9, <1>10, <1>11, <1>14, HeldGrows DEF Implemented, Mapped, Faithful, Ready

\* The vault is opened, or recovery goes on to the next journal.
LEMMA OpeningImplemented ==
  ASSUME Ready, Open \/ RecoverNext \/ Opened
  PROVE  Implemented
  <1>1. /\ UNCHANGED <<disk, copies, journal, history, spent, sub>>
        /\ \/ mode = "down" /\ mode' = "recovering" /\ pc' = "recover"
           \/ pc = "recover" /\ mode' = mode /\ pc' = "rec-read"
           \/ pc = "recover" /\ mode' = "open" /\ pc' = "idle"
    BY DEF Open, RecoverNext, Opened, durable, ghost, At, Go
  <1>2. sub.step = "none" /\ ~Saving /\ ~Saving' /\ withdrawn' = withdrawn
    BY <1>1 DEF Ready, Durable, Works, Busy, Faithful, Stages, InRecovery, Saving, Recorded
  <1>3. VisibleCopies' = VisibleCopies /\ ~Filling /\ ~Filling' /\ ~Away /\ ~Away'
    BY <1>1, <1>2 DEF VisibleCopies, Filling, Running, Away
  <1>4. Stores'
    <2>1. /\ \A t \in Tx : SameBase(t)
          /\ \A t \in Tx : journal'[t].phase # "none" => journal[t].phase # "none"
          /\ \A t \in Tx : journal[t].phase # "none" \/ history[t] # "none"
                           => journal'[t].phase # "none" \/ history'[t] # "none"
          /\ \A t \in Tx : journal'[t].phase \notin {"none", "intent"} /\ journal[t].phase \in {"none", "intent"}
                           => disk'[Temp(t)] = journal[t].next \/ Reached(t)
          /\ \A t \in Tx : disk'[Roll(t)] = disk[Roll(t)] \/ disk'[Roll(t)] \in held \cup {Torn, Absent}
          /\ \A t \in Tx : journal[t].phase # "none" =>
               \/ disk'[Temp(t)] \in {disk[Temp(t)], journal[t].next}
               \/ disk'[Temp(t)] \in {Torn, Absent} /\ (Accepted(t) => Reached(t))
          /\ spent'.late = spent.late
      BY <1>1 DEF SameBase
    <2> QED
      BY <1>2, <1>3, <2>1, StoresKeep
  <1>5. Sights' /\ Moves' /\ Reaches'
    BY <1>1, <1>2 DEF Sights, Moves, Reaches, InClaim, Removal
  <1>6. Stages'
    BY <1>1 DEF Stages, Standing, InRecovery, Ready, Faithful
  <1>7. LogicalNote' = LogicalNote
    BY <1>1, <1>3, <1>4, <1>5, <1>6, NoteStill
  <1>8. SavesKept
    <2> SUFFICES ASSUME NEW t \in Tx
                 PROVE  SaveOf(t)' = SaveOf(t)
      BY DEF SavesKept
    <2> QED
      BY <1>1, <1>2, SaveKept
  <1>9. Mapped
    <2>1. Spends(0, 0)
      BY <1>1 DEF Spends, Ready, TypeOK
    <2> QED
      BY <1>3, <1>7, <1>8, <2>1, MapNothing DEF NoteKept, Ready, Faithful
  <1> QED
    BY <1>4, <1>5, <1>6, <1>9, HeldGrows DEF Implemented, Mapped, Faithful, Ready

\* A save begins.
LEMMA BeginImplemented ==
  ASSUME Ready, NEW t \in Tx, NEW e \in Version \cup {Absent}, NEW v \in Version, Begin(t, e, v)
  PROVE  Implemented
  <1>1. /\ UNCHANGED <<disk, copies, history, mode, spent>>
        /\ mode = "open" /\ pc = "idle" /\ sub.step = "none" /\ pc' = "staged" /\ cur' = t
        /\ journal[t].phase = "none" /\ history[t] = "none" /\ sub' = Creating(Temp(t), v)
        /\ journal' = [journal EXCEPT ![t] =
             [phase |-> "intent", dest |-> IF disk[Note] = e THEN Note ELSE Side(t),
              before |-> IF disk[Note] = e THEN e ELSE Absent, next |-> v]]
    BY DEF Begin, At, Call, Go
  <1>2. sub'.step = "create" /\ sub'.op = "create"
    BY <1>1, Started
  <1>3. /\ journal'[t].phase = "intent" /\ journal'[t].next = v
        /\ journal'[t].dest = IF disk[Note] = e THEN Note ELSE Side(t)
        /\ journal'[t].before = IF disk[Note] = e THEN e ELSE Absent
        /\ \A u \in Tx : u # t => journal'[u] = journal[u]
    BY <1>1 DEF Ready, TypeOK
  <1>4. withdrawn' = withdrawn /\ t \notin withdrawn
    BY <1>1 DEF Ready, Recorded, Faithful, Stores
  <1>5. VisibleCopies' = VisibleCopies /\ ~Filling /\ ~Filling' /\ ~Away /\ ~Away'
    BY <1>1, <1>2 DEF VisibleCopies, Filling, Running, Away, AwayStep
  <1>6. held \subseteq held'
    BY HeldGrows DEF Ready
  <1>7. Stores'
    <2>1. there' \in BOOLEAN /\ (disk'[Note] \in Version => there') /\ held' \subseteq Version /\ spent'.late = 0
      BY <1>1 DEF Ready, Faithful, Stores, Recorded
    <2>2. \A u \in Tx : disk'[Roll(u)] \in held' \cup {Torn, Absent}
      BY <1>1, <1>6 DEF Ready, Faithful, Stores
    <2>3. \A u \in Tx : journal'[u].phase # "none" => disk'[Temp(u)] \in {journal'[u].next, Torn, Absent}
      <3>1. disk[Temp(t)] = Absent
        BY <1>1 DEF Ready, Durable, Retired, Exists
      <3> QED
        BY <1>1, <1>3, <3>1 DEF Ready, Faithful, Stores
    <2>4. \A u \in withdrawn' : /\ u \in Tx /\ journal'[u].before # Absent
                                /\ journal'[u].phase # "none" \/ history'[u] # "none"
      BY <1>1, <1>3, <1>4 DEF Ready, Faithful, Stores
    <2>5. ASSUME NEW u \in Tx, journal'[u].phase \notin {"none", "intent"}, u \notin withdrawn'
          PROVE  disk'[Temp(u)] = journal'[u].next \/ journal'[u].next \in held' \cup VisibleCopies'
      <3>1. u # t /\ journal'[u] = journal[u] /\ Accepted(u)
        BY <1>3, <1>4, <2>5 DEF Accepted
      <3>2. disk[Temp(u)] = journal[u].next \/ Reached(u)
        BY <3>1 DEF Ready, Faithful, Stores
      <3> QED
        BY <1>1, <1>5, <1>6, <3>1, <3>2 DEF Reached
    <2> QED
      BY <2>1, <2>2, <2>3, <2>4, <2>5 DEF Stores, Accepted, Reached
  <1>8. J'.phase = "intent" /\ J'.before = IF disk[Note] = e THEN e ELSE Absent
    BY <1>1, <1>3 DEF J
  <1>9. Sights'
    BY <1>1, <1>8, Marks DEF Sights, Seen
  <1>10. Moves' /\ Reaches'
    BY <1>1, <1>2 DEF Moves, Reaches, InClaim, Removal
  <1>11. Stages'
    BY <1>1, <1>4, <1>8 DEF Stages, Standing, InRecovery
  <1>12. LogicalNote' = LogicalNote
    BY <1>1, <1>5, <1>7, <1>9, <1>11, NoteStill
  <1>13. LogicalNote = disk[Note]
    BY <1>5, NoteIs DEF Ready, Faithful, NoteSeen
  <1>14. \A u \in Tx : u # t => SaveOf(u)' = SaveOf(u)
    <2> SUFFICES ASSUME NEW u \in Tx, u # t
                 PROVE  SaveOf(u)' = SaveOf(u)
      OBVIOUS
    <2> QED
      BY <1>1, <1>3, <1>4, SaveKept
  <1>15. SaveOf(t)' = [stage |-> "begun", fresh |-> LogicalNote = e,
                       base |-> IF LogicalNote = e THEN e ELSE Absent, next |-> v]
    <2>1. Side(t) # Note
      BY NamesApart
    <2> QED
      BY <1>3, <1>13, <2>1 DEF SaveOf
  <1>16. KeepsBoth!Begin(t, e, v)
    <2> DEFINE f == [u \in Tx |-> SaveOf(u)]
    <2>1. f[t].stage = "none"
      BY <1>1, OpenSaves
    <2>2. f' = [f EXCEPT ![t] = [stage |-> "begun", fresh |-> LogicalNote = e,
                                 base |-> IF LogicalNote = e THEN e ELSE Absent, next |-> v]]
      BY <1>14, <1>15
    <2>3. held' = held
      BY <1>12 DEF Ready, Recorded, Faithful, Known
    <2>4. UNCHANGED <<spent.save, spent.crash + spent.fault>>
      BY <1>1
    <2> QED
      BY <1>5, <1>12, <2>1, <2>2, <2>3, <2>4 DEF KeepsBoth!Begin, KeepsBoth!world
  <1>17. Mapped
    BY <1>16 DEF Mapped, KeepsBoth!Next
  <1> QED
    BY <1>7, <1>9, <1>10, <1>11, <1>17, HeldGrows DEF Implemented, Mapped, Faithful, Ready
-----------------------------------------------------------------------------
(* Failures and other programs.                                            *)

\* Abandoned names are neither the note nor a copy nor a transaction's.
LEMMA AbandonFiles ==
  ASSUME Ready, Abandon, UNCHANGED <<journal, history>>
  PROVE  /\ disk'[Note] = disk[Note] /\ VisibleCopies' = VisibleCopies
         /\ \A t \in Tx : disk'[Roll(t)] = disk[Roll(t)] /\ disk'[Temp(t)] = disk[Temp(t)]
         /\ \A t \in Tx : SameBase(t)
         /\ (\A t \in Tx : t \in withdrawn' <=> t \in withdrawn) => SavesKept
         /\ spent'.late = spent.late /\ withdrawn' = withdrawn => Stores'
  <1>1. disk \in [Slot -> Content] /\ Copy \in Slot /\ Claim \in Slot
    BY SlotNames DEF Ready, TypeOK
  <1>2. /\ \A s \in Slot : s \notin {Copy, Claim} => disk'[s] = disk[s]
        /\ disk'[Copy] = Absent /\ copies' = copies \cup ({disk[Copy]} \ {Absent})
    BY <1>1 DEF Abandon, Kept
  <1>3. /\ disk'[Note] = disk[Note]
        /\ \A t \in Tx : disk'[Roll(t)] = disk[Roll(t)] /\ disk'[Temp(t)] = disk[Temp(t)] /\ disk'[Side(t)] = disk[Side(t)]
    BY <1>2, SlotNames, NamesApart
  <1>4. VisibleCopies' = VisibleCopies
    <2>1. {disk'[Side(t)] : t \in Tx} = {disk[Side(t)] : t \in Tx}
      BY <1>3
    <2>2. (copies' \cup {disk'[Copy]}) \cap Version = (copies \cup {disk[Copy]}) \cap Version
      BY <1>2, Marks
    <2> QED
      BY <2>1, <2>2 DEF VisibleCopies
  <1>5. \A t \in Tx : SameBase(t)
    BY DEF SameBase
  <1>6. ASSUME \A t \in Tx : t \in withdrawn' <=> t \in withdrawn
        PROVE  SavesKept
    <2> SUFFICES ASSUME NEW t \in Tx
                 PROVE  SaveOf(t)' = SaveOf(t)
      BY DEF SavesKept
    <2>1. t \in withdrawn' <=> t \in withdrawn
      BY <1>6
    <2> QED
      BY <2>1, SaveKept
  <1>7. ASSUME spent'.late = spent.late, withdrawn' = withdrawn
        PROVE  Stores'
    <2>1. /\ \A t \in Tx : journal'[t].phase # "none" => journal[t].phase # "none"
          /\ \A t \in Tx : journal[t].phase # "none" \/ history[t] # "none"
                           => journal'[t].phase # "none" \/ history'[t] # "none"
          /\ \A t \in Tx : journal'[t].phase \notin {"none", "intent"} /\ journal[t].phase \in {"none", "intent"}
                           => disk'[Temp(t)] = journal[t].next \/ Reached(t)
          /\ \A t \in Tx : disk'[Roll(t)] = disk[Roll(t)] \/ disk'[Roll(t)] \in held \cup {Torn, Absent}
          /\ \A t \in Tx : journal[t].phase # "none" =>
               \/ disk'[Temp(t)] \in {disk[Temp(t)], journal[t].next}
               \/ disk'[Temp(t)] \in {Torn, Absent} /\ (Accepted(t) => Reached(t))
      BY <1>3
    <2> QED
      BY <1>4, <1>5, <1>7, <2>1, StoresKeep
  <1> QED
    BY <1>3, <1>4, <1>5, <1>6, <1>7

\* The save or the recovery stops where it is.
LEMMA StopImplemented ==
  ASSUME Ready, Abandon, UNCHANGED <<journal, history, cur>>, sub'.step = "none",
         pc' \in {"idle", "down"}, mode' = "open" => pc' = "idle",
         Spends(0, 1), spent'.late = spent.late
  PROVE  Implemented
  <1>1. withdrawn' = withdrawn /\ cur \in Tx /\ ~Saving'
    BY DEF Ready, Recorded, TypeOK, Saving
  <1>2. disk'[Note] = disk[Note] /\ VisibleCopies' = VisibleCopies /\ Stores' /\ SavesKept
    BY <1>1, AbandonFiles
  <1>3. Sights' /\ Moves' /\ Reaches'
    BY <1>1 DEF Sights, Moves, Reaches, InClaim, Removal
  <1>4. Stages'
    BY DEF Stages, Standing, InRecovery
  <1>5. LogicalNote' = disk[Note]
    <2>1. LogicalNote' = NoteSeen'
      BY <1>2, <1>3, <1>4, NoteIsNext DEF Ready
    <2> QED
      BY <1>1, <1>2, <2>1 DEF NoteSeen, Away, Filling, Running
  <1>6. LogicalNote = NoteSeen
    BY NoteIs DEF Ready, Faithful
  <1>7. LogicalNote' = LogicalNote \/ (J.phase # "none" /\ LogicalNote' \in {Absent, Torn})
    <2>1. CASE disk[Note] \in Version
      BY <1>5, <1>6, <2>1, Marks DEF NoteSeen
    <2>2. CASE disk[Note] \notin Version /\ Busy
      <3>1. disk[Note] \in {Absent, Torn}
        BY <2>2, SlotNames DEF Ready, TypeOK, Content
      <3> QED
        BY <1>5, <2>2, <3>1 DEF Ready, Durable, Works, J
    <2>3. CASE ~Busy
      <3>1. ~Away /\ ~Filling
        BY <2>3 DEF Ready, Durable, Works, Busy, Away, AwayStep, Filling, Running
      <3> QED
        BY <1>5, <1>6, <3>1 DEF NoteSeen
    <2> QED
      BY <2>1, <2>2, <2>3
  <1>8. Mapped
    BY <1>1, <1>2, <1>7, MapFail DEF Ready
  <1> QED
    BY <1>2, <1>3, <1>4, <1>8, HeldGrows DEF Implemented, Mapped, Faithful, Ready

\* A crash.
LEMMA CrashImplemented ==
  ASSUME Ready, Crash
  PROVE  Implemented
  <1>1. /\ Abandon /\ UNCHANGED <<journal, history, cur>> /\ sub'.step = "none" /\ pc' = "down" /\ mode' = "down"
        /\ spent' = [spent EXCEPT !["crash"] = @ + 1]
    BY DEF Crash, NoSub, Go, Spend
  <1>2. Spends(0, 1) /\ spent'.late = spent.late
    BY <1>1 DEF Spends, Ready, TypeOK
  <1> QED
    BY <1>1, <1>2, StopImplemented

\* A failing call.
LEMMA FaultImplemented ==
  ASSUME Ready, Fault
  PROVE  Implemented
  <1>1. Abandon /\ UNCHANGED <<journal, history, cur>> /\ Busy /\ spent' = [spent EXCEPT !["fault"] = @ + 1]
    BY DEF Fault, Spend
  <1>2. Spends(0, 1) /\ spent'.late = spent.late /\ spent'.save = spent.save
    BY <1>1 DEF Spends, Ready, TypeOK
  <1>3. /\ disk'[Note] = disk[Note] /\ VisibleCopies' = VisibleCopies
        /\ \A t \in Tx : disk'[Roll(t)] = disk[Roll(t)] /\ disk'[Temp(t)] = disk[Temp(t)]
        /\ cur \in Tx /\ J' = J
    BY <1>1, AbandonFiles DEF J, Ready, TypeOK
  <1>4. LogicalNote = NoteSeen
    BY NoteIs DEF Ready, Faithful
  <1>5. CASE GiveUp
    <2>1. sub'.step = "none" /\ pc' \in {"idle", "down"} /\ (mode' = "open" => pc' = "idle")
      BY <1>5 DEF GiveUp, NoSub, Go
    <2> QED
      BY <1>1, <1>2, <2>1, StopImplemented
  <1>6. CASE sub.op = "install" /\ sub.step \in Removal /\ Return(FALSE) /\ UNCHANGED <<mode, pc>>
    <2>1. sub'.step = "none" /\ ok' = FALSE /\ sub.step \notin {"none", "create", "fill"}
      BY <1>6 DEF Return, NoSub, Removal
    <2>2. /\ sub.file # Note
          /\ pc \in {"install-done", "rec-installed", "promoted", "restored", "rethrow", "rec-restored"}
      <3>1. Temp(cur) # Note /\ Roll(cur) # Note
        BY <1>3, CurNames
      <3> QED
        BY <1>6, <2>1, <3>1, RoutineFacts DEF Ready
    <2>3. ~AwayStep /\ ~AwayStep' /\ ~Filling /\ ~Filling' /\ withdrawn' = withdrawn
      BY <1>6, <2>1, <2>2 DEF AwayStep, Filling, Running, Ready, Recorded
    <2>4. Stores' /\ SavesKept
      BY <1>1, <1>2, <2>3, AbandonFiles
    <2>5. Saving' <=> Saving
      BY <1>6 DEF Saving
    <2>6. Sights'
      <3>1. disk[Note] \notin Version => (there' <=> there)
        BY <1>2, <1>3 DEF Ready, Recorded
      <3> QED
        BY <1>3, <2>3, <2>5, <3>1 DEF Ready, Faithful, Sights, Seen
    <2>7. Moves'
      BY <1>1, <1>3, <1>6, <2>1, <2>2 DEF Moves, Ready, Faithful, InClaim
    <2>8. Reaches'
      BY <1>6, <2>1, <2>2 DEF Reaches, Removal
    <2>9. Stages'
      BY <1>1, <1>3, <1>6, <2>3 DEF Stages, Ready, Faithful
    <2>10. LogicalNote' = LogicalNote
      <3>1. LogicalNote' = NoteSeen'
        BY <2>4, <2>6, <2>9, NoteIsNext DEF Ready
      <3> QED
        BY <1>3, <1>4, <2>3, <3>1 DEF NoteSeen, Away
    <2>11. Mapped
      BY <1>2, <1>3, <2>4, <2>10, MapFail DEF Ready
    <2> QED
      BY <2>4, <2>6, <2>7, <2>8, <2>9, <2>11, HeldGrows DEF Implemented, Mapped, Faithful, Ready
  <1>7. CASE /\ pc = "install-done" /\ sub.step \in {"create", "fill", "check"}
             /\ Exists(Roll(cur)) /\ ~Exists(J.dest)
             /\ Call(Installing(Roll(cur), J.dest), "rethrow") /\ UNCHANGED <<mode, ok>>
    <2>1. /\ pc' = "rethrow" /\ sub'.step = "create"
          /\ J.dest = Note /\ J.before # Absent /\ disk[Note] = Absent
      BY <1>1, <1>7, Started, CurFacts DEF Call, Go, Ready, Exists
    <2>2. Saving /\ Saving' /\ cur \notin withdrawn /\ withdrawn' = withdrawn /\ J.phase \notin {"none", "intent"}
          /\ mode = "open" /\ mode' = "open"
      BY <1>7, <2>1 DEF Ready, Faithful, Stages, Standing, Saving, Recorded
    <2>3. Away' /\ AwayStep'
      BY <1>3, <2>1, <2>2 DEF Away, AwayStep
    <2>4. Stores' /\ SavesKept
      BY <1>1, <1>2, <2>2, AbandonFiles
    <2>5. Sights'
      BY <1>3, <2>1, <2>3, Marks DEF Sights
    <2>6. Moves'
      BY <1>1, <1>3, <1>7, <2>1 DEF Moves, Ready, Faithful, InClaim
    <2>7. Reaches'
      BY <2>1 DEF Reaches, Removal
    <2>8. Stages'
      BY <1>1, <1>3, <2>1, <2>2 DEF Stages, InRecovery
    <2>9. LogicalNote' = LogicalNote
      <3>1. LogicalNote' = NoteSeen'
        BY <2>4, <2>5, <2>8, NoteIsNext DEF Ready
      <3>2. there' <=> there
        BY <1>2, <1>3, <2>1, Marks DEF Ready, Recorded, Faithful, Stores
      <3>3. AsideFile' = disk[Roll(cur)]
        BY <1>1, <1>3, <2>1 DEF AsideFile
      <3>4. CASE AwayStep
        <4>1. AsideFile = disk[Roll(cur)]
          BY <1>7 DEF AsideFile
        <4> QED
          BY <1>3, <1>4, <2>1, <2>2, <2>3, <3>1, <3>2, <3>3, <3>4, <4>1, Marks DEF NoteSeen, Away
      <3>5. CASE ~AwayStep
        <4>1. ~there
          BY <2>1, <2>2, <3>5, InPlace, Marks
        <4> QED
          BY <1>3, <1>4, <2>1, <2>3, <3>1, <3>2, <3>5, <4>1, Marks DEF NoteSeen, Away
      <3> QED
        BY <3>4, <3>5
    <2>10. Mapped
      BY <1>2, <1>3, <2>4, <2>9, MapFail DEF Ready
    <2> QED
      BY <2>4, <2>5, <2>6, <2>7, <2>8, <2>10, HeldGrows DEF Implemented, Mapped, Faithful, Ready
  <1> QED
    BY <1>5, <1>6, <1>7 DEF Fault

\* Another program saves or deletes the note.
LEMMA ExternalImplemented ==
  ASSUME Ready, MaxLate = 0, External
  PROVE  Implemented
  <1>1. \A v \in Version : ~ExtLateSave(v)
    BY DEF ExtLateSave, Spend, Ready, TypeOK
  <1>2. PICK v \in Version \cup {Absent} : disk' = [disk EXCEPT ![Note] = v]
    BY <1>1 DEF External, ExtSave, ExtDelete
  <1>3. UNCHANGED <<copies, residue, journal, history, mode, pc, cur, sub, ok, outcome>>
        /\ spent' = [spent EXCEPT !["save"] = @ + 1]
    BY <1>1 DEF External, ExtSave, ExtDelete, Spend, volatile
  <1>4. /\ disk'[Note] = v /\ disk'[Claim] = disk[Claim] /\ disk'[Copy] = disk[Copy]
        /\ \A t \in Tx : disk'[Roll(t)] = disk[Roll(t)] /\ disk'[Temp(t)] = disk[Temp(t)] /\ disk'[Side(t)] = disk[Side(t)]
    BY <1>2, SlotNames, NamesApart DEF Ready, TypeOK
  <1>5. /\ spent'.save = spent.save + 1 /\ spent'.save # spent.save /\ spent'.late = spent.late /\ Spends(1, 0)
        /\ there' = (v # Absent) /\ withdrawn' = withdrawn
    <2>1. spent'.save = spent.save + 1 /\ spent'.save # spent.save /\ spent'.late = spent.late /\ Spends(1, 0)
      BY <1>3 DEF Spends, Ready, TypeOK
    <2> QED
      BY <1>3, <1>4, <2>1 DEF Ready, Recorded, Faithful, Stages
  <1>6. VisibleCopies' = VisibleCopies /\ cur \in Tx /\ J' = J /\ held \subseteq held'
        /\ \A t \in Tx : SameBase(t)
    BY <1>3, <1>4, HeldGrows DEF VisibleCopies, Ready, TypeOK, J, SameBase
  <1>7. Stores'
    <2>1. /\ \A t \in Tx : journal'[t].phase # "none" => journal[t].phase # "none"
          /\ \A t \in Tx : journal[t].phase # "none" \/ history[t] # "none"
                           => journal'[t].phase # "none" \/ history'[t] # "none"
          /\ \A t \in Tx : journal'[t].phase \notin {"none", "intent"} /\ journal[t].phase \in {"none", "intent"}
                           => disk'[Temp(t)] = journal[t].next \/ Reached(t)
          /\ \A t \in Tx : disk'[Roll(t)] = disk[Roll(t)] \/ disk'[Roll(t)] \in held \cup {Torn, Absent}
          /\ \A t \in Tx : journal[t].phase # "none" =>
               \/ disk'[Temp(t)] \in {disk[Temp(t)], journal[t].next}
               \/ disk'[Temp(t)] \in {Torn, Absent} /\ (Accepted(t) => Reached(t))
      BY <1>3, <1>4
    <2> QED
      BY <1>5, <1>6, <2>1, StoresKeep
  <1>8. Sights'
    BY <1>4, <1>5, Marks DEF Sights, Seen
  <1>9. Moves'
    BY <1>3, <1>4, <1>6 DEF Moves, Ready, Faithful, InClaim
  <1>10. Stages'
    BY <1>3, <1>5, <1>6 DEF Stages, Ready, Faithful
  <1>11. Reaches'
    <2>1. Reached(cur) => Reached(cur)'
      BY <1>3, <1>6, StaysReached DEF Reached, Ready
    <2> QED
      BY <1>3, <1>6, <2>1 DEF Reaches, Ready, Faithful
  <1>12. LogicalNote' \in Version \cup {Absent}
    <2>1. LogicalNote' = NoteSeen'
      BY <1>7, <1>8, <1>10, NoteIsNext DEF Ready
    <2> QED
      BY <1>4, <1>5, <2>1, Marks DEF NoteSeen
  <1>13. SavesKept
    <2> SUFFICES ASSUME NEW t \in Tx
                 PROVE  SaveOf(t)' = SaveOf(t)
      BY DEF SavesKept
    <2> QED
      BY <1>3, <1>5, SaveKept
  <1>14. Mapped
    BY <1>5, <1>6, <1>12, <1>13, MapExternal DEF Ready
  <1> QED
    BY <1>7, <1>8, <1>9, <1>10, <1>11, <1>14, HeldGrows DEF Implemented, Mapped, Faithful, Ready
-----------------------------------------------------------------------------
(* The refinement.                                                         *)

\* Nothing happens.
LEMMA StutterImplemented ==
  ASSUME Ready, UNCHANGED <<vars, held, withdrawn, there>>
  PROVE  Implemented
  <1>1. UNCHANGED <<disk, copies, residue, journal, history, mode, pc, cur, sub, ok, spent, held, withdrawn, there>>
    BY DEF vars, durable, volatile
  <1>2. RoutineFrame
    BY <1>1 DEF RoutineFrame
  <1>3. VisibleCopies' = VisibleCopies /\ FilesKept /\ J' = J
    BY <1>1 DEF VisibleCopies, FilesKept, J
  <1>4. Stores' /\ Stages' /\ SavesKept /\ Spends(0, 0)
    BY <1>2, <1>3, RunStores, RunKeeps
  <1>5. (AwayStep' <=> AwayStep) /\ (Filling' <=> Filling) /\ (Saving' <=> Saving)
    BY <1>1 DEF AwayStep, Filling, Running, Saving
  <1>6. Sights'
    BY <1>1, <1>3, <1>5 DEF Sights, Seen, Ready, Faithful
  <1>7. Moves'
    BY <1>1, <1>3 DEF Moves, InClaim, Ready, Faithful
  <1>8. Reaches'
    BY <1>1, <1>3 DEF Reaches, Reached, Removal, Ready, Faithful
  <1>9. LogicalNote' = LogicalNote
    BY <1>1, <1>3, <1>5 DEF LogicalNote, Aside, Exists
  <1>10. Mapped
    BY <1>3, <1>4, <1>9, MapNothing DEF NoteKept, Ready, Faithful
  <1> QED
    BY <1>4, <1>6, <1>7, <1>8, <1>10, HeldGrows DEF Implemented, Mapped, Faithful, Ready

\* The initial states are initial states of KeepBoth.
LEMMA InitFaithful == HistoryInit => Faithful /\ KeepsBoth!Init
  <1> SUFFICES ASSUME HistoryInit PROVE Faithful /\ KeepsBoth!Init
    OBVIOUS
  <1>1. PICK v \in Version \cup {Absent} : disk = [s \in Slot |-> IF s = Note THEN v ELSE Absent]
    BY DEF HistoryInit, Init
  <1>2. /\ copies = {} /\ journal = [t \in Tx |-> [phase |-> "none", dest |-> Note, before |-> Absent, next |-> Absent]]
        /\ history = [t \in Tx |-> "none"] /\ mode = "open" /\ pc = "idle" /\ cur \in Tx
        /\ sub.step = "none" /\ ok = FALSE
        /\ spent = [save |-> 0, late |-> 0, crash |-> 0, fault |-> 0]
        /\ held = {disk[Note]} \cap Version /\ withdrawn = {} /\ there = (disk[Note] \in Version)
    BY DEF HistoryInit, Init, NoSub
  <1>3. /\ disk[Note] = v /\ disk[Copy] = Absent
        /\ \A t \in Tx : disk[Temp(t)] = Absent /\ disk[Roll(t)] = Absent /\ disk[Side(t)] = Absent
    BY <1>1, SlotNames, NamesApart
  <1>4. LogicalNote = v
    BY <1>2, <1>3, Marks DEF LogicalNote, Saving
  <1>5. VisibleCopies = {}
    <2>1. {disk[Side(t)] : t \in Tx} \subseteq {Absent}
      BY <1>3
    <2> QED
      BY <1>2, <1>3, <2>1, Marks DEF VisibleCopies
  <1>6. \A t \in Tx : SaveOf(t) = KeepsBoth!Idle
    BY <1>2 DEF SaveOf, KeepsBoth!Idle
  <1>7. KeepsBoth!Init
    BY <1>2, <1>3, <1>4, <1>5, <1>6 DEF KeepsBoth!Init
  <1>8. Known /\ Stores
    <2>1. Known
      BY <1>2, <1>3, <1>4 DEF Known
    <2>2. there \in BOOLEAN /\ (disk[Note] \in Version => there) /\ held \subseteq Version
      <3>1. there = (disk[Note] \in Version) /\ held = {disk[Note]} \cap Version
        BY <1>2
      <3>2. there \in BOOLEAN
        BY <3>1
      <3>3. disk[Note] \in Version => there
        BY <3>1
      <3>4. held \subseteq Version
        BY <3>1
      <3> QED
        BY <3>2, <3>3, <3>4
    <2>3. \A t \in Tx : disk[Roll(t)] \in held \cup {Torn, Absent} /\ journal[t].phase = "none"
      BY <1>2, <1>3
    <2> QED
      BY <1>2, <2>1, <2>2, <2>3 DEF Stores, Accepted
  <1>9. Sights /\ Moves /\ Stages /\ Reaches
    BY <1>2 DEF Sights, Saving, Moves, InClaim, Stages, InRecovery, Standing, Reaches, Removal
  <1> QED
    BY <1>7, <1>8, <1>9 DEF Faithful

\* Every step keeps the invariant and is a step of KeepBoth, or none.
LEMMA StepImplemented ==
  ASSUME MaxLate = 0, TypeOK, Durable, Faithful, [HistoryNext]_<<vars, held, withdrawn, there>>
  PROVE  TypeOK' /\ Durable' /\ Implemented
  <1>1. CASE UNCHANGED <<vars, held, withdrawn, there>>
    <2>1. TypeOK' /\ Durable'
      BY <1>1, StepTyped, StepDurable
    <2>2. Recorded
      <3>1. UNCHANGED <<held, withdrawn, there, disk, copies, residue, journal, history, mode, pc, cur, sub, ok, spent>>
        BY <1>1 DEF vars, durable, volatile
      <3>2. LogicalNote' = LogicalNote
        <4>1. J' = J /\ (Saving' <=> Saving) /\ (Filling' <=> Filling)
          BY <3>1 DEF J, Saving, Filling, Running
        <4> QED
          BY <3>1, <4>1 DEF LogicalNote, Aside, Exists
      <3> QED
        BY <3>1, <3>2 DEF Recorded, Faithful, Known, Stages, Stores
    <2> QED
      BY <1>1, <2>1, <2>2, StutterImplemented DEF Ready
  <1>2. CASE HistoryNext
    <2>1. TypeOK' /\ Durable' /\ Recorded /\ Next
      BY <1>2, StepTyped, StepDurable DEF HistoryNext, Recorded
    <2>2. Ready
      BY <2>1 DEF Ready
    <2>3. CASE \E t \in Tx, e \in Version \cup {Absent}, v \in Version : Begin(t, e, v)
      BY <2>1, <2>2, <2>3, BeginImplemented
    <2>4. CASE Routine
      BY <2>1, <2>2, <2>4, CreateImplemented, FillImplemented, CheckImplemented, TakeImplemented,
         InspectImplemented, PutImplemented, SettleImplemented DEF Routine
    <2>5. CASE Live
      BY <2>1, <2>2, <2>5, StagedImplemented, StagingImplemented, AuthorizeImplemented, RefuseImplemented,
         RefusedImplemented, AsideImplemented, VerifyImplemented, InstalledImplemented, PreserveImplemented,
         EndingImplemented, PromotedImplemented, RetireImplemented DEF Live
    <2>6. CASE Recovery
      BY <2>1, <2>2, <2>6, OpeningImplemented, RecoveringImplemented, RecInstalledImplemented DEF Recovery
    <2>7. CASE Open \/ Crash \/ Fault \/ External
      BY <2>1, <2>2, <2>7, OpeningImplemented, CrashImplemented, FaultImplemented, ExternalImplemented
    <2> QED
      BY <2>1, <2>3, <2>4, <2>5, <2>6, <2>7 DEF Next, Kernel
  <1> QED
    BY <1>1, <1>2

(* Saving keeps its promise: whatever other programs save, wherever a      *)
(* crash or a failing call falls and however often recovery runs, the note *)
(* behaves like a register with compare-and-swap.  A save replaces the     *)
(* version it had read or goes to a copy, what an interrupted replacement  *)
(* puts back is a version the note has held, and a save that was accepted  *)
(* is not over before its text has been in the note or is in a copy.       *)
THEOREM Refinement == MaxLate = 0 => (HistorySpec => Implements)
  <1> SUFFICES ASSUME MaxLate = 0 PROVE HistorySpec => Implements
    OBVIOUS
  <1>1. HistoryInit => TypeOK /\ Durable /\ Faithful /\ KeepsBoth!Init
    BY InitTyped, InitDurable, InitFaithful DEF HistoryInit
  <1>2. TypeOK /\ Durable /\ Faithful /\ [HistoryNext]_<<vars, held, withdrawn, there>>
          => TypeOK' /\ Durable' /\ Faithful' /\ [KeepsBoth!Next]_(KeepsBoth!vars)
    BY StepImplemented DEF Implemented
  <1> QED
    BY <1>1, <1>2, PTL DEF HistorySpec, Implements, KeepsBoth!Spec
=============================================================================
