------------------------ MODULE VaultWriteDurability ------------------------
(***************************************************************************)
(* What VaultWrite promises about versions, for every set of transactions  *)
(* and versions and every bound: NothingLost, Surfaced, DisplacedKept and  *)
(* NoteStays.  They follow from one inductive invariant, Durable.          *)
(***************************************************************************)
EXTENDS VaultWriteProofs

(* What each label of the transaction code knows.                          *)

\* Before the note is copied aside, and before the evidence is made.
PreAside == {"staged", "backup", "backed-up", "final", "prepare", "authorize", "retire-temp",
             "aside", "aside-made"}
\* The staged file is there, and it is gone.
HasTemp == {"backup", "backed-up", "final", "prepare", "authorize", "aside", "aside-made",
            "moved", "verify"}
NoTemp == {"log-installed", "keep-commit", "log-committed", "rec-outcome", "archive", "retire"}
\* The rollback copy is in the evidence too, or gone.
RollSaved == {"promote", "promoted", "log-committed", "rec-temp", "rec-temp-removed",
              "rec-extra", "rec-outcome", "archive", "retire"}
\* The outcome is known.
Decided == {"keep-promote", "promote", "promoted", "archive", "retire"}

InClaim == {"inspect", "reinspect", "putback", "putfill", "settle", "settle-failed"}
Unclaimed == {"create", "fill", "check", "validate", "claim"}
Done == {"installed", "committed"}

\* A transaction nobody has begun has no files.
Fresh == \A t \in Tx : journal[t].phase = "none" /\ history[t] = "none" =>
  ~Exists(Temp(t)) /\ ~Exists(Roll(t)) /\ ~Exists(Before(t)) /\ ~Exists(Side(t))

\* A transaction replaces what it read or creates a file of its own; without
\* a base it displaces nothing.
Plans == \A t \in Tx : journal[t].phase # "none" =>
  /\ journal[t].next \in Version /\ journal[t].before \in Version \cup {Absent}
  /\ journal[t].dest = Note \/ (journal[t].dest = Side(t) /\ journal[t].before = Absent)
  /\ journal[t].before = Absent => ~Exists(Roll(t)) /\ ~Exists(Before(t))

\* The code works on a journal, and only then a routine runs.
Works ==
  /\ Busy => journal[cur].phase # "none"
  /\ ~Busy => sub.step = "none"
  /\ mode = "down" => pc = "down"
  /\ pc \in Decided => outcome # "none"
  /\ pc = "retire" => history[cur] # "none"
  /\ pc \in PreAside => J.phase \notin Done
  /\ pc \in {"keep-commit", "log-committed"} => J.phase = "installed"
  /\ pc = "rec-installed" => J.before = Absent
  /\ pc \in {"aside", "aside-made", "moved", "verify"} => J.before # Absent

\* Which routine runs on which files.
Task == sub.step # "none" =>
  \/ /\ sub.op = "create" /\ sub.step \in {"create", "fill"}
     /\ \/ pc = "staged" /\ sub.to = Temp(cur) /\ sub.rev = J.next
        \/ pc = "backed-up" /\ sub.to = Before(cur) /\ J.before # Absent
        \/ pc = "aside-made" /\ sub.to = Roll(cur)
  \/ /\ sub.op = "install"
     /\ \/ pc \in {"install-done", "rec-installed"} /\ sub.file = Temp(cur) /\ sub.to = J.dest
        \/ pc = "promoted" /\ sub.file = Temp(cur) /\ sub.to = Copy
        \/ pc \in {"restored", "rethrow", "rec-restored"} /\ sub.file = Roll(cur) /\ sub.to = J.dest
  \/ /\ sub.op = "remove" /\ sub.step \in Removal
     /\ \/ pc \in {"retire-temp", "rec-temp-removed"} /\ sub.file = Temp(cur)
        \/ pc = "moved" /\ sub.file = Note /\ sub.rev = disk[Roll(cur)]
        \/ pc \in {"promote", "log-committed", "rec-temp", "rec-extra"} /\ sub.file = Roll(cur)
           /\ sub.rev = disk[Before(cur)]

\* What the names a routine works on hold.  Only the note can change under it.
Holds ==
  /\ sub.op = "create" /\ sub.step = "create" => ~Exists(sub.to)
  /\ sub.op = "create" /\ sub.step = "fill" => disk[sub.to] = Torn
  /\ sub.op # "create" /\ sub.file # Note =>
       /\ sub.step \in Unclaimed => disk[sub.file] = sub.rev
       /\ sub.step \in InClaim => disk[Claim] = sub.rev /\ ~Exists(sub.file)
       /\ sub.step \notin {"putback", "putfill", "settle-failed"}
  /\ sub.op # "remove" /\ sub.step \in Unclaimed => sub.rev # Absent
  /\ sub.step \in InClaim => Exists(Claim)
  /\ sub.step \in {"putback", "putfill"} => sub.bytes # Absent
  /\ sub.step \notin InClaim => ~Exists(Claim)
  /\ sub.step = "settle" /\ spent.late = 0 => disk[Claim] = sub.rev
  /\ pc # "promoted" => ~Exists(Copy)

\* Where else the bytes are that a removal deletes, and that a staged file
\* repeats: only the note can lose them, to an external save or deletion.
Backup == CASE sub.op = "install" -> sub.to
            [] sub.op # "install" /\ sub.file = Note -> Roll(cur)
            [] sub.op # "install" /\ sub.file = Roll(cur) -> Before(cur)
            [] OTHER -> J.dest
AlsoAt(c, s) == disk[s] = c \/ (s = Note /\ c \notin owed)
RevKept ==
  /\ sub.step \in Removal => AlsoAt(sub.rev, Backup)
  /\ pc \in {"rec-keep-temp", "rec-temp"} => AlsoAt(J.next, J.dest)

\* The private files of the transaction at its labels.
Files ==
  /\ pc \in {"staged", "backup"} => ~Exists(Before(cur))
  /\ pc \in PreAside \ {"aside-made"} => ~Exists(Roll(cur))
  /\ pc \in HasTemp \/ At("staged") => disk[Temp(cur)] = J.next
  /\ pc \in NoTemp => ~Exists(Temp(cur))
  /\ At("aside-made") \/ pc \in {"moved", "verify"} => Exists(Roll(cur))
  /\ pc \in RollSaved => disk[Roll(cur)] \in {Absent, disk[Before(cur)]}
  /\ sub.step = "none" =>
       /\ pc \in {"restored", "rec-restored"} /\ ok => ~Exists(Roll(cur))
       /\ pc \in {"install-done", "promoted", "rec-installed"} /\ ok => ~Exists(Temp(cur))
       /\ pc \in {"retire-temp", "rec-temp-removed"} => ~Exists(Temp(cur))

\* What a transaction has displaced, it has kept.
Displaced ==
  /\ \A t \in Tx : journal[t].phase \in Done =>
       disk[Before(t)] = journal[t].before /\ disk[Roll(t)] \in {Absent, journal[t].before}
  /\ pc \in {"install-done", "log-installed"} =>
       disk[Before(cur)] = J.before /\ disk[Roll(cur)] \in {Absent, J.before}

\* A retired transaction has left no staged file, and no rollback copy that
\* is not in the evidence.
Retired == \A t \in Tx : journal[t].phase = "none" =>
  ~Exists(Temp(t)) /\ disk[Roll(t)] \in {Absent, disk[Before(t)]}

\* Evidence that may still be overwritten is not relied on.
Spare(s) == \E t \in Tx : s = Before(t) /\ (Exists(Roll(t)) \/ (t = cur /\ pc \in PreAside))
Relied ==
  /\ owed \subseteq Version
  /\ \A v \in owed : v \in copies \cup residue \/ \E s \in Slot : disk[s] = v /\ ~Spare(s)

\* A note that is missing though nobody deleted it is in the rollback copy of
\* a transaction that will put it back, or put its successor in its place.
NoteGone == present /\ spent.late = 0 /\ ~Exists(Note)
PutsBack ==
  \/ pc = "moved" /\ \/ sub.step \in {"inspect", "reinspect", "putback", "settle"}
                     \/ sub.step = "none" /\ ok
  \/ pc \in {"verify", "rec-read", "rec-restore"}
  \/ pc \in {"install-done", "restored", "rethrow", "rec-restored"} /\ sub.step = "create"
NoteHeld == NoteGone =>
  \E t \in Tx : /\ journal[t].phase # "none" /\ Exists(Roll(t))
                /\ t = cur /\ Busy => PutsBack

Durable == /\ Fresh /\ Plans /\ Works /\ Task /\ Holds /\ RevKept /\ Files /\ Displaced
           /\ Retired /\ Relied /\ NoteHeld
-----------------------------------------------------------------------------
(* Names.                                                                  *)

\* The names a transaction writes: its own, the note's and the shared ones.
OwnNames(t) == {Temp(t), Roll(t), Before(t), Side(t)}
Reach(t) == OwnNames(t) \cup {Note, Copy, Claim}
\* Nothing under a name of another transaction changes.
OthersKept == \A t \in Tx : t # cur =>
  /\ disk'[Temp(t)] = disk[Temp(t)] /\ disk'[Roll(t)] = disk[Roll(t)]
  /\ disk'[Before(t)] = disk[Before(t)] /\ disk'[Side(t)] = disk[Side(t)]

\* The names in reach of the current transaction are different slots, and no
\* other transaction's.
LEMMA CurNames ==
  ASSUME cur \in Tx
  PROVE  /\ Reach(cur) \subseteq Slot
         /\ Note # Copy /\ Note # Claim /\ Copy # Claim
         /\ \A s \in {Note, Copy, Claim} :
              Temp(cur) # s /\ Roll(cur) # s /\ Before(cur) # s /\ Side(cur) # s
         /\ Temp(cur) # Roll(cur) /\ Temp(cur) # Before(cur) /\ Temp(cur) # Side(cur)
         /\ Roll(cur) # Before(cur) /\ Roll(cur) # Side(cur) /\ Before(cur) # Side(cur)
         /\ \A t \in Tx : t # cur => OwnNames(t) \cap Reach(cur) = {} /\ OwnNames(t) \subseteq Slot
  <1> SUFFICES ASSUME cur \in Tx
               PROVE  /\ \A t \in Tx : t # cur => OwnNames(t) \cap Reach(cur) = {} /\ OwnNames(t) \subseteq Slot
                      /\ Reach(cur) \subseteq Slot
    BY NamesApart
  <1>1. Reach(cur) \subseteq Slot
    BY SlotNames DEF Reach, OwnNames
  <1>2. ASSUME NEW t \in Tx, t # cur PROVE OwnNames(t) \cap Reach(cur) = {} /\ OwnNames(t) \subseteq Slot
    <2>1. OwnNames(t) \subseteq Slot
      BY SlotNames DEF OwnNames
    <2>2. ASSUME NEW s \in OwnNames(t) PROVE s \notin Reach(cur)
      <3>1. CASE s = Temp(t)
        BY <1>2, <3>1, NamesApart DEF Reach, OwnNames
      <3>2. CASE s = Roll(t)
        BY <1>2, <3>2, NamesApart DEF Reach, OwnNames
      <3>3. CASE s = Before(t)
        BY <1>2, <3>3, NamesApart DEF Reach, OwnNames
      <3>4. CASE s = Side(t)
        BY <1>2, <3>4, NamesApart DEF Reach, OwnNames
      <3> QED
        BY <3>1, <3>2, <3>3, <3>4 DEF OwnNames
    <2> QED
      BY <2>1, <2>2
  <1> QED
    BY <1>1, <1>2

\* Who changes only names in reach leaves the others alone.
LEMMA Others ==
  ASSUME cur \in Tx, \A s \in Slot \ Reach(cur) : disk'[s] = disk[s]
  PROVE  OthersKept
  <1> SUFFICES ASSUME NEW t \in Tx, t # cur
               PROVE  \A s \in OwnNames(t) : disk'[s] = disk[s]
    BY DEF OthersKept, OwnNames
  <1> QED
    BY CurNames


\* What is known of the transaction the code works on.
LEMMA CurFacts ==
  ASSUME TypeOK, Durable, Busy
  PROVE  /\ cur \in Tx /\ J.phase # "none"
         /\ J.next \in Version /\ J.next # Absent /\ J.next # Torn
         /\ \/ J.dest = Note
            \/ J.dest = Side(cur) /\ J.before = Absent /\ ~Exists(Roll(cur)) /\ ~Exists(Before(cur))
         /\ J.before = Absent => ~Exists(Roll(cur)) /\ ~Exists(Before(cur))
         /\ J.dest \in Slot /\ J.before \in Content /\ J.before # Torn
  BY Marks, SlotNames DEF TypeOK, Durable, Works, Plans, J, Exists, Content

\* What is known of a running routine: its task, and the names it works on.
LEMMA RoutineFacts ==
  ASSUME TypeOK, Durable, sub.step # "none"
  PROVE  /\ Busy /\ sub \in Sub /\ sub.to \in Slot /\ sub.file \in Slot
         /\ \/ sub.op = "create" /\ sub.step \in {"create", "fill"}
               /\ \/ pc = "staged" /\ sub.to = Temp(cur) /\ sub.rev = J.next
                  \/ pc = "backed-up" /\ sub.to = Before(cur) /\ J.before # Absent
                  \/ pc = "aside-made" /\ sub.to = Roll(cur) /\ J.before # Absent
            \/ sub.op = "install" /\ pc \in {"install-done", "rec-installed"}
               /\ sub.file = Temp(cur) /\ sub.to = J.dest
            \/ sub.op = "install" /\ pc = "promoted" /\ sub.file = Temp(cur) /\ sub.to = Copy
            \/ sub.op = "install" /\ pc \in {"restored", "rethrow", "rec-restored"}
               /\ sub.file = Roll(cur) /\ sub.to = J.dest
            \/ sub.op = "remove" /\ sub.step \in Removal
               /\ \/ pc \in {"retire-temp", "rec-temp-removed"} /\ sub.file = Temp(cur)
                  \/ pc = "moved" /\ sub.file = Note /\ sub.rev = disk[Roll(cur)] /\ J.before # Absent
                  \/ pc \in {"promote", "log-committed", "rec-temp", "rec-extra"}
                     /\ sub.file = Roll(cur) /\ sub.rev = disk[Before(cur)]
  <1>1. Busy /\ sub \in Sub /\ sub.to \in Slot /\ sub.file \in Slot
    BY DEF TypeOK, Durable, Works, Sub
  <1> QED
    BY <1>1 DEF Durable, Task, Works, J

-----------------------------------------------------------------------------
(* The file routines.                                                      *)

\* An exclusive create uses a free name, or fails.
LEMMA CreateKeeps == TypeOK /\ Durable /\ CreateFile => Durable'
  <1> SUFFICES ASSUME TypeOK, Durable, CreateFile PROVE Durable'
    OBVIOUS
  <1> USE DEF Exists, J, Durable
  <1>f. UNCHANGED <<copies, residue, journal, history, mode, pc, cur, outcome, owed, latest, present, spent>>
    BY DEF CreateFile, ghost
  <1>t. cur \in Tx /\ sub \in Sub /\ disk \in [Slot -> Content] /\ journal \in [Tx -> Journal]
    BY DEF TypeOK
  <1>a. Busy /\ J.phase # "none" /\ sub.step = "create" /\ sub.to \in Slot
    BY <1>t DEF Works, CreateFile, Running, Sub
  <1>b. /\ J.dest = Note \/ (J.dest = Side(cur) /\ J.before = Absent /\ disk[Roll(cur)] = Absent)
        /\ J.before = Absent => disk[Roll(cur)] = Absent /\ disk[Before(cur)] = Absent
    BY <1>a, CurFacts
  <1>1. CASE ~NameFree(sub.to)
    <2>1. disk' = disk /\ sub' = NoSub /\ sub'.step = "none" /\ ok' = FALSE /\ sub'.op = "create" /\ sub'.file = Note
      BY <1>1 DEF CreateFile, NoSub, Return
    <2>2. sub.op = "install"
      BY <1>1, <1>a, RoutineFacts DEF Holds, NameFree, Removal
    <2>3. pc \in {"install-done", "rec-installed", "promoted", "restored", "rethrow", "rec-restored"}
      BY <1>a, <2>2, RoutineFacts
    <2>4. OthersKept
      BY <2>1 DEF OthersKept
    <2>5. disk[Claim] = Absent /\ (pc # "promoted" => disk[Copy] = Absent)
      BY <1>a DEF Holds, InClaim
    <2>6. Fresh' /\ Plans' /\ Retired'
      BY <1>f, <2>1 DEF Fresh, Plans, Retired
    <2>7. Works' /\ Task' /\ Holds'
      BY <1>f, <1>a, <2>1, <2>3, <2>5 DEF Works, Busy, Task, Holds, Unclaimed, InClaim, PreAside
    <2>8. RevKept' /\ Files' /\ Displaced'
      BY <1>f, <1>a, <2>1, <2>3 DEF RevKept, AlsoAt, Removal, Files, Displaced, At
    <2>9. Relied'
      BY <1>f, <2>1 DEF Relied, Spare
    <2>10. NoteHeld'
      <3>1. ~(NoteGone /\ disk[Roll(cur)] # Absent /\ PutsBack)
        BY <1>1, <1>b, <2>3, <1>a, <2>2, RoutineFacts DEF NoteGone, NameFree, PutsBack
      <3> QED
        BY <1>f, <1>a, <2>1, <3>1 DEF NoteHeld, NoteGone, Busy
    <2> QED
      BY <2>6, <2>7, <2>8, <2>9, <2>10
  <1>2. CASE NameFree(sub.to)
    <2>1. disk' = [disk EXCEPT ![sub.to] = Torn] /\ sub' = [sub EXCEPT !.step = "fill"] /\ disk[sub.to] = Absent
      BY <1>2 DEF CreateFile, NameFree
    <2>2. /\ \A s \in Slot : s # sub.to => disk'[s] = disk[s]
          /\ disk'[sub.to] = Torn
          /\ sub'.step = "fill" /\ sub'.op = sub.op /\ sub'.file = sub.file /\ sub'.to = sub.to /\ sub'.rev = sub.rev
      BY <1>t, <1>a, <2>1 DEF Sub
    <2>3. \/ sub.op = "create" /\ \/ pc = "staged" /\ sub.to = Temp(cur)
                                  \/ pc = "backed-up" /\ sub.to = Before(cur) /\ J.before # Absent
                                  \/ pc = "aside-made" /\ sub.to = Roll(cur) /\ J.before # Absent
          \/ sub.op = "install" /\ sub.to \in {Note, Side(cur), Copy} /\ sub.file \in {Temp(cur), Roll(cur)}
             /\ (sub.to = Copy => pc = "promoted")
             /\ pc \in {"install-done", "rec-installed", "promoted", "restored", "rethrow", "rec-restored"}
             /\ (pc # "promoted" => sub.to = J.dest)
      <3>1. J.dest \notin {Copy} /\ Side(cur) # Copy /\ Note # Copy
        BY <1>t, <1>b, CurNames
      <3> QED
        BY <1>a, <1>b, <3>1, RoutineFacts DEF Removal
    <2>4. OthersKept
      BY <2>2, <2>3, <1>t, Others DEF Reach, OwnNames
    <2>5. /\ disk'[Claim] = disk[Claim]
          /\ sub.to # Note => disk'[Note] = disk[Note]
          /\ sub.to # Copy => disk'[Copy] = disk[Copy]
          /\ sub.to # Temp(cur) => disk'[Temp(cur)] = disk[Temp(cur)]
          /\ sub.to # Roll(cur) => disk'[Roll(cur)] = disk[Roll(cur)]
          /\ sub.to # Before(cur) => disk'[Before(cur)] = disk[Before(cur)]
          /\ sub.to # Side(cur) => disk'[Side(cur)] = disk[Side(cur)]
          /\ sub.op = "install" => disk'[sub.file] = disk[sub.file]
      BY <1>t, <2>2, <2>3, CurNames DEF Reach, OwnNames
    <2>6. Torn # Absent
      BY Marks
    <2>7. /\ sub.op = "create" => sub.to \notin {Note, Copy}
          /\ sub.op = "install" => sub.to \notin {Temp(cur), Roll(cur), Before(cur)}
          /\ sub.to = Roll(cur) => sub.to # Before(cur) /\ sub.to # Temp(cur)
          /\ sub.to = Before(cur) => sub.to # Temp(cur) /\ sub.to # Roll(cur)
          /\ sub.to = Temp(cur) => sub.to # Before(cur) /\ sub.to # Roll(cur)
      BY <1>t, <2>3, CurNames
    <2>14. Fresh'
      BY <1>f, <1>a, <2>4 DEF Fresh, OthersKept
    <2>15. Plans'
      BY <1>f, <1>a, <2>3, <2>4, <2>5, <2>7 DEF Plans, OthersKept
    <2>16. Works'
      BY <1>f, <1>a, <2>2 DEF Works, Busy
    <2>17. Task'
      BY <1>f, <1>a, <2>2, <2>3 DEF Task, Removal
    <2>18. Holds'
      BY <1>f, <1>a, <2>2, <2>3, <2>5, <2>7 DEF Holds, Unclaimed, InClaim
    <2>19. RevKept'
      BY <1>f, <1>a, <2>2, <2>3 DEF RevKept, AlsoAt, Removal, Task
    <2>20. Files'
      BY <1>f, <1>a, <2>2, <2>3, <2>5, <2>6, <2>7 DEF Files, At, PreAside, HasTemp, NoTemp, RollSaved
    <2>21. Displaced'
      BY <1>f, <1>a, <2>3, <2>4, <2>5, <2>7 DEF Displaced, Works, PreAside, OthersKept
    <2>22. Retired'
      BY <1>f, <1>a, <2>4 DEF Retired, OthersKept
    <2>23. Relied'
      <3>1. ASSUME NEW s \in Slot, disk[s] # Absent, ~Spare(s) PROVE disk'[s] = disk[s] /\ ~Spare(s)'
        BY <3>1, <1>f, <1>t, <2>2, <2>1, <2>3, <2>4, <2>5, <2>7 DEF Spare, PreAside, OthersKept
      <3>2. \A v \in owed : v # Absent
        BY Marks DEF Relied
      <3> QED
        BY <3>1, <3>2, <1>f DEF Relied
    <2>24. NoteHeld'
      <3>1. NoteGone' => NoteGone /\ sub.to # Note
        BY <1>f, <2>2, <2>5, <2>6 DEF NoteGone
      <3>2. disk[Roll(cur)] # Absent => disk'[Roll(cur)] # Absent
        BY <2>2, <2>5, <2>6
      <3>3. NoteGone /\ sub.to # Note => ~(disk[Roll(cur)] # Absent /\ PutsBack)
        BY <1>a, <1>b, <2>3, <2>7 DEF PutsBack
      <3> QED
        BY <1>f, <1>a, <2>4, <3>1, <3>2, <3>3 DEF NoteHeld, Busy, OthersKept
    <2> QED
      BY <2>14, <2>15, <2>16, <2>17, <2>18, <2>19, <2>20, <2>21, <2>22, <2>23, <2>24
  <1> QED
    BY <1>1, <1>2

\* The write into a created file fills only what is still empty.
LEMMA FillKeeps == TypeOK /\ Durable /\ FillFile => Durable'
  <1> SUFFICES ASSUME TypeOK, Durable, FillFile PROVE Durable'
    OBVIOUS
  <1> USE DEF Exists, J, Durable
  <1>f. UNCHANGED <<copies, residue, journal, history, mode, pc, cur, outcome, owed, latest, present, spent>>
    BY DEF FillFile, ghost
  <1>t. cur \in Tx /\ sub \in Sub /\ disk \in [Slot -> Content] /\ journal \in [Tx -> Journal]
    BY DEF TypeOK
  <1>a. Busy /\ J.phase # "none" /\ sub.step = "fill" /\ sub.to \in Slot
    BY <1>t DEF Works, FillFile, Running, Sub
  <1>b. /\ J.dest = Note \/ (J.dest = Side(cur) /\ J.before = Absent /\ disk[Roll(cur)] = Absent)
        /\ J.before = Absent => disk[Roll(cur)] = Absent /\ disk[Before(cur)] = Absent
    BY <1>a, CurFacts
  <1>1. /\ sub.rev # Absent /\ Torn # Absent /\ Torn \notin Version
        /\ sub.op = "create" => disk[sub.to] = Torn
        /\ disk[Claim] = Absent /\ (pc # "promoted" => disk[Copy] = Absent)
    <2>1. sub.op # "remove"
      BY <1>a, RoutineFacts DEF Removal
    <2> QED
      BY <1>a, <2>1, Marks DEF Holds, Unclaimed, InClaim
  <1>2. /\ \A s \in Slot : s # sub.to => disk'[s] = disk[s]
        /\ disk'[sub.to] = IF disk[sub.to] = Torn THEN sub.rev ELSE disk[sub.to]
    BY <1>t, <1>a DEF FillFile
  <1>3. \A s \in Slot : /\ disk'[s] = Absent <=> disk[s] = Absent
                        /\ disk[s] \in Version => disk'[s] = disk[s]
    BY <1>1, <1>2
  <1>4. \/ sub.op = "create" /\ \/ pc = "staged" /\ sub.to = Temp(cur) /\ sub.rev = J.next
                                \/ pc = "backed-up" /\ sub.to = Before(cur) /\ J.before # Absent
                                \/ pc = "aside-made" /\ sub.to = Roll(cur) /\ J.before # Absent
        \/ sub.op = "install" /\ sub.to \in {Note, Side(cur), Copy} /\ sub.file \in {Temp(cur), Roll(cur)}
           /\ pc \in {"install-done", "rec-installed", "promoted", "restored", "rethrow", "rec-restored"}
    BY <1>a, <1>b, RoutineFacts DEF Removal
  <1>5. OthersKept
    BY <1>2, <1>4, <1>t, Others DEF Reach, OwnNames
  <1>6. /\ disk'[Claim] = disk[Claim]
        /\ sub.to # Temp(cur) => disk'[Temp(cur)] = disk[Temp(cur)]
        /\ sub.to # Roll(cur) => disk'[Roll(cur)] = disk[Roll(cur)]
        /\ sub.to # Before(cur) => disk'[Before(cur)] = disk[Before(cur)]
        /\ disk'[Copy] = Absent <=> disk[Copy] = Absent
        /\ disk'[Note] = Absent <=> disk[Note] = Absent
        /\ disk'[Temp(cur)] = Absent <=> disk[Temp(cur)] = Absent
        /\ disk'[Roll(cur)] = Absent <=> disk[Roll(cur)] = Absent
        /\ disk'[Before(cur)] = Absent <=> disk[Before(cur)] = Absent
        /\ sub.op = "install" => disk'[sub.file] = disk[sub.file]
    BY <1>t, <1>2, <1>3, <1>4, CurNames DEF Reach, OwnNames
  <1>7. /\ sub.op = "install" => sub.to \notin {Temp(cur), Roll(cur), Before(cur)}
        /\ sub.to = Roll(cur) => sub.to # Before(cur) /\ sub.to # Temp(cur)
        /\ sub.to = Before(cur) => sub.to # Temp(cur) /\ sub.to # Roll(cur)
        /\ sub.to = Temp(cur) => sub.to # Before(cur) /\ sub.to # Roll(cur)
    BY <1>t, <1>4, CurNames
  <1>8. \/ sub.op = "create" /\ sub'.step = "none" /\ sub'.op = "create" /\ sub'.file = Note
        \/ sub.op = "install" /\ sub'.step = "check" /\ sub'.op = "install" /\ sub'.file = sub.file
           /\ sub'.to = sub.to /\ sub'.rev = sub.rev
    BY <1>t, <1>4 DEF FillFile, Return, NoSub, Sub
  <1>14. Fresh' /\ Retired'
    BY <1>f, <1>a, <1>5 DEF Fresh, Retired, OthersKept
  <1>15. Plans'
    BY <1>f, <1>a, <1>5, <1>6 DEF Plans, OthersKept
  <1>16. Works'
    BY <1>f, <1>a, <1>8 DEF Works, Busy
  <1>17. Task'
    BY <1>f, <1>a, <1>4, <1>8 DEF Task, Removal
  <1>18. Holds'
    BY <1>f, <1>a, <1>1, <1>6, <1>8 DEF Holds, Unclaimed, InClaim
  <1>19. RevKept'
    BY <1>f, <1>a, <1>4, <1>8 DEF RevKept, AlsoAt, Removal
  <1>20. Files'
    BY <1>f, <1>a, <1>1, <1>2, <1>4, <1>6, <1>7, <1>8 DEF Files, At, PreAside, HasTemp, NoTemp, RollSaved
  <1>21. Displaced'
    BY <1>f, <1>a, <1>4, <1>5, <1>6, <1>7 DEF Displaced, Works, PreAside, OthersKept
  <1>22. Relied'
    <2>1. ASSUME NEW s \in Slot, ~Spare(s) PROVE ~Spare(s)'
      BY <2>1, <1>f, <1>6, <1>5 DEF Spare, OthersKept
    <2> QED
      BY <2>1, <1>3, <1>f DEF Relied
  <1>23. NoteHeld'
    BY <1>f, <1>a, <1>4, <1>5, <1>6 DEF NoteHeld, NoteGone, PutsBack, Busy, OthersKept
  <1> QED
    BY <1>14, <1>15, <1>16, <1>17, <1>18, <1>19, <1>20, <1>21, <1>22, <1>23

\* An install whose target holds the staged bytes has put the note in place.
LEMMA CheckKeeps == TypeOK /\ Durable /\ CheckInstalled => Durable'
  <1> SUFFICES ASSUME TypeOK, Durable, CheckInstalled PROVE Durable'
    OBVIOUS
  <1> USE DEF Exists, J, Durable
  <1>f. /\ UNCHANGED <<disk, copies, residue, journal, history, mode, pc, cur, outcome, owed, latest, spent>>
        /\ present' = (present \/ (sub.to = Note /\ disk[Note] = sub.rev))
    BY DEF CheckInstalled, durable
  <1>t. cur \in Tx /\ sub \in Sub
    BY DEF TypeOK
  <1>a. Busy /\ sub.step = "check"
    BY DEF Works, CheckInstalled, Running
  <1>1. sub.op = "install" /\ pc \in {"install-done", "rec-installed", "promoted", "restored", "rethrow", "rec-restored"}
    BY <1>a, RoutineFacts DEF Removal
  <1>2. sub.rev # Absent /\ disk[Claim] = Absent
    BY <1>a, <1>1 DEF Holds, Unclaimed, InClaim
  <1>3. \/ /\ disk[sub.to] = sub.rev
           /\ sub'.step = "validate" /\ sub'.op = "install" /\ sub'.file = sub.file /\ sub'.to = sub.to
           /\ sub'.rev = sub.rev
        \/ sub'.step = "none" /\ sub'.op = "create" /\ sub'.file = Note /\ ok' = FALSE
    BY <1>t, <1>1 DEF CheckInstalled, Verified, Return, NoSub, Sub
  <1>4. Fresh' /\ Plans' /\ Displaced' /\ Retired'
    BY <1>f DEF Fresh, Plans, Displaced, Retired
  <1>5. Works' /\ Task'
    BY <1>f, <1>a, <1>1, <1>3 DEF Works, Busy, Task, Removal
  <1>6. Holds'
    BY <1>f, <1>a, <1>1, <1>2, <1>3 DEF Holds, Unclaimed, InClaim
  <1>7. RevKept' /\ Files'
    BY <1>f, <1>a, <1>1, <1>3 DEF RevKept, AlsoAt, Backup, Removal, Files, At
  <1>8. Relied'
    BY <1>f DEF Relied, Spare
  <1>9. NoteHeld'
    BY <1>f, <1>a, <1>1, <1>2 DEF NoteHeld, NoteGone, PutsBack, Busy
  <1> QED
    BY <1>4, <1>5, <1>6, <1>7, <1>8, <1>9

\* A removal first reads the name: another writer's bytes stop it.
LEMMA ValidateKeeps == TypeOK /\ Durable /\ ValidateClaim => Durable'
  <1> SUFFICES ASSUME TypeOK, Durable, ValidateClaim PROVE Durable'
    OBVIOUS
  <1> USE DEF Exists, J, Durable
  <1>f. UNCHANGED <<disk, copies, residue, journal, history, mode, pc, cur, outcome, owed, latest, present, spent>>
    BY DEF ValidateClaim, durable, ghost
  <1>t. cur \in Tx /\ sub \in Sub
    BY DEF TypeOK
  <1>a. Busy /\ sub.step = "validate"
    BY DEF Works, ValidateClaim, Running
  <1>1. disk[Claim] = Absent /\ (sub.file # Note => disk[sub.file] = sub.rev) /\ sub.op # "create"
    BY <1>a, RoutineFacts DEF Holds, Unclaimed, InClaim
  <1>2. \/ /\ sub'.step = "claim" /\ sub'.op = sub.op /\ sub'.file = sub.file /\ sub'.to = sub.to
           /\ sub'.rev = sub.rev
        \/ /\ sub'.step = "none" /\ sub'.op = "create" /\ sub'.file = Note /\ ok' = FALSE
           /\ sub.file = Note
    BY <1>t, <1>1 DEF ValidateClaim, Return, NoSub, Sub
  <1>3. sub.file = Note => pc = "moved"
    BY <1>t, <1>a, CurNames, RoutineFacts
  <1>4. Fresh' /\ Plans' /\ Displaced' /\ Retired'
    BY <1>f DEF Fresh, Plans, Displaced, Retired
  <1>5. Works' /\ Task'
    BY <1>f, <1>a, <1>1, <1>2, <1>3 DEF Works, Busy, Task, Removal, PreAside
  <1>6. Holds'
    BY <1>f, <1>a, <1>1, <1>2 DEF Holds, Unclaimed, InClaim
  <1>7. RevKept'
    BY <1>f, <1>a, <1>2, <1>3 DEF RevKept, AlsoAt, Backup, Removal
  <1>8. Files'
    BY <1>f, <1>a, <1>2, <1>3 DEF Files, At
  <1>9. Relied'
    BY <1>f DEF Relied, Spare
  <1>10. NoteHeld'
    BY <1>f, <1>a DEF NoteHeld, NoteGone, PutsBack, Busy
  <1> QED
    BY <1>4, <1>5, <1>6, <1>7, <1>8, <1>9, <1>10

\* The move under the quarantine name takes the bytes along.
LEMMA TakeKeeps == TypeOK /\ Durable /\ TakeClaim => Durable'
  <1> SUFFICES ASSUME TypeOK, Durable, TakeClaim PROVE Durable'
    OBVIOUS
  <1> USE DEF Exists, J, Durable
  <1>f. UNCHANGED <<copies, residue, journal, history, mode, pc, cur, outcome, owed, latest, present, spent>>
    BY DEF TakeClaim, ghost
  <1>t. cur \in Tx /\ sub \in Sub /\ disk \in [Slot -> Content] /\ sub.file \in Slot
    BY DEF TypeOK, Sub
  <1>a. Busy /\ J.phase # "none" /\ sub.step = "claim"
    BY DEF Works, TakeClaim, Running
  <1>b. /\ J.dest = Note \/ (J.dest = Side(cur) /\ J.before = Absent /\ disk[Roll(cur)] = Absent)
        /\ J.before = Absent => disk[Roll(cur)] = Absent /\ disk[Before(cur)] = Absent
    BY <1>a, CurFacts
  <1>c. \/ sub.op = "install" /\ pc \in {"install-done", "rec-installed"} /\ sub.file = Temp(cur) /\ sub.to = J.dest
        \/ sub.op = "install" /\ pc = "promoted" /\ sub.file = Temp(cur) /\ sub.to = Copy
        \/ sub.op = "install" /\ pc \in {"restored", "rethrow", "rec-restored"}
           /\ sub.file = Roll(cur) /\ sub.to = J.dest
        \/ sub.op = "remove" /\ pc \in {"retire-temp", "rec-temp-removed"} /\ sub.file = Temp(cur)
        \/ sub.op = "remove" /\ pc = "moved" /\ sub.file = Note /\ sub.rev = disk[Roll(cur)] /\ J.before # Absent
        \/ sub.op = "remove" /\ pc \in {"promote", "log-committed", "rec-temp", "rec-extra"}
           /\ sub.file = Roll(cur) /\ sub.rev = disk[Before(cur)]
    BY <1>a, RoutineFacts
  <1>1. disk[Claim] = Absent /\ (sub.file # Note => disk[sub.file] = sub.rev)
        /\ (pc # "promoted" => disk[Copy] = Absent)
        /\ (sub.op # "remove" => sub.rev # Absent)
    BY <1>a, <1>c DEF Holds, Unclaimed, InClaim
  <1>2. sub.file = Note => pc = "moved" /\ sub.op = "remove"
    BY <1>t, <1>c, CurNames
  <1>3. CASE ~Exists(sub.file)
    <2>1. disk' = disk /\ sub'.step = "none" /\ sub'.op = "create" /\ sub'.file = Note /\ ok' = FALSE
      BY <1>3 DEF TakeClaim, Return, NoSub
    <2>4. Fresh' /\ Plans' /\ Displaced' /\ Retired'
      BY <1>f, <2>1 DEF Fresh, Plans, Displaced, Retired
    <2>5. Works' /\ Task'
      BY <1>f, <1>a, <1>c, <2>1 DEF Works, Busy, Task
    <2>6. Holds'
      BY <1>f, <1>a, <1>1, <2>1 DEF Holds, InClaim, Unclaimed
    <2>7. RevKept' /\ Files'
      BY <1>f, <1>a, <1>3, <1>c, <2>1 DEF RevKept, AlsoAt, Removal, Files, At
    <2>8. Relied'
      BY <1>f, <2>1 DEF Relied, Spare
    <2>9. NoteHeld'
      BY <1>f, <1>a, <1>c, <2>1 DEF NoteHeld, NoteGone, PutsBack, Busy
    <2> QED
      BY <2>4, <2>5, <2>6, <2>7, <2>8, <2>9
  <1>4. CASE Exists(sub.file)
    <2>1. /\ disk' = [disk EXCEPT ![Claim] = disk[sub.file], ![sub.file] = Absent]
          /\ sub' = [sub EXCEPT !.step = "inspect"]
      BY <1>4 DEF TakeClaim
    <2>2. /\ sub.file # Claim /\ Claim \in Slot
          /\ sub'.step = "inspect" /\ sub'.op = sub.op /\ sub'.file = sub.file /\ sub'.to = sub.to /\ sub'.rev = sub.rev
      BY <1>t, <1>4, <1>1, <2>1, SlotNames DEF Sub
    <2>3. /\ \A s \in Slot \ {Claim, sub.file} : disk'[s] = disk[s]
          /\ disk'[Claim] = disk[sub.file] /\ disk'[sub.file] = Absent
      BY <1>t, <2>1, <2>2
    <2>4. OthersKept
      BY <1>t, <1>c, <2>3, Others DEF Reach, OwnNames
    <2>5. /\ disk'[Copy] = disk[Copy] /\ disk'[Before(cur)] = disk[Before(cur)]
          /\ disk'[Side(cur)] = disk[Side(cur)]
          /\ sub.file # Note => disk'[Note] = disk[Note]
          /\ sub.file # Temp(cur) => disk'[Temp(cur)] = disk[Temp(cur)]
          /\ sub.file # Roll(cur) => disk'[Roll(cur)] = disk[Roll(cur)]
          /\ disk'[Roll(cur)] # Absent => disk[Roll(cur)] # Absent
          /\ disk'[Temp(cur)] # Absent => disk[Temp(cur)] # Absent
          /\ sub.op = "install" => disk'[sub.to] = disk[sub.to]
      BY <1>t, <1>b, <1>c, <2>3, CurNames DEF Reach, OwnNames
    <2>6. /\ sub.file = Note => sub.file # Roll(cur) /\ sub.file # Temp(cur)
          /\ sub.file = Roll(cur) => sub.file # Note /\ sub.file # Temp(cur)
          /\ sub.file = Temp(cur) => sub.file # Note /\ sub.file # Roll(cur)
      BY <1>t, CurNames
    <2>14. Fresh' /\ Retired'
      BY <1>f, <1>a, <2>4 DEF Fresh, Retired, OthersKept
    <2>15. Plans'
      BY <1>f, <1>a, <2>4, <2>5 DEF Plans, OthersKept
    <2>16. Works'
      BY <1>f, <1>a, <2>2 DEF Works, Busy
    <2>17. Task'
      BY <1>f, <1>a, <1>c, <2>2, <2>5, <2>6 DEF Task, Removal
    <2>18. Holds'
      BY <1>f, <1>a, <1>c, <1>1, <1>4, <2>2, <2>3, <2>5 DEF Holds, Unclaimed, InClaim
    <2>19. RevKept'
      <3>1. Backup' = Backup
        BY <1>f, <2>2 DEF Backup
      <3>2. disk'[Backup] = disk[Backup]
        BY <1>b, <1>c, <2>5, <2>6 DEF Backup
      <3>3. pc \notin {"rec-keep-temp", "rec-temp"} \/ disk'[J.dest] = disk[J.dest]
        BY <1>b, <1>c, <2>5, <2>6
      <3>4. pc = "rec-temp" => sub.file # Note
        BY <1>c, <1>2
      <3>5. AlsoAt(sub.rev, Backup)
        BY <1>a DEF RevKept, Removal
      <3> QED
        BY <1>f, <1>a, <2>2, <3>1, <3>2, <3>3, <3>4, <3>5 DEF RevKept, AlsoAt
    <2>20. Files'
      BY <1>f, <1>a, <1>c, <2>2, <2>3, <2>5, <2>6 DEF Files, At, PreAside, HasTemp, NoTemp, RollSaved
    <2>21. Displaced'
      BY <1>f, <1>a, <1>c, <2>3, <2>4, <2>5, <2>6 DEF Displaced, OthersKept
    <2>22. Relied'
      <3>1. ASSUME NEW s \in Slot, ~Spare(s) PROVE ~Spare(s)'
        BY <3>1, <1>f, <2>4, <2>5 DEF Spare, OthersKept
      <3>2. ~Spare(Claim)'
        BY NamesApart DEF Spare
      <3>3. ASSUME NEW v \in owed, NEW s \in Slot, disk[s] = v, ~Spare(s)
            PROVE  \E r \in Slot : disk'[r] = v /\ ~Spare(r)'
        <4>1. CASE s = sub.file
          BY <4>1, <3>2, <3>3, <2>2, <2>3
        <4>2. CASE s = Claim
          BY <4>2, <3>3, <1>1, Marks DEF Relied
        <4>3. CASE s \notin {Claim, sub.file}
          BY <4>3, <3>1, <3>3, <2>3
        <4> QED
          BY <4>1, <4>2, <4>3
      <3> QED
        BY <3>3, <1>f DEF Relied
    <2>23. NoteHeld'
      <3>1. pc = "moved" => disk'[Roll(cur)] # Absent
        BY <1>t, <1>c, <2>5, <2>6 DEF Files, At
      <3>2. pc # "moved" => ~PutsBack /\ disk'[Note] = disk[Note]
        BY <1>a, <1>c, <1>2, <2>5 DEF PutsBack
      <3> QED
        BY <1>f, <1>a, <1>t, <2>2, <2>4, <3>1, <3>2 DEF NoteHeld, NoteGone, PutsBack, Busy, OthersKept
    <2> QED
      BY <2>14, <2>15, <2>16, <2>17, <2>18, <2>19, <2>20, <2>21, <2>22, <2>23
  <1> QED
    BY <1>3, <1>4

\* Reading the claim: only the note's can hold somebody else's bytes, and
\* they go back unless the name is taken.
LEMMA InspectKeeps == TypeOK /\ Durable /\ (InspectClaim \/ ReinspectClaim) => Durable'
  <1> SUFFICES ASSUME TypeOK, Durable, InspectClaim \/ ReinspectClaim PROVE Durable'
    OBVIOUS
  <1> USE DEF Exists, J, Durable
  <1>f. UNCHANGED <<disk, copies, residue, journal, history, mode, pc, cur, outcome, owed, latest, present, spent>>
    BY DEF InspectClaim, ReinspectClaim, durable, ghost
  <1>t. cur \in Tx /\ sub \in Sub
    BY DEF TypeOK
  <1>a. Busy /\ sub.step \in {"inspect", "reinspect"}
    BY DEF Works, InspectClaim, ReinspectClaim, Running
  <1>1. /\ sub.op # "create" /\ disk[Claim] # Absent
        /\ sub.file # Note => disk[Claim] = sub.rev /\ disk[sub.file] = Absent
        /\ sub.file = Note => pc = "moved" /\ sub.op = "remove"
    <2>1. sub.op # "create" /\ (sub.file = Note => pc = "moved" /\ sub.op = "remove")
      BY <1>t, <1>a, RoutineFacts, CurNames
    <2> QED
      BY <1>a, <2>1 DEF Holds, InClaim
  <1>2. /\ sub'.op = sub.op /\ sub'.file = sub.file /\ sub'.to = sub.to /\ sub'.rev = sub.rev
        /\ \/ sub'.step = "reinspect"
           \/ sub'.step = "settle" /\ disk[Claim] = sub.rev
           \/ sub'.step = "putback" /\ sub.file = Note /\ sub'.bytes = disk[Claim]
           \/ sub'.step = "settle-failed" /\ sub.file = Note /\ disk[Note] # Absent
    BY <1>t, <1>1 DEF InspectClaim, ReinspectClaim, GiveBack, Sub
  <1>3. Fresh' /\ Plans' /\ Displaced' /\ Retired'
    BY <1>f DEF Fresh, Plans, Displaced, Retired
  <1>4. Works'
    BY <1>f, <1>a, <1>2 DEF Works, Busy
  <1>5. Task'
    BY <1>f, <1>a, <1>1, <1>2 DEF Task, Removal
  <1>6. Holds'
    BY <1>f, <1>a, <1>1, <1>2 DEF Holds, InClaim, Unclaimed
  <1>7. RevKept'
    <2>1. Backup' = Backup
      BY <1>f, <1>2 DEF Backup
    <2> QED
      BY <1>f, <1>a, <1>2, <2>1 DEF RevKept, AlsoAt, Removal
  <1>8. Files'
    BY <1>f, <1>a, <1>2 DEF Files, At
  <1>9. Relied'
    BY <1>f DEF Relied, Spare
  <1>10. NoteHeld'
    <2>1. NoteGone /\ PutsBack => pc = "moved" /\ sub'.step \in {"reinspect", "settle", "putback"}
      BY <1>a, <1>2, RoutineFacts DEF NoteGone, PutsBack
    <2> QED
      BY <1>f, <1>a, <2>1 DEF NoteHeld, NoteGone, PutsBack, Busy
  <1> QED
    BY <1>3, <1>4, <1>5, <1>6, <1>7, <1>8, <1>9, <1>10

\* Giving the note's claim its name back: a free name is created, then
\* filled while it is empty.
LEMMA PutKeeps == TypeOK /\ Durable /\ (PutBack \/ PutFill) => Durable'
  <1> SUFFICES ASSUME TypeOK, Durable, PutBack \/ PutFill PROVE Durable'
    OBVIOUS
  <1> USE DEF Exists, J, Durable
  <1>f. UNCHANGED <<copies, residue, journal, history, mode, pc, cur, ok, outcome, owed, latest, present, spent>>
    BY DEF PutBack, PutFill, ghost
  <1>t. cur \in Tx /\ sub \in Sub /\ disk \in [Slot -> Content] /\ Note \in Slot
    BY SlotNames DEF TypeOK
  <1>a. Busy /\ sub.step \in {"putback", "putfill"}
    BY DEF Works, PutBack, PutFill, Running
  <1>1. /\ sub.op = "remove" /\ sub.file = Note /\ pc = "moved"
        /\ disk[Claim] # Absent /\ sub.bytes # Absent /\ Torn # Absent /\ Torn \notin Version
    <2>1. sub.op # "create" /\ (sub.file = Note => pc = "moved" /\ sub.op = "remove")
      BY <1>t, <1>a, RoutineFacts, CurNames
    <2> QED
      BY <1>a, <2>1, Marks DEF Holds, InClaim
  <1>2. /\ sub'.op = sub.op /\ sub'.file = sub.file /\ sub'.to = sub.to /\ sub'.rev = sub.rev
        /\ sub'.step \in {"putfill", "settle-failed"} /\ sub'.bytes = sub.bytes
    BY <1>t DEF PutBack, PutFill, Sub
  <1>3. /\ \A s \in Slot : s # Note => disk'[s] = disk[s]
        /\ disk[Note] \notin {Absent, Torn} => disk'[Note] = disk[Note]
        /\ disk[Note] # Absent => disk'[Note] # Absent
        /\ sub.step = "putback" => disk'[Note] # Absent
    BY <1>t, <1>1 DEF PutBack, PutFill, Running
  <1>4. OthersKept
    BY <1>t, <1>3, Others DEF Reach, OwnNames
  <1>5. /\ disk'[Temp(cur)] = disk[Temp(cur)] /\ disk'[Roll(cur)] = disk[Roll(cur)]
        /\ disk'[Before(cur)] = disk[Before(cur)] /\ disk'[Side(cur)] = disk[Side(cur)]
        /\ disk'[Copy] = disk[Copy] /\ disk'[Claim] = disk[Claim]
    BY <1>t, <1>3, CurNames DEF Reach, OwnNames
  <1>14. Fresh' /\ Retired'
    BY <1>f, <1>4, <1>5 DEF Fresh, Retired, OthersKept
  <1>15. Plans'
    BY <1>f, <1>4, <1>5 DEF Plans, OthersKept
  <1>16. Works'
    BY <1>f, <1>a, <1>2 DEF Works, Busy
  <1>17. Task'
    BY <1>f, <1>a, <1>1, <1>2, <1>5 DEF Task, Removal
  <1>18. Holds'
    BY <1>f, <1>a, <1>1, <1>2, <1>5 DEF Holds, InClaim, Unclaimed
  <1>19. RevKept'
    BY <1>f, <1>a, <1>1, <1>2, <1>5 DEF RevKept, AlsoAt, Backup, Removal
  <1>20. Files'
    BY <1>f, <1>a, <1>1, <1>2, <1>5 DEF Files, At, PreAside, HasTemp, NoTemp, RollSaved
  <1>21. Displaced'
    BY <1>f, <1>4, <1>5 DEF Displaced, OthersKept
  <1>22. Relied'
    <2>1. ASSUME NEW s \in Slot, ~Spare(s) PROVE ~Spare(s)'
      BY <2>1, <1>f, <1>4, <1>5 DEF Spare, OthersKept
    <2>2. \A s \in Slot : disk[s] \in Version => disk'[s] = disk[s]
      BY <1>3, <1>1, Marks
    <2> QED
      BY <2>1, <2>2, <1>f DEF Relied
  <1>23. NoteHeld'
    BY <1>f, <1>a, <1>3, <1>4, <1>5 DEF NoteHeld, NoteGone, PutsBack, Busy, OthersKept
  <1> QED
    BY <1>14, <1>15, <1>16, <1>17, <1>18, <1>19, <1>20, <1>21, <1>22, <1>23

\* The claim is dropped only if its bytes are also where the task put them.
LEMMA SettleKeeps == TypeOK /\ Durable /\ SettleClaim => Durable'
  <1> SUFFICES ASSUME TypeOK, Durable, SettleClaim PROVE Durable'
    OBVIOUS
  <1> USE DEF Exists, J, Durable
  <1>f. /\ UNCHANGED <<copies, journal, history, mode, pc, cur, outcome, owed, latest, present, spent>>
        /\ sub' = NoSub /\ sub'.step = "none" /\ sub'.op = "create" /\ sub'.file = Note
        /\ ok' = (sub.step = "settle" /\ disk[Claim] = sub.rev)
        /\ residue' = residue \cup ({disk[Claim]} \ {sub.rev, Absent})
    BY DEF SettleClaim, ghost, Return, NoSub, Running, Kept
  <1>t. cur \in Tx /\ sub \in Sub /\ disk \in [Slot -> Content] /\ Claim \in Slot /\ journal \in [Tx -> Journal]
    BY SlotNames DEF TypeOK
  <1>a. Busy /\ sub.step \in {"settle", "settle-failed"} /\ J.phase # "none"
    BY DEF Works, SettleClaim, Running
  <1>b. /\ J.dest = Note \/ (J.dest = Side(cur) /\ J.before = Absent /\ disk[Roll(cur)] = Absent)
        /\ J.before = Absent => disk[Roll(cur)] = Absent /\ disk[Before(cur)] = Absent
    BY <1>a, CurFacts
  <1>c. \/ sub.op = "install" /\ pc \in {"install-done", "rec-installed"} /\ sub.file = Temp(cur) /\ sub.to = J.dest
        \/ sub.op = "install" /\ pc = "promoted" /\ sub.file = Temp(cur) /\ sub.to = Copy
        \/ sub.op = "install" /\ pc \in {"restored", "rethrow", "rec-restored"}
           /\ sub.file = Roll(cur) /\ sub.to = J.dest
        \/ sub.op = "remove" /\ pc \in {"retire-temp", "rec-temp-removed"} /\ sub.file = Temp(cur)
        \/ sub.op = "remove" /\ pc = "moved" /\ sub.file = Note /\ sub.rev = disk[Roll(cur)] /\ J.before # Absent
        \/ sub.op = "remove" /\ pc \in {"promote", "log-committed", "rec-temp", "rec-extra"}
           /\ sub.file = Roll(cur) /\ sub.rev = disk[Before(cur)]
    BY <1>a, RoutineFacts
  <1>1. /\ disk[Claim] # Absent /\ (pc # "promoted" => disk[Copy] = Absent)
        /\ sub.file # Note => disk[sub.file] = Absent /\ sub.step = "settle"
        /\ sub.step = "settle" /\ spent.late = 0 => disk[Claim] = sub.rev
    BY <1>a, <1>c DEF Holds, InClaim
  <1>2. sub.file = Note => pc = "moved"
    BY <1>t, <1>c, CurNames
  <1>3. /\ \A s \in Slot : s # Claim => disk'[s] = disk[s]
        /\ disk'[Claim] = Absent
    BY <1>t DEF SettleClaim
  <1>4. OthersKept
    BY <1>t, <1>3, Others DEF Reach, OwnNames
  <1>5. /\ disk'[Temp(cur)] = disk[Temp(cur)] /\ disk'[Roll(cur)] = disk[Roll(cur)]
        /\ disk'[Before(cur)] = disk[Before(cur)] /\ disk'[Side(cur)] = disk[Side(cur)]
        /\ disk'[Copy] = disk[Copy] /\ disk'[Note] = disk[Note]
    BY <1>t, <1>3, CurNames DEF Reach, OwnNames
  <1>14. Fresh' /\ Retired'
    BY <1>f, <1>4, <1>5 DEF Fresh, Retired, OthersKept
  <1>15. Plans'
    BY <1>f, <1>4, <1>5 DEF Plans, OthersKept
  <1>16. Works' /\ Task'
    BY <1>f, <1>a DEF Works, Busy, Task
  <1>18. Holds'
    BY <1>f, <1>1, <1>3, <1>5 DEF Holds, InClaim, Unclaimed
  <1>19. RevKept'
    BY <1>f, <1>b, <1>5 DEF RevKept, AlsoAt, Removal
  <1>20. Files'
    BY <1>f, <1>a, <1>c, <1>1, <1>2, <1>5 DEF Files, At, PreAside, HasTemp, NoTemp, RollSaved
  <1>21. Displaced'
    BY <1>f, <1>4, <1>5 DEF Displaced, OthersKept
  <1>22. Relied'
    <2>1. ASSUME NEW s \in Slot, ~Spare(s) PROVE ~Spare(s)'
      BY <2>1, <1>f, <1>4, <1>5 DEF Spare, OthersKept
    <2>2. ASSUME sub.rev \in owed
          PROVE  Backup \in Slot /\ disk[Backup] = sub.rev /\ Backup # Claim /\ ~Spare(Backup)
      <3>1. disk[Backup] = sub.rev
        BY <1>a, <2>2 DEF RevKept, AlsoAt, Removal
      <3>2. Backup \in {Note, Side(cur), Copy, Roll(cur)} \/ (Backup = Before(cur) /\ sub.file = Roll(cur))
        BY <1>t, <1>b, <1>c, CurNames DEF Backup
      <3>3. Backup \in Slot /\ Backup # Claim
        BY <1>t, <3>2, CurNames, SlotNames
      <3>4. Backup \in {Note, Side(cur), Copy, Roll(cur)} => \A t \in Tx : Backup # Before(t)
        BY <1>t, NamesApart
      <3>5. sub.file = Roll(cur) => disk[Roll(cur)] = Absent /\ pc \notin PreAside
        BY <1>t, <1>c, <1>1, CurNames DEF PreAside
      <3>6. \A t \in Tx : t # cur => Before(t) # Before(cur)
        BY <1>t, NamesApart
      <3> QED
        BY <1>t, <3>1, <3>2, <3>3, <3>4, <3>5, <3>6 DEF Spare
    <2>3. ASSUME NEW v \in owed, NEW s \in Slot, disk[s] = v, ~Spare(s)
          PROVE  v \in copies' \cup residue' \/ \E r \in Slot : disk'[r] = v /\ ~Spare(r)'
      <3>1. CASE s # Claim
        BY <3>1, <2>1, <2>3, <1>3
      <3>2. CASE s = Claim /\ v # sub.rev
        BY <3>2, <2>3, <1>f, <1>1
      <3>3. CASE s = Claim /\ v = sub.rev
        <4>1. Backup \in Slot /\ disk[Backup] = v /\ Backup # Claim /\ ~Spare(Backup)
          BY <2>2, <2>3, <3>3
        <4>2. PICK b \in Slot : disk[b] = v /\ b # Claim /\ ~Spare(b)
          BY <4>1
        <4> QED
          BY <4>2, <2>1, <1>3
      <3> QED
        BY <3>1, <3>2, <3>3
    <2> QED
      BY <2>3, <1>f DEF Relied
  <1>23. NoteHeld'
    <2>1. NoteGone /\ PutsBack => pc = "moved" /\ ok'
      BY <1>f, <1>a, <1>c, <1>1 DEF NoteGone, PutsBack
    <2> QED
      BY <1>f, <1>a, <1>4, <1>5, <2>1 DEF NoteHeld, NoteGone, PutsBack, Busy, OthersKept
  <1> QED
    BY <1>14, <1>15, <1>16, <1>18, <1>19, <1>20, <1>21, <1>22, <1>23

\* A step of a file routine.
LEMMA RoutineKeeps == TypeOK /\ Durable /\ Routine => Durable'
  BY CreateKeeps, FillKeeps, CheckKeeps, ValidateKeeps, TakeKeeps, InspectKeeps, PutKeeps, SettleKeeps
     DEF Routine

-----------------------------------------------------------------------------
(* The transaction code.                                                   *)

\* No journal comes or goes, or changes what it plans.
JournalsKept == \A t \in Tx :
  /\ journal'[t].dest = journal[t].dest /\ journal'[t].before = journal[t].before
  /\ journal'[t].next = journal[t].next
  /\ journal'[t].phase = "none" <=> journal[t].phase = "none"
  /\ journal'[t].phase \in Done /\ t # cur => journal[t].phase \in Done

\* Logging a phase other than "none" in a pending journal keeps the journals.
LEMMA LogsPhase ==
  ASSUME TypeOK, NEW p \in Phase, p # "none", J.phase # "none",
         journal' = [journal EXCEPT ![cur].phase = p]
  PROVE  /\ JournalsKept /\ journal'[cur].phase = p
         /\ journal'[cur].dest = J.dest /\ journal'[cur].before = J.before /\ journal'[cur].next = J.next
  BY DEF TypeOK, Journal, J, JournalsKept

\* A step that leaves the files alone keeps what they mean, if it goes on
\* putting back a note that is missing.
LEMMA QuietStep ==
  ASSUME TypeOK, Durable, JournalsKept,
         UNCHANGED <<disk, copies, residue, present, spent, cur>>,
         \A t \in Tx : history'[t] = "none" => history[t] = "none",
         owed' \subseteq owed \/ (owed' \subseteq owed \cup {J.next} /\ J.next \in Version /\ disk[Temp(cur)] = J.next),
         pc' \in PreAside => pc \in PreAside,
         NoteGone /\ Exists(Roll(cur)) /\ (Busy => PutsBack) => (Busy' => PutsBack')
  PROVE  Fresh' /\ Plans' /\ Retired' /\ Relied' /\ NoteHeld'
  <1> USE DEF Durable, Exists
  <1>1. Fresh'
    BY DEF Fresh, JournalsKept
  <1>2. Plans' /\ Retired'
    BY DEF Plans, Retired, JournalsKept
  <1>3. Relied'
    <2>1. ASSUME NEW s \in Slot, ~Spare(s) PROVE ~Spare(s)'
      BY <2>1 DEF Spare
    <2>2. Temp(cur) \in Slot /\ ~Spare(Temp(cur))'
      BY NamesApart, SlotNames DEF Spare, TypeOK
    <2> QED
      BY <2>1, <2>2 DEF Relied
  <1>4. NoteHeld'
    BY DEF NoteHeld, NoteGone, JournalsKept
  <1> QED
    BY <1>1, <1>2, <1>3, <1>4

\* Between the routines no claim is taken, and no conflict copy is being made
\* unless its install has just ended.
LEMMA AtFacts ==
  ASSUME TypeOK, Durable, sub.step = "none"
  PROVE  /\ disk[Claim] = Absent /\ (pc # "promoted" => disk[Copy] = Absent)
         /\ cur \in Tx /\ Note \in Slot /\ Temp(cur) \in Slot /\ Roll(cur) \in Slot /\ Before(cur) \in Slot
         /\ disk \in [Slot -> Content] /\ journal \in [Tx -> Journal] /\ Torn # Absent
  BY SlotNames, Marks DEF TypeOK, Durable, Holds, InClaim, Exists

\* What a routine that has just been called works on.
LEMMA Started ==
  ASSUME NEW s, NEW f, NEW c
  PROVE  /\ Creating(s, c).op = "create" /\ Creating(s, c).step = "create"
         /\ Creating(s, c).file = s /\ Creating(s, c).to = s /\ Creating(s, c).rev = c
         /\ Installing(f, s).op = "install" /\ Installing(f, s).step = "create"
         /\ Installing(f, s).file = f /\ Installing(f, s).to = s /\ Installing(f, s).rev = disk[f]
         /\ Removing(s, c).op = "remove" /\ Removing(s, c).step = "validate"
         /\ Removing(s, c).file = s /\ Removing(s, c).to = s /\ Removing(s, c).rev = c
  BY DEF Creating, Installing, Removing, NoSub

\* The staging of the proposal and of the evidence.
LEMMA StagingKeeps ==
  TypeOK /\ Durable /\ (LogStaged \/ BackUp \/ LogBackedUp \/ FinalCheck \/ LogPrepared) => Durable'
  <1> SUFFICES ASSUME TypeOK, Durable, LogStaged \/ BackUp \/ LogBackedUp \/ FinalCheck \/ LogPrepared
               PROVE  Durable'
    OBVIOUS
  <1> USE DEF Exists, J, Durable
  <1>f. UNCHANGED <<disk, copies, residue, history, mode, cur, ok, present, spent>>
    BY DEF LogStaged, BackUp, LogBackedUp, FinalCheck, LogPrepared, Log, Conflict, Frame, ghost
  <1>a. /\ pc \in {"staged", "backup", "backed-up", "final", "prepare"} /\ sub.step = "none"
        /\ Busy /\ J.phase \notin Done \cup {"none"} /\ mode # "down"
    BY DEF LogStaged, BackUp, LogBackedUp, FinalCheck, LogPrepared, Log, At, Busy, Works, PreAside
  <1>b. J.next \in Version /\ J.before # Torn
        /\ (J.before = Absent => disk[Roll(cur)] = Absent /\ disk[Before(cur)] = Absent)
    BY <1>a, CurFacts
  <1>c. /\ disk[Roll(cur)] = Absent /\ disk[Temp(cur)] = J.next
        /\ pc \in {"staged", "backup"} => disk[Before(cur)] = Absent
    BY <1>a DEF Files, At, PreAside, HasTemp
  <1>1. /\ JournalsKept
        /\ journal'[cur].phase \notin Done \cup {"none"}
        /\ journal'[cur].dest = J.dest /\ journal'[cur].before = J.before /\ journal'[cur].next = J.next
    <2>1. CASE BackUp \/ FinalCheck
      BY <2>1, <1>a DEF BackUp, FinalCheck, JournalsKept
    <2>2. CASE LogStaged \/ LogBackedUp \/ LogPrepared
      <3>1. PICK p \in {"staged", "backed-up", "prepared"} : journal' = [journal EXCEPT ![cur].phase = p]
        BY <2>2 DEF LogStaged, LogBackedUp, LogPrepared, Log
      <3> QED
        BY <3>1, <1>a, LogsPhase DEF Phase, Done
    <2> QED
      BY <2>1, <2>2
  <1>2. \/ pc' \in {"final", "authorize", "prepare"} /\ sub' = sub
        \/ pc = "staged" /\ pc' = "backup" /\ sub' = sub
        \/ pc = "final" /\ pc' = "promote" /\ sub' = sub /\ outcome' = "conflict-copy"
        \/ pc = "backup" /\ pc' = "backed-up" /\ \/ sub' = sub
                                                 \/ /\ sub' = Creating(Before(cur), J.before) /\ J.before # Absent
    BY <1>a DEF LogStaged, BackUp, LogBackedUp, FinalCheck, LogPrepared, Log, Conflict, Go, Call, At
  <1>3. \/ owed' = owed
        \/ owed' = owed \cup {J.next}
    BY DEF LogStaged, BackUp, LogBackedUp, FinalCheck, LogPrepared, Log, Conflict, Frame, ghost
  <1>4. Fresh' /\ Plans' /\ Retired' /\ Relied' /\ NoteHeld'
    <2>1. pc \in PreAside /\ ~PutsBack
      BY <1>a DEF PreAside, PutsBack
    <2> QED
      BY <1>f, <1>a, <1>b, <1>c, <1>1, <1>3, <2>1, QuietStep
  <1>5. disk[Claim] = Absent /\ disk[Copy] = Absent /\ cur \in Tx
    BY <1>a, AtFacts
  <1>6. \/ sub'.step = "none"
        \/ /\ pc' = "backed-up" /\ disk[Before(cur)] = Absent /\ J.before # Absent
           /\ sub'.step = "create" /\ sub'.op = "create" /\ sub'.to = Before(cur) /\ sub'.rev = J.before
    BY <1>a, <1>c, <1>2, Started
  <1>7. Works'
    BY <1>f, <1>a, <1>1, <1>2 DEF Works, Busy, Decided, PreAside, Done
  <1>8. Task'
    BY <1>f, <1>a, <1>1, <1>6 DEF Task
  <1>9. Holds'
    BY <1>f, <1>2, <1>5, <1>6 DEF Holds, InClaim, Unclaimed
  <1>10. RevKept'
    BY <1>2, <1>6 DEF RevKept, Removal
  <1>11. Files'
    BY <1>f, <1>a, <1>c, <1>1, <1>2 DEF Files, At, PreAside, HasTemp, NoTemp, RollSaved
  <1>12. Displaced'
    BY <1>f, <1>1, <1>2 DEF Displaced, JournalsKept
  <1> QED
    BY <1>4, <1>7, <1>8, <1>9, <1>10, <1>11, <1>12

\* The proposal is authorized, and installed at once if there is no base.
LEMMA AuthorizeKeeps == TypeOK /\ Durable /\ (Authorize \/ Refuse) => Durable'
  <1> SUFFICES ASSUME TypeOK, Durable, Authorize \/ Refuse PROVE Durable'
    OBVIOUS
  <1> USE DEF Exists, J, Durable
  <1>f. UNCHANGED <<disk, copies, residue, journal, history, mode, cur, ok, outcome, present, spent>>
    BY DEF Authorize, Refuse, Frame, ghost, durable
  <1>a. /\ pc = "authorize" /\ sub.step = "none"
        /\ Busy /\ J.phase \notin Done \cup {"none"} /\ mode # "down"
    BY DEF Authorize, Refuse, At, Busy, Works, PreAside
  <1>b. /\ J.next # Absent
        /\ J.dest = Note \/ (J.dest = Side(cur) /\ J.before = Absent /\ disk[Roll(cur)] = Absent)
        /\ J.before = Absent => disk[Roll(cur)] = Absent /\ disk[Before(cur)] = Absent
    BY <1>a, CurFacts
  <1>c. disk[Roll(cur)] = Absent /\ disk[Temp(cur)] = J.next
    BY <1>a DEF Files, At, PreAside, HasTemp
  <1>n. Temp(cur) # Note /\ Temp(cur) # Roll(cur)
    BY <1>a, AtFacts, CurNames
  <1>1. /\ owed' \subseteq owed
        /\ \/ pc' = "install-done" /\ sub' = Installing(Temp(cur), J.dest) /\ J.before = Absent
           \/ pc' = "aside" /\ sub' = sub /\ J.before # Absent
           \/ pc' = "retire-temp" /\ sub' = Removing(Temp(cur), J.next) /\ J.dest = Note /\ J.next \notin owed'
    BY DEF Authorize, Refuse, Frame, ghost, Call, Go
  <1>2. Fresh' /\ Plans' /\ Retired' /\ Relied' /\ NoteHeld'
    <2>1. pc \in PreAside /\ ~PutsBack
      BY <1>a DEF PreAside, PutsBack
    <2>2. JournalsKept
      BY <1>f DEF JournalsKept
    <2> QED
      BY <1>f, <1>a, <1>1, <2>1, <2>2, QuietStep
  <1>3. disk[Claim] = Absent /\ disk[Copy] = Absent /\ cur \in Tx
    BY <1>a, AtFacts
  <1>4. \/ /\ pc' = "install-done" /\ J.before = Absent
           /\ sub'.step = "create" /\ sub'.op = "install" /\ sub'.file = Temp(cur) /\ sub'.to = J.dest
           /\ sub'.rev = J.next
        \/ pc' = "aside" /\ sub'.step = "none" /\ J.before # Absent
        \/ /\ pc' = "retire-temp" /\ J.dest = Note /\ J.next \notin owed'
           /\ sub'.step = "validate" /\ sub'.op = "remove" /\ sub'.file = Temp(cur) /\ sub'.rev = J.next
    BY <1>a, <1>c, <1>1, Started
  <1>7. Works'
    BY <1>f, <1>a, <1>4 DEF Works, Busy, Decided, PreAside, Done
  <1>8. Task'
    BY <1>f, <1>4 DEF Task, Removal
  <1>9. Holds'
    BY <1>f, <1>b, <1>c, <1>3, <1>4 DEF Holds, InClaim, Unclaimed
  <1>10. RevKept'
    BY <1>f, <1>4, <1>n DEF RevKept, AlsoAt, Backup, Removal
  <1>11. Files'
    BY <1>f, <1>a, <1>c, <1>4 DEF Files, At, PreAside, HasTemp, NoTemp, RollSaved
  <1>12. Displaced'
    BY <1>f, <1>b, <1>4 DEF Displaced
  <1> QED
    BY <1>2, <1>7, <1>8, <1>9, <1>10, <1>11, <1>12

\* The evidence of a withdrawn proposal goes before the note was touched.
LEMMA RefusedKeeps == TypeOK /\ Durable /\ RetireRefused => Durable'
  <1> SUFFICES ASSUME TypeOK, Durable, RetireRefused PROVE Durable'
    OBVIOUS
  <1> USE DEF Exists, J, Durable
  <1>f. /\ UNCHANGED <<copies, residue, journal, history, mode, cur, sub, ok, owed, present, spent>>
        /\ pc' = "archive" /\ outcome' = "rolled-back"
    BY DEF RetireRefused, Frame, ghost, Go
  <1>a. /\ pc = "retire-temp" /\ sub.step = "none"
        /\ Busy /\ J.phase \notin Done \cup {"none"} /\ mode # "down"
    BY DEF RetireRefused, At, Busy, Works, PreAside
  <1>c. disk[Roll(cur)] = Absent /\ disk[Temp(cur)] = Absent
    BY <1>a DEF Files, At, PreAside
  <1>t. /\ disk[Claim] = Absent /\ disk[Copy] = Absent /\ cur \in Tx
        /\ \A s \in Slot : s # Before(cur) => disk'[s] = disk[s]
        /\ disk'[Before(cur)] = Absent
    BY <1>a, AtFacts DEF RetireRefused
  <1>4. OthersKept
    BY <1>t, Others DEF Reach, OwnNames
  <1>5. /\ disk'[Temp(cur)] = disk[Temp(cur)] /\ disk'[Roll(cur)] = disk[Roll(cur)]
        /\ disk'[Side(cur)] = disk[Side(cur)] /\ disk'[Note] = disk[Note]
        /\ disk'[Copy] = disk[Copy] /\ disk'[Claim] = disk[Claim]
    BY <1>t, CurNames DEF Reach, OwnNames
  <1>14. Fresh' /\ Retired'
    BY <1>f, <1>a, <1>4 DEF Fresh, Retired, OthersKept
  <1>15. Plans'
    BY <1>f, <1>a, <1>t, <1>c, <1>4, <1>5 DEF Plans, OthersKept
  <1>16. Works' /\ Task'
    BY <1>f, <1>a DEF Works, Busy, Task, Decided, PreAside
  <1>18. Holds'
    BY <1>f, <1>a, <1>t, <1>5 DEF Holds, InClaim, Unclaimed
  <1>19. RevKept'
    BY <1>f, <1>a DEF RevKept, Removal
  <1>20. Files'
    BY <1>f, <1>c, <1>5 DEF Files, At, PreAside, HasTemp, NoTemp, RollSaved
  <1>21. Displaced'
    BY <1>f, <1>a, <1>4 DEF Displaced, OthersKept
  <1>22. Relied'
    <2>1. Spare(Before(cur))
      BY <1>a, <1>t DEF Spare, PreAside
    <2>2. ASSUME NEW s \in Slot, ~Spare(s) PROVE disk'[s] = disk[s] /\ ~Spare(s)'
      <3>1. s # Before(cur)
        BY <2>1, <2>2
      <3> QED
        BY <3>1, <2>2, <1>f, <1>t, <1>4, <1>5 DEF Spare, OthersKept, PreAside
    <2> QED
      BY <2>2, <1>f DEF Relied
  <1>23. NoteHeld'
    BY <1>f, <1>a, <1>t, <1>4, <1>5 DEF NoteHeld, NoteGone, PutsBack, Busy, OthersKept
  <1> QED
    BY <1>14, <1>15, <1>16, <1>18, <1>19, <1>20, <1>21, <1>22, <1>23

\* Moving the note aside.  What is displaced was first copied.
LEMMA AsideKeeps ==
  TypeOK /\ Durable /\ (CopyAside \/ TakeAside \/ MovedAside \/ Restored \/ InstallDone) => Durable'
  <1> SUFFICES ASSUME TypeOK, Durable, CopyAside \/ TakeAside \/ MovedAside \/ Restored \/ InstallDone
               PROVE  Durable'
    OBVIOUS
  <1> USE DEF Exists, J, Durable
  <1>f. UNCHANGED <<disk, copies, residue, journal, history, mode, cur, ok, owed, present, spent>>
    BY DEF CopyAside, TakeAside, MovedAside, Restored, InstallDone, Conflict, Frame, ghost
  <1>a. /\ pc \in {"aside", "aside-made", "moved", "restored", "install-done"} /\ sub.step = "none"
        /\ Busy /\ J.phase # "none" /\ mode # "down"
        /\ pc \in {"aside", "aside-made"} => J.phase \notin Done
        /\ pc \in {"aside", "aside-made", "moved"} => J.before # Absent
    BY DEF CopyAside, TakeAside, MovedAside, Restored, InstallDone, At, Busy, Works, PreAside
  <1>b. pc \in {"aside", "aside-made"} => J.dest = Note
    BY <1>a, CurFacts
  <1>c. /\ pc = "aside" => disk[Roll(cur)] = Absent
        /\ pc \in {"aside-made", "moved"} => disk[Roll(cur)] # Absent
        /\ pc \in {"aside", "aside-made", "moved"} => disk[Temp(cur)] = J.next
        /\ pc = "restored" /\ ok => disk[Roll(cur)] = Absent
        /\ pc = "install-done" /\ ok => disk[Temp(cur)] = Absent
    BY <1>a DEF Files, At, PreAside, HasTemp
  <1>n. Roll(cur) # Note /\ disk[Claim] = Absent /\ disk[Copy] = Absent /\ cur \in Tx
    BY <1>a, AtFacts, CurNames
  <1>1. \/ pc = "aside" /\ pc' = "aside-made" /\ sub' = Creating(Roll(cur), disk[J.dest])
           /\ disk[J.dest] # Absent
        \/ pc = "aside-made" /\ pc' = "moved" /\ sub' = Removing(J.dest, disk[Roll(cur)])
        \/ pc = "moved" /\ ok /\ pc' = "verify" /\ sub' = sub
        \/ pc = "restored" /\ ok /\ pc' = "promote" /\ sub' = sub /\ outcome' = "conflict-copy"
        \/ pc = "install-done" /\ ok /\ pc' = "log-installed" /\ sub' = sub
        \/ pc' = "keep-promote" /\ sub' = sub /\ outcome' = "conflict-copy" /\ (pc = "moved" => ~ok)
    BY DEF CopyAside, TakeAside, MovedAside, Restored, InstallDone, At, Call, Go, Conflict
  <1>2. Fresh' /\ Plans' /\ Retired' /\ Relied' /\ NoteHeld'
    <2>1. pc' \in PreAside => pc \in PreAside
      BY <1>1 DEF PreAside
    <2>2. NoteGone /\ PutsBack => PutsBack'
      BY <1>a, <1>1 DEF PutsBack
    <2>3. JournalsKept
      BY <1>f DEF JournalsKept
    <2> QED
      BY <1>f, <1>a, <2>1, <2>2, <2>3, QuietStep
  <1>4. \/ sub'.step = "none" /\ pc' \notin {"aside-made", "moved"}
        \/ /\ pc = "aside" /\ pc' = "aside-made" /\ sub'.step = "create" /\ sub'.op = "create"
           /\ sub'.to = Roll(cur) /\ sub'.rev # Absent
        \/ /\ pc = "aside-made" /\ pc' = "moved" /\ sub'.step = "validate" /\ sub'.op = "remove"
           /\ sub'.file = Note /\ sub'.rev = disk[Roll(cur)]
    BY <1>a, <1>b, <1>1, Started
  <1>7. Works'
    BY <1>f, <1>a, <1>1 DEF Works, Busy, Decided, PreAside
  <1>8. Task'
    BY <1>f, <1>4 DEF Task, Removal
  <1>9. Holds'
    BY <1>f, <1>c, <1>n, <1>4, <1>1 DEF Holds, InClaim, Unclaimed
  <1>10. RevKept'
    BY <1>f, <1>4, <1>n, <1>1 DEF RevKept, AlsoAt, Backup, Removal
  <1>11. Files'
    BY <1>f, <1>a, <1>c, <1>1, <1>4 DEF Files, At, PreAside, HasTemp, NoTemp, RollSaved
  <1>12. Displaced'
    BY <1>f, <1>1 DEF Displaced
  <1> QED
    BY <1>2, <1>7, <1>8, <1>9, <1>10, <1>11, <1>12

\* What was moved aside becomes the evidence; if it is not the base it goes
\* back to the note's name, or stays as rollback copy.
LEMMA VerifyKeeps == TypeOK /\ Durable /\ VerifyAside => Durable'
  <1> SUFFICES ASSUME TypeOK, Durable, VerifyAside PROVE Durable'
    OBVIOUS
  <1> USE DEF Exists, J, Durable
  <1>f. UNCHANGED <<copies, residue, journal, history, mode, cur, ok, owed, present, spent>>
    BY DEF VerifyAside, Frame, ghost, Conflict
  <1>a. /\ pc = "verify" /\ sub.step = "none"
        /\ Busy /\ J.phase # "none" /\ J.before # Absent /\ mode # "down"
    BY DEF VerifyAside, At, Busy, Works
  <1>b. J.dest = Note /\ J.next # Absent
    BY <1>a, CurFacts
  <1>c. disk[Roll(cur)] # Absent /\ disk[Temp(cur)] = J.next
    BY <1>a DEF Files, HasTemp
  <1>t. /\ disk[Claim] = Absent /\ disk[Copy] = Absent /\ cur \in Tx
        /\ \A s \in Slot : s # Before(cur) => disk'[s] = disk[s]
        /\ disk'[Before(cur)] = disk[Roll(cur)]
    BY <1>a, AtFacts DEF VerifyAside
  <1>n. Roll(cur) # Note /\ Temp(cur) # Note
    BY <1>t, CurNames
  <1>4. OthersKept
    BY <1>t, Others DEF Reach, OwnNames
  <1>5. /\ disk'[Temp(cur)] = disk[Temp(cur)] /\ disk'[Roll(cur)] = disk[Roll(cur)]
        /\ disk'[Side(cur)] = disk[Side(cur)] /\ disk'[Note] = disk[Note]
        /\ disk'[Copy] = disk[Copy] /\ disk'[Claim] = disk[Claim]
    BY <1>t, CurNames DEF Reach, OwnNames
  <1>6. \/ /\ pc' = "install-done" /\ disk[Roll(cur)] = J.before /\ sub'.step = "create" /\ sub'.op = "install"
           /\ sub'.file = Temp(cur) /\ sub'.to = Note /\ sub'.rev = J.next
        \/ /\ pc' = "restored" /\ sub'.step = "create" /\ sub'.op = "install"
           /\ sub'.file = Roll(cur) /\ sub'.to = Note /\ sub'.rev = disk[Roll(cur)]
        \/ /\ pc' = "keep-promote" /\ sub' = sub /\ outcome' = "conflict-copy" /\ disk[Note] # Absent
    BY <1>b, <1>c, Started DEF VerifyAside, Call, Go, Conflict
  <1>14. Fresh' /\ Retired'
    BY <1>f, <1>a, <1>4 DEF Fresh, Retired, OthersKept
  <1>15. Plans'
    BY <1>f, <1>a, <1>t, <1>c, <1>4, <1>5 DEF Plans, OthersKept
  <1>16. Works'
    BY <1>f, <1>a, <1>6 DEF Works, Busy, Decided, PreAside
  <1>17. Task'
    BY <1>f, <1>a, <1>b, <1>6 DEF Task
  <1>18. Holds'
    BY <1>f, <1>a, <1>b, <1>c, <1>n, <1>t, <1>5, <1>6 DEF Holds, InClaim, Unclaimed
  <1>19. RevKept'
    BY <1>f, <1>a, <1>6 DEF RevKept, Removal
  <1>20. Files'
    BY <1>f, <1>a, <1>c, <1>t, <1>5, <1>6 DEF Files, At, PreAside, HasTemp, NoTemp, RollSaved
  <1>21. Displaced'
    BY <1>f, <1>a, <1>c, <1>t, <1>4, <1>5, <1>6 DEF Displaced, OthersKept
  <1>22. Relied'
    <2>1. Spare(Before(cur)) /\ pc' \notin PreAside
      BY <1>t, <1>c, <1>6 DEF Spare, PreAside
    <2>2. ASSUME NEW s \in Slot, ~Spare(s) PROVE disk'[s] = disk[s] /\ ~Spare(s)'
      <3>1. s # Before(cur)
        BY <2>1, <2>2
      <3> QED
        BY <3>1, <2>1, <2>2, <1>f, <1>t, <1>4, <1>5 DEF Spare, OthersKept
    <2> QED
      BY <2>2, <1>f DEF Relied
  <1>23. NoteHeld'
    BY <1>f, <1>a, <1>t, <1>4, <1>5, <1>6 DEF NoteHeld, NoteGone, PutsBack, Busy, OthersKept
  <1> QED
    BY <1>14, <1>15, <1>16, <1>17, <1>18, <1>19, <1>20, <1>21, <1>22, <1>23

\* The rollback copy is removed only after the evidence repeats it.
LEMMA PreserveKeeps == TypeOK /\ Durable /\ PreserveRollback => Durable'
  <1> SUFFICES ASSUME TypeOK, Durable, PreserveRollback PROVE Durable'
    OBVIOUS
  <1> USE DEF Exists, J, Durable
  <1>f. UNCHANGED <<copies, residue, journal, history, mode, cur, ok, outcome, owed, present, spent>>
    BY DEF PreserveRollback, Frame, ghost
  <1>a. /\ pc \in Keeps /\ sub.step = "none" /\ Busy /\ J.phase # "none" /\ mode # "down"
        /\ pc = "keep-promote" => outcome # "none"
        /\ pc = "keep-commit" => J.phase = "installed"
    BY DEF PreserveRollback, Busy, Works, Keeps, Decided
  <1>b. J.dest \in {Note, Side(cur)} /\ (J.before = Absent => disk[Roll(cur)] = Absent)
    BY <1>a, CurFacts
  <1>c. /\ pc = "keep-commit" => disk[Temp(cur)] = Absent
        /\ pc = "rec-keep-temp" => AlsoAt(J.next, J.dest)
    BY <1>a DEF Files, NoTemp, RevKept
  <1>t. /\ disk[Claim] = Absent /\ disk[Copy] = Absent /\ cur \in Tx
        /\ \A s \in Slot : s # Before(cur) => disk'[s] = disk[s]
        /\ disk'[Before(cur)] = IF disk[Roll(cur)] = Absent THEN disk[Before(cur)] ELSE disk[Roll(cur)]
    BY <1>a, AtFacts DEF PreserveRollback, Keeps
  <1>n. Roll(cur) # Note /\ J.dest \in Slot /\ J.dest # Before(cur)
    BY <1>b, <1>t, CurNames, SlotNames
  <1>4. OthersKept
    BY <1>t, Others DEF Reach, OwnNames
  <1>5. /\ disk'[Temp(cur)] = disk[Temp(cur)] /\ disk'[Roll(cur)] = disk[Roll(cur)]
        /\ disk'[Side(cur)] = disk[Side(cur)] /\ disk'[Note] = disk[Note]
        /\ disk'[Copy] = disk[Copy] /\ disk'[Claim] = disk[Claim] /\ disk'[J.dest] = disk[J.dest]
    BY <1>t, <1>n, CurNames DEF Reach, OwnNames
  <1>6. \/ pc = "keep-promote" /\ pc' = "promote"
        \/ pc = "keep-commit" /\ pc' = "log-committed"
        \/ pc = "rec-keep-temp" /\ pc' = "rec-temp"
        \/ pc = "rec-keep-extra" /\ pc' = "rec-extra"
    <2>1. pc' = AfterKeep[pc]
      BY DEF PreserveRollback, Go
    <2> QED
      BY <1>a, <2>1 DEF AfterKeep, Keeps
  <1>7. \/ sub'.step = "none"
        \/ /\ disk[Roll(cur)] # Absent /\ disk[Roll(cur)] = J.before /\ sub'.step = "validate" /\ sub'.op = "remove"
           /\ sub'.file = Roll(cur) /\ sub'.rev = disk[Roll(cur)]
    BY <1>a, Started DEF PreserveRollback
  <1>14. Fresh' /\ Retired'
    BY <1>f, <1>a, <1>4 DEF Fresh, Retired, OthersKept
  <1>15. Plans'
    BY <1>f, <1>a, <1>b, <1>t, <1>4, <1>5 DEF Plans, OthersKept
  <1>16. Works'
    BY <1>f, <1>a, <1>6 DEF Works, Busy, Decided, PreAside
  <1>17. Task'
    BY <1>f, <1>a, <1>t, <1>6, <1>7 DEF Task, Removal
  <1>18. Holds'
    BY <1>f, <1>a, <1>n, <1>t, <1>5, <1>6, <1>7 DEF Holds, InClaim, Unclaimed
  <1>19. RevKept'
    <2>1. sub'.step \in Removal => AlsoAt(sub.rev, Backup)'
      BY <1>f, <1>n, <1>t, <1>7 DEF AlsoAt, Backup, Removal
    <2>2. pc' \in {"rec-keep-temp", "rec-temp"} => AlsoAt(J.next, J.dest)'
      BY <1>f, <1>c, <1>5, <1>6 DEF AlsoAt
    <2> QED
      BY <2>1, <2>2 DEF RevKept
  <1>20. Files'
    BY <1>f, <1>a, <1>c, <1>t, <1>5, <1>6 DEF Files, At, PreAside, HasTemp, NoTemp, RollSaved
  <1>21. Displaced'
    BY <1>f, <1>a, <1>t, <1>4, <1>5, <1>6 DEF Displaced, OthersKept
  <1>22. Relied'
    <2>2. ASSUME NEW s \in Slot, ~Spare(s) PROVE disk'[s] = disk[s] /\ ~Spare(s)'
      <3>1. pc' \notin PreAside
        BY <1>6 DEF PreAside
      <3>2. disk'[s] = disk[s]
        BY <2>2, <1>t DEF Spare
      <3> QED
        BY <3>1, <3>2, <2>2, <1>f, <1>4, <1>5 DEF Spare, OthersKept
    <2> QED
      BY <2>2, <1>f DEF Relied
  <1>23. NoteHeld'
    BY <1>f, <1>a, <1>4, <1>5, <1>6 DEF NoteHeld, NoteGone, PutsBack, Busy, OthersKept, Keeps
  <1> QED
    BY <1>14, <1>15, <1>16, <1>17, <1>18, <1>19, <1>20, <1>21, <1>22, <1>23

\* Logging the installed note, the committed one and the receipt.
LEMMA CommitKeeps == TypeOK /\ Durable /\ (LogInstalled \/ LogCommitted \/ Archive) => Durable'
  <1> SUFFICES ASSUME TypeOK, Durable, LogInstalled \/ LogCommitted \/ Archive PROVE Durable'
    OBVIOUS
  <1> USE DEF Exists, J, Durable
  <1>f. UNCHANGED <<disk, copies, residue, mode, cur, sub, ok, owed, present, spent>>
    BY DEF LogInstalled, LogCommitted, Archive, Log, Frame, ghost
  <1>a. /\ pc \in {"log-installed", "log-committed", "archive"} /\ sub.step = "none"
        /\ Busy /\ J.phase # "none" /\ mode # "down" /\ (pc = "archive" => outcome # "none")
        /\ pc = "log-committed" => J.phase = "installed"
    BY DEF LogInstalled, LogCommitted, Archive, Log, At, Busy, Works, Decided
  <1>c. /\ disk[Temp(cur)] = Absent
        /\ pc # "log-installed" => disk[Roll(cur)] \in {Absent, disk[Before(cur)]}
        /\ pc \in {"log-installed", "log-committed"} =>
             disk[Before(cur)] = J.before /\ disk[Roll(cur)] \in {Absent, J.before}
    BY <1>a DEF Files, NoTemp, RollSaved, Displaced, Done, TypeOK
  <1>t. /\ disk[Claim] = Absent /\ disk[Copy] = Absent /\ cur \in Tx
    BY <1>a, AtFacts
  <1>1. /\ JournalsKept
        /\ journal'[cur].dest = J.dest /\ journal'[cur].before = J.before /\ journal'[cur].next = J.next
        /\ journal'[cur].phase # "none"
        /\ pc = "archive" => journal' = journal
        /\ pc = "log-installed" => journal'[cur].phase = "installed"
    <2>1. CASE Archive
      BY <1>a, <2>1 DEF Archive, JournalsKept, At
    <2>2. CASE LogInstalled
      BY <1>a, <2>2, LogsPhase DEF LogInstalled, Log, Phase, At
    <2>3. CASE LogCommitted
      BY <1>a, <2>3, LogsPhase DEF LogCommitted, Phase, At
    <2> QED
      BY <2>1, <2>2, <2>3
  <1>2. \/ pc = "log-installed" /\ pc' = "keep-commit" /\ history' = history
        \/ pc = "log-committed" /\ pc' = "archive" /\ outcome' = "committed" /\ history' = history
        \/ pc = "archive" /\ pc' = "retire" /\ history' = [history EXCEPT ![cur] = outcome]
           /\ outcome' = outcome
    BY DEF LogInstalled, LogCommitted, Archive, Log, At, Go
  <1>3. /\ \A t \in Tx : history'[t] = "none" => history[t] = "none"
        /\ pc' = "retire" => history'[cur] # "none"
    BY <1>a, <1>t, <1>2 DEF TypeOK
  <1>4. Fresh' /\ Plans' /\ Retired' /\ Relied' /\ NoteHeld'
    <2>1. pc' \notin PreAside /\ ~PutsBack
      BY <1>a, <1>2 DEF PreAside, PutsBack
    <2> QED
      BY <1>f, <1>a, <1>1, <1>3, <2>1, QuietStep
  <1>5. Works'
    BY <1>f, <1>a, <1>1, <1>2, <1>3 DEF Works, Busy, Decided, PreAside
  <1>6. Task' /\ Holds'
    BY <1>f, <1>a, <1>t DEF Task, Holds, InClaim, Unclaimed
  <1>7. RevKept'
    BY <1>f, <1>a, <1>2 DEF RevKept, Removal
  <1>8. Files'
    BY <1>f, <1>a, <1>c, <1>2 DEF Files, At, PreAside, HasTemp, NoTemp, RollSaved
  <1>9. Displaced'
    BY <1>f, <1>c, <1>1, <1>2 DEF Displaced, JournalsKept
  <1> QED
    BY <1>4, <1>5, <1>6, <1>7, <1>8, <1>9

\* The staged file is installed as a conflict copy, or the transaction gives
\* up; a failed restore ends by an error.
LEMMA PromoteKeeps == TypeOK /\ Durable /\ (Promote \/ Rethrow) => Durable'
  <1> SUFFICES ASSUME TypeOK, Durable, Promote \/ Rethrow PROVE Durable'
    OBVIOUS
  <1> USE DEF Exists, J, Durable
  <1>f. UNCHANGED <<disk, copies, residue, journal, history, cur, ok, outcome, owed, present, spent>>
    BY DEF Promote, Rethrow, ghost, durable
  <1>a. /\ pc \in {"promote", "rethrow"} /\ sub.step = "none"
        /\ Busy /\ J.phase # "none" /\ mode # "down" /\ (pc = "promote" => outcome # "none")
    BY DEF Promote, Rethrow, At, Busy, Works, Decided
  <1>c. pc = "promote" => disk[Roll(cur)] \in {Absent, disk[Before(cur)]}
    BY <1>a DEF Files, RollSaved
  <1>t. /\ disk[Claim] = Absent /\ disk[Copy] = Absent /\ cur \in Tx
    BY <1>a, AtFacts
  <1>1. \/ /\ pc = "promote" /\ pc' = "promoted" /\ mode' = mode /\ disk[Temp(cur)] # Absent
           /\ sub'.step = "create" /\ sub'.op = "install" /\ sub'.file = Temp(cur) /\ sub'.to = Copy
           /\ sub'.rev = disk[Temp(cur)]
        \/ /\ pc' = "idle" /\ mode' # "down" /\ sub'.step = "none"
        \/ /\ pc' = "down" /\ mode' = "down" /\ sub'.step = "none"
    BY <1>a, Started DEF Promote, Rethrow, At, Call, Go, GiveUp, NoSub
  <1>4. Fresh' /\ Plans' /\ Retired' /\ Relied' /\ NoteHeld'
    <2>1. pc' \notin PreAside /\ (~PutsBack \/ ~Busy')
      BY <1>a, <1>1 DEF PreAside, PutsBack, Busy
    <2>2. JournalsKept
      BY <1>f DEF JournalsKept
    <2> QED
      BY <1>f, <1>a, <2>1, <2>2, QuietStep
  <1>5. Works'
    BY <1>f, <1>a, <1>1 DEF Works, Busy, Decided, PreAside
  <1>6. Task'
    BY <1>f, <1>1 DEF Task, Removal
  <1>7. Holds'
    BY <1>f, <1>a, <1>t, <1>1 DEF Holds, InClaim, Unclaimed
  <1>8. RevKept'
    BY <1>f, <1>1 DEF RevKept, Removal
  <1>9. Files'
    BY <1>f, <1>c, <1>1 DEF Files, At, PreAside, HasTemp, NoTemp, RollSaved
  <1>10. Displaced'
    BY <1>f, <1>1 DEF Displaced
  <1> QED
    BY <1>4, <1>5, <1>6, <1>7, <1>8, <1>9, <1>10

\* A settled conflict copy is one of the copies.
LEMMA PromotedKeeps == TypeOK /\ Durable /\ Promoted => Durable'
  <1> SUFFICES ASSUME TypeOK, Durable, Promoted PROVE Durable'
    OBVIOUS
  <1> USE DEF Exists, J, Durable
  <1>f. UNCHANGED <<residue, journal, history, mode, cur, sub, ok, outcome, owed, present, spent>>
        /\ copies' = copies \cup ({disk[Copy]} \ {Absent})
    BY DEF Promoted, Frame, ghost, Kept
  <1>a. /\ pc = "promoted" /\ sub.step = "none"
        /\ Busy /\ J.phase # "none" /\ mode # "down" /\ outcome # "none"
    BY DEF Promoted, At, Busy, Works, Decided
  <1>c. /\ disk[Roll(cur)] \in {Absent, disk[Before(cur)]}
        /\ ok => disk[Temp(cur)] = Absent
    BY <1>a DEF Files, RollSaved
  <1>t. /\ disk[Claim] = Absent /\ cur \in Tx
        /\ \A s \in Slot : s # Copy => disk'[s] = disk[s]
        /\ disk'[Copy] = Absent
    BY <1>a, AtFacts, SlotNames DEF Promoted
  <1>1. \/ ok /\ pc' = "archive"
        \/ pc' = "promote"
    BY DEF Promoted, Go
  <1>4. OthersKept
    BY <1>t, Others DEF Reach, OwnNames
  <1>5. /\ disk'[Temp(cur)] = disk[Temp(cur)] /\ disk'[Roll(cur)] = disk[Roll(cur)]
        /\ disk'[Side(cur)] = disk[Side(cur)] /\ disk'[Note] = disk[Note]
        /\ disk'[Before(cur)] = disk[Before(cur)] /\ disk'[Claim] = disk[Claim]
    BY <1>t, CurNames DEF Reach, OwnNames
  <1>14. Fresh' /\ Retired'
    BY <1>f, <1>a, <1>4 DEF Fresh, Retired, OthersKept
  <1>15. Plans'
    BY <1>f, <1>4, <1>5 DEF Plans, OthersKept
  <1>16. Works' /\ Task'
    BY <1>f, <1>a, <1>1 DEF Works, Busy, Task, Decided, PreAside
  <1>18. Holds'
    BY <1>f, <1>a, <1>t, <1>5 DEF Holds, InClaim, Unclaimed
  <1>19. RevKept'
    BY <1>f, <1>a, <1>1 DEF RevKept, Removal
  <1>20. Files'
    BY <1>f, <1>c, <1>1, <1>5 DEF Files, At, PreAside, HasTemp, NoTemp, RollSaved
  <1>21. Displaced'
    BY <1>f, <1>1, <1>4, <1>5 DEF Displaced, OthersKept
  <1>22. Relied'
    <2>1. ASSUME NEW s \in Slot, ~Spare(s) PROVE ~Spare(s)'
      BY <2>1, <1>1, <1>f, <1>4, <1>5 DEF Spare, OthersKept, PreAside
    <2>2. ASSUME NEW v \in owed, NEW s \in Slot, disk[s] = v, ~Spare(s)
          PROVE  v \in copies' \/ \E r \in Slot : disk'[r] = v /\ ~Spare(r)'
      <3>1. CASE s = Copy
        BY <2>2, <3>1, <1>f, Marks DEF Relied
      <3>2. CASE s # Copy
        BY <2>1, <2>2, <3>2, <1>t
      <3> QED
        BY <3>1, <3>2
    <2> QED
      BY <2>2, <1>f DEF Relied
  <1>23. NoteHeld'
    BY <1>f, <1>a, <1>4, <1>5 DEF NoteHeld, NoteGone, PutsBack, Busy, OthersKept
  <1> QED
    BY <1>14, <1>15, <1>16, <1>18, <1>19, <1>20, <1>21, <1>22, <1>23

\* A journal goes only when its transaction has left nothing that it alone
\* knows of.
LEMMA RetireKeeps == TypeOK /\ Durable /\ Retire => Durable'
  <1> SUFFICES ASSUME TypeOK, Durable, Retire PROVE Durable'
    OBVIOUS
  <1> USE DEF Exists, J, Durable
  <1>f. UNCHANGED <<disk, copies, residue, history, mode, cur, sub, ok, outcome, owed, present, spent>>
    BY DEF Retire, Frame, ghost
  <1>a. /\ pc = "retire" /\ sub.step = "none" /\ Busy /\ mode # "down" /\ history[cur] # "none"
    BY DEF Retire, At, Busy, Works
  <1>c. disk[Roll(cur)] \in {Absent, disk[Before(cur)]} /\ disk[Temp(cur)] = Absent
    BY <1>a DEF Files, RollSaved, NoTemp
  <1>t. /\ disk[Claim] = Absent /\ disk[Copy] = Absent /\ cur \in Tx
    BY <1>a, AtFacts
  <1>1. /\ pc' \in {"recover", "idle"}
        /\ journal'[cur].phase = "none"
        /\ \A t \in Tx : t # cur => journal'[t] = journal[t]
    BY <1>a, AtFacts DEF Retire, Go, Journal
  <1>2. Fresh' /\ Plans' /\ Retired'
    BY <1>f, <1>a, <1>c, <1>1 DEF Fresh, Plans, Retired
  <1>3. Works' /\ Task'
    BY <1>f, <1>a, <1>1 DEF Works, Busy, Task, Decided, PreAside
  <1>4. Holds'
    BY <1>f, <1>a, <1>t DEF Holds, InClaim, Unclaimed
  <1>5. RevKept' /\ Files'
    BY <1>f, <1>a, <1>1 DEF RevKept, Removal, Files, At, PreAside, HasTemp, NoTemp, RollSaved
  <1>6. Displaced'
    BY <1>f, <1>1 DEF Displaced, Done
  <1>7. Relied'
    BY <1>f, <1>1 DEF Relied, Spare, PreAside
  <1>8. NoteHeld'
    BY <1>f, <1>a, <1>1 DEF NoteHeld, NoteGone, PutsBack, Busy
  <1> QED
    BY <1>2, <1>3, <1>4, <1>5, <1>6, <1>7, <1>8

\* A step of a live transaction.
LEMMA LiveKeeps == TypeOK /\ Durable /\ Live => Durable'
  BY StagingKeeps, AuthorizeKeeps, RefusedKeeps, AsideKeeps, VerifyKeeps, PreserveKeeps, CommitKeeps,
     PromoteKeeps, PromotedKeeps, RetireKeeps DEF Live

-----------------------------------------------------------------------------
(* The recovery.                                                           *)

\* Opening the vault, and choosing the next journal.
LEMMA OpeningKeeps == TypeOK /\ Durable /\ (Open \/ RecoverNext \/ Opened) => Durable'
  <1> SUFFICES ASSUME TypeOK, Durable, Open \/ RecoverNext \/ Opened PROVE Durable'
    OBVIOUS
  <1> USE DEF Exists, J, Durable
  <1>f. UNCHANGED <<disk, copies, residue, journal, history, sub, ok, outcome, owed, present, spent>>
    BY DEF Open, RecoverNext, Opened, ghost, durable
  <1>a. ~Busy /\ pc \in {"down", "recover"} /\ sub.step = "none"
    BY DEF Open, RecoverNext, Opened, At, Busy, Works
  <1>t. disk[Claim] = Absent /\ disk[Copy] = Absent
    BY <1>a, AtFacts
  <1>1. \/ pc' \in {"recover", "idle"} /\ mode' # "down" /\ cur' = cur
        \/ pc' = "rec-read" /\ mode' = mode /\ mode # "down" /\ cur' \in Tx /\ journal[cur'].phase # "none"
    BY DEF Open, RecoverNext, Opened, Go, Pending, At, Works
  <1>2. Fresh' /\ Plans' /\ Retired'
    BY <1>f DEF Fresh, Plans, Retired
  <1>3. Works' /\ Task'
    BY <1>f, <1>a, <1>1 DEF Works, Busy, Task, Decided, PreAside
  <1>4. Holds'
    BY <1>f, <1>a, <1>t DEF Holds, InClaim, Unclaimed
  <1>5. RevKept' /\ Files'
    BY <1>f, <1>a, <1>1 DEF RevKept, Removal, Files, At, PreAside, HasTemp, NoTemp, RollSaved
  <1>6. Displaced'
    BY <1>f, <1>1 DEF Displaced
  <1>7. Relied'
    BY <1>f, <1>a, <1>1 DEF Relied, Spare, PreAside
  <1>8. NoteHeld'
    BY <1>f, <1>a, <1>1 DEF NoteHeld, NoteGone, PutsBack, Busy
  <1> QED
    BY <1>2, <1>3, <1>4, <1>5, <1>6, <1>7, <1>8

\* Reading the target, and what the recovery of a journal then does.
LEMMA RecStartKeeps == TypeOK /\ Durable /\ (RecRead \/ RecTemp \/ RecRestore) => Durable'
  <1> SUFFICES ASSUME TypeOK, Durable, RecRead \/ RecTemp \/ RecRestore PROVE Durable'
    OBVIOUS
  <1> USE DEF Exists, J, Durable
  <1>f. UNCHANGED <<disk, copies, residue, journal, history, mode, cur, ok, owed, present, spent>>
    BY DEF RecRead, RecTemp, RecRestore, Conflict, Frame, ghost
  <1>a. /\ pc \in {"rec-read", "rec-temp", "rec-restore"} /\ sub.step = "none"
        /\ Busy /\ J.phase # "none" /\ mode # "down"
    BY DEF RecRead, RecTemp, RecRestore, At, Busy, Works
  <1>b. /\ J.next # Absent
        /\ J.dest = Note \/ (J.dest = Side(cur) /\ J.before = Absent /\ disk[Roll(cur)] = Absent)
        /\ J.before = Absent => disk[Roll(cur)] = Absent
    BY <1>a, CurFacts
  <1>c. /\ pc = "rec-temp" => disk[Roll(cur)] \in {Absent, disk[Before(cur)]}
        /\ pc = "rec-temp" => AlsoAt(J.next, J.dest)
    BY <1>a DEF Files, RollSaved, RevKept
  <1>t. /\ disk[Claim] = Absent /\ disk[Copy] = Absent /\ cur \in Tx
        /\ Roll(cur) # Note /\ Temp(cur) # Note /\ Temp(cur) # Roll(cur)
    BY <1>a, AtFacts, CurNames
  <1>1. \/ pc = "rec-read" /\ pc' = "rec-keep-temp" /\ sub'.step = "none" /\ disk[J.dest] = J.next
        \/ pc = "rec-read" /\ pc' = "rec-restore" /\ sub'.step = "none"
        \/ /\ pc = "rec-read" /\ pc' = "rec-installed" /\ J.before = Absent
           /\ sub'.step = "create" /\ sub'.op = "install" /\ sub'.file = Temp(cur) /\ sub'.to = J.dest
           /\ sub'.rev = J.next /\ disk[Temp(cur)] = J.next
        \/ pc = "rec-temp" /\ pc' = "archive" /\ sub'.step = "none" /\ outcome' = "committed"
           /\ disk[Temp(cur)] = Absent
        \/ pc = "rec-temp" /\ pc' = "promote" /\ sub'.step = "none" /\ outcome' # "none"
        \/ /\ pc = "rec-temp" /\ pc' = "rec-temp-removed"
           /\ sub'.step = "validate" /\ sub'.op = "remove" /\ sub'.file = Temp(cur)
           /\ sub'.rev = J.next /\ disk[Temp(cur)] = J.next
        \/ pc = "rec-restore" /\ pc' = "rec-keep-extra" /\ sub'.step = "none"
           /\ (disk[J.dest] # Absent \/ disk[Roll(cur)] = Absent)
        \/ /\ pc = "rec-restore" /\ pc' = "rec-restored" /\ disk[Roll(cur)] # Absent
           /\ sub'.step = "create" /\ sub'.op = "install" /\ sub'.file = Roll(cur) /\ sub'.to = J.dest
           /\ sub'.rev = disk[Roll(cur)]
    BY <1>a, Started DEF RecRead, RecTemp, RecRestore, At, Call, Go
  <1>2. Fresh' /\ Plans' /\ Retired' /\ Relied' /\ NoteHeld'
    <2>1. pc' \notin PreAside
      BY <1>1 DEF PreAside
    <2>2. NoteGone /\ disk[Roll(cur)] # Absent /\ PutsBack => PutsBack'
      BY <1>a, <1>b, <1>1 DEF PutsBack, NoteGone
    <2>3. JournalsKept
      BY <1>f DEF JournalsKept
    <2> QED
      BY <1>f, <1>a, <2>1, <2>2, <2>3, QuietStep
  <1>3. Works'
    BY <1>f, <1>a, <1>1 DEF Works, Busy, Decided, PreAside
  <1>4. Task'
    BY <1>f, <1>1 DEF Task, Removal
  <1>5. Holds'
    BY <1>f, <1>b, <1>t, <1>1 DEF Holds, InClaim, Unclaimed
  <1>6. RevKept'
    BY <1>f, <1>c, <1>t, <1>1 DEF RevKept, AlsoAt, Backup, Removal
  <1>7. Files'
    BY <1>f, <1>c, <1>1 DEF Files, At, PreAside, HasTemp, NoTemp, RollSaved
  <1>8. Displaced'
    BY <1>f, <1>1 DEF Displaced
  <1> QED
    BY <1>2, <1>3, <1>4, <1>5, <1>6, <1>7, <1>8

\* The recovery of a journal ends with an outcome.
LEMMA RecEndKeeps ==
  TypeOK /\ Durable /\ (RecTempRemoved \/ RecInstalled \/ RecRestored \/ RecExtra \/ RecOutcome) => Durable'
  <1> SUFFICES ASSUME TypeOK, Durable,
                      RecTempRemoved \/ RecInstalled \/ RecRestored \/ RecExtra \/ RecOutcome
               PROVE  Durable'
    OBVIOUS
  <1> USE DEF Exists, J, Durable
  <1>f. UNCHANGED <<disk, copies, residue, history, mode, cur, sub, ok, owed, present, spent>>
    BY DEF RecTempRemoved, RecInstalled, RecRestored, RecExtra, RecOutcome, Conflict, Frame, ghost
  <1>a. /\ pc \in {"rec-temp-removed", "rec-installed", "rec-restored", "rec-extra", "rec-outcome"}
        /\ sub.step = "none" /\ Busy /\ J.phase # "none" /\ mode # "down"
        /\ pc = "rec-installed" => J.before = Absent
    BY DEF RecTempRemoved, RecInstalled, RecRestored, RecExtra, RecOutcome, At, Busy, Works
  <1>b. J.before = Absent => disk[Roll(cur)] = Absent /\ disk[Before(cur)] = Absent
    BY <1>a, CurFacts
  <1>c. /\ pc \in {"rec-temp-removed", "rec-extra", "rec-outcome"} => disk[Roll(cur)] \in {Absent, disk[Before(cur)]}
        /\ pc \in {"rec-temp-removed", "rec-outcome"} => disk[Temp(cur)] = Absent
        /\ pc = "rec-installed" /\ ok => disk[Temp(cur)] = Absent
        /\ pc = "rec-restored" /\ ok => disk[Roll(cur)] = Absent
    BY <1>a DEF Files, RollSaved, NoTemp
  <1>t. /\ disk[Claim] = Absent /\ disk[Copy] = Absent /\ cur \in Tx
    BY <1>a, AtFacts
  <1>1. \/ pc \in {"rec-temp-removed", "rec-outcome"} /\ pc' = "archive" /\ outcome' # "none" /\ journal' = journal
        \/ pc = "rec-installed" /\ ok /\ pc' = "archive" /\ outcome' # "none"
           /\ journal' = [journal EXCEPT ![cur].phase = "committed"]
        \/ pc = "rec-installed" /\ pc' = "rec-restore" /\ journal' = journal
        \/ pc = "rec-restored" /\ ok /\ pc' = "rec-extra" /\ journal' = journal
        \/ pc = "rec-restored" /\ pc' = "rec-keep-extra" /\ journal' = journal
        \/ pc = "rec-extra" /\ pc' = "promote" /\ outcome' # "none" /\ journal' = journal
        \/ pc = "rec-extra" /\ pc' = "rec-outcome" /\ disk[Temp(cur)] = Absent /\ journal' = journal
    BY DEF RecTempRemoved, RecInstalled, RecRestored, RecExtra, RecOutcome, At, Go, Conflict
  <1>2. /\ JournalsKept
        /\ journal'[cur].dest = J.dest /\ journal'[cur].before = J.before /\ journal'[cur].next = J.next
        /\ journal'[cur].phase # "none"
        /\ pc # "rec-installed" => journal' = journal
    <2>1. CASE journal' = journal
      BY <1>a, <2>1 DEF JournalsKept
    <2>2. CASE pc = "rec-installed" /\ journal' = [journal EXCEPT ![cur].phase = "committed"]
      BY <1>a, <2>2, LogsPhase DEF Phase
    <2> QED
      BY <1>1, <2>1, <2>2
  <1>3. Fresh' /\ Plans' /\ Retired' /\ Relied' /\ NoteHeld'
    <2>1. pc' \notin PreAside /\ ~PutsBack
      BY <1>a, <1>1 DEF PreAside, PutsBack
    <2> QED
      BY <1>f, <1>a, <1>2, <2>1, QuietStep
  <1>4. Works'
    BY <1>f, <1>a, <1>1, <1>2 DEF Works, Busy, Decided, PreAside
  <1>5. Task' /\ Holds'
    BY <1>f, <1>a, <1>t DEF Task, Holds, InClaim, Unclaimed
  <1>6. RevKept'
    BY <1>f, <1>a, <1>1 DEF RevKept, Removal
  <1>7. Files'
    BY <1>f, <1>a, <1>b, <1>c, <1>1 DEF Files, At, PreAside, HasTemp, NoTemp, RollSaved
  <1>8. Displaced'
    BY <1>f, <1>a, <1>b, <1>1, <1>2 DEF Displaced, JournalsKept
  <1> QED
    BY <1>2, <1>3, <1>4, <1>5, <1>6, <1>7, <1>8

\* A step of the recovery.
LEMMA RecoveryKeeps == TypeOK /\ Durable /\ Recovery => Durable'
  BY OpeningKeeps, RecStartKeeps, RecEndKeeps DEF Recovery

-----------------------------------------------------------------------------
(* Failures, the external editor and new transactions.                     *)

\* What the process was working on under shared names stays in the vault.
LEMMA AbandonStep ==
  ASSUME TypeOK, Durable, Abandon,
         UNCHANGED <<journal, history, owed, present, cur>>, spent'.late = spent.late,
         pc' \in PreAside => pc \in PreAside,
         NoteGone /\ Exists(Roll(cur)) /\ (Busy => PutsBack) => (Busy' => PutsBack')
  PROVE  /\ Fresh' /\ Plans' /\ Retired' /\ Relied' /\ NoteHeld' /\ OthersKept
         /\ disk'[Copy] = Absent /\ disk'[Claim] = Absent /\ disk'[Note] = disk[Note]
         /\ disk'[Temp(cur)] = disk[Temp(cur)] /\ disk'[Roll(cur)] = disk[Roll(cur)]
         /\ disk'[Before(cur)] = disk[Before(cur)] /\ disk'[Side(cur)] = disk[Side(cur)]
  <1> USE DEF Durable, Exists
  <1>1. cur \in Tx /\ disk \in [Slot -> Content] /\ Copy \in Slot /\ Claim \in Slot
    BY SlotNames DEF TypeOK
  <1>2. /\ \A s \in Slot : s \notin {Copy, Claim} => disk'[s] = disk[s]
        /\ disk'[Copy] = Absent /\ disk'[Claim] = Absent
        /\ copies' = copies \cup ({disk[Copy]} \ {Absent})
        /\ residue' = residue \cup ({disk[Claim]} \ {Absent})
    BY <1>1 DEF Abandon, Kept
  <1>3. OthersKept
    BY <1>1, <1>2, Others DEF Reach, OwnNames
  <1>4. /\ disk'[Temp(cur)] = disk[Temp(cur)] /\ disk'[Roll(cur)] = disk[Roll(cur)]
        /\ disk'[Before(cur)] = disk[Before(cur)] /\ disk'[Side(cur)] = disk[Side(cur)]
        /\ disk'[Note] = disk[Note]
    BY <1>1, <1>2, CurNames DEF Reach, OwnNames
  <1>5. Fresh' /\ Retired'
    BY <1>3, <1>4 DEF Fresh, Retired, OthersKept
  <1>6. Plans'
    BY <1>3, <1>4 DEF Plans, OthersKept
  <1>7. Relied'
    <2>1. ASSUME NEW s \in Slot, ~Spare(s) PROVE ~Spare(s)'
      BY <2>1, <1>3, <1>4 DEF Spare, OthersKept
    <2>2. ASSUME NEW v \in owed, NEW s \in Slot, disk[s] = v, ~Spare(s)
          PROVE  v \in copies' \cup residue' \/ \E r \in Slot : disk'[r] = v /\ ~Spare(r)'
      <3>1. CASE s \in {Copy, Claim}
        BY <2>2, <3>1, <1>2, Marks DEF Relied
      <3>2. CASE s \notin {Copy, Claim}
        BY <2>1, <2>2, <3>2, <1>2
      <3> QED
        BY <3>1, <3>2
    <2> QED
      BY <2>2, <1>2 DEF Relied
  <1>8. NoteHeld'
    BY <1>3, <1>4 DEF NoteHeld, NoteGone, OthersKept
  <1> QED
    BY <1>2, <1>3, <1>4, <1>5, <1>6, <1>7, <1>8

\* A crash stops everything; what a failing call ends, it leaves as it is, or
\* it starts putting the note back.
LEMMA FailureKeeps == TypeOK /\ Durable /\ (Crash \/ Fault) => Durable'
  <1> SUFFICES ASSUME TypeOK, Durable, Crash \/ Fault PROVE Durable'
    OBVIOUS
  <1> USE DEF Exists, J, Durable
  <1>f. Abandon /\ UNCHANGED <<journal, history, owed, present, cur, outcome>>
    BY DEF Crash, Fault, ghost
  <1>s. spent'.late = spent.late
    <2>1. \A k \in {"crash", "fault"} : [spent EXCEPT ![k] = @ + 1].late = spent.late
      BY DEF TypeOK
    <2> QED
      BY <2>1 DEF Crash, Fault, Spend
  <1>1. \/ /\ ~Busy' /\ pc' \in {"idle", "down"} /\ sub'.step = "none" /\ (mode' = "down" => pc' = "down")
        \/ /\ Busy /\ pc' = pc /\ mode' = mode /\ sub.op = "install" /\ sub.step \in Removal
           /\ sub'.step = "none" /\ ok' = FALSE
        \/ /\ pc = "install-done" /\ pc' = "rethrow" /\ mode' = mode /\ Busy
           /\ disk[Roll(cur)] # Absent /\ disk[J.dest] = Absent
           /\ sub'.step = "create" /\ sub'.op = "install" /\ sub'.file = Roll(cur) /\ sub'.to = J.dest
           /\ sub'.rev = disk[Roll(cur)]
    <2>1. CASE Crash
      BY <2>1 DEF Crash, Go, NoSub, Busy
    <2>2. CASE Fault
      BY <2>2, Started DEF Fault, GiveUp, Return, Call, Go, NoSub, Busy, Works
    <2> QED
      BY <2>1, <2>2
  <1>2. cur \in Tx /\ mode \in {"down", "recovering", "open"}
    BY DEF TypeOK
  <1>3. sub.step \in Removal /\ sub.op = "install" =>
          pc \in {"install-done", "rec-installed", "promoted", "restored", "rethrow", "rec-restored"}
    BY RoutineFacts DEF Removal
  <1>4. /\ Fresh' /\ Plans' /\ Retired' /\ Relied' /\ NoteHeld' /\ OthersKept
        /\ disk'[Copy] = Absent /\ disk'[Claim] = Absent /\ disk'[Note] = disk[Note]
        /\ disk'[Temp(cur)] = disk[Temp(cur)] /\ disk'[Roll(cur)] = disk[Roll(cur)]
        /\ disk'[Before(cur)] = disk[Before(cur)] /\ disk'[Side(cur)] = disk[Side(cur)]
    <2>1. pc' \in PreAside => pc \in PreAside
      BY <1>1 DEF PreAside
    <2>2. NoteGone /\ disk[Roll(cur)] # Absent /\ (Busy => PutsBack) => (Busy' => PutsBack')
      <3>1. Busy /\ pc' = pc /\ sub.op = "install" /\ sub.step \in Removal => ~PutsBack
        BY <1>3 DEF PutsBack, Removal
      <3>2. pc' = "rethrow" /\ sub'.step = "create" => PutsBack'
        BY DEF PutsBack
      <3> QED
        BY <1>1, <3>1, <3>2
    <2> QED
      BY <1>f, <1>s, <2>1, <2>2, AbandonStep
  <1>n. Roll(cur) # Note
    BY <1>2, CurNames
  <1>5. Works'
    BY <1>f, <1>1, <1>2 DEF Works, Busy, Decided, PreAside
  <1>6. Task'
    BY <1>f, <1>1 DEF Task, Removal
  <1>7. Holds'
    BY <1>1, <1>4, <1>n DEF Holds, InClaim, Unclaimed
  <1>8. RevKept'
    BY <1>1, <1>3 DEF RevKept, Removal
  <1>9. Files'
    BY <1>f, <1>1, <1>3, <1>4 DEF Files, At, PreAside, HasTemp, NoTemp, RollSaved
  <1>10. Displaced'
    BY <1>f, <1>1, <1>4 DEF Displaced, OthersKept
  <1> QED
    BY <1>4, <1>5, <1>6, <1>7, <1>8, <1>9, <1>10

\* The external editor changes the note, or what the kernel has just claimed
\* of it; what it replaces is no longer owed.
LEMMA ExternalKeeps == TypeOK /\ Durable /\ External => Durable'
  <1> SUFFICES ASSUME TypeOK, Durable, External PROVE Durable'
    OBVIOUS
  <1> USE DEF Exists, J, Durable
  <1>f. UNCHANGED <<copies, residue, journal, history, mode, pc, cur, sub, ok, outcome>>
    BY DEF External, ExtSave, ExtDelete, ExtLateSave, volatile
  <1>t. /\ cur \in Tx /\ disk \in [Slot -> Content] /\ Note \in Slot /\ Claim \in Slot /\ Absent \notin Version
        /\ Note # Claim
    BY SlotNames, NamesApart, Marks DEF TypeOK
  <1>s. spent.late \in Nat
    BY DEF TypeOK
  <1>1. CASE ExtDelete \/ \E v \in Version : ExtSave(v)
    <2>1. PICK c \in Version \cup {Absent} :
            /\ disk' = [disk EXCEPT ![Note] = c]
            /\ owed' = (owed \ {disk[Note]}) \cup ({c} \cap Version)
            /\ c = Absent => ~present'
            /\ spent'.late = spent.late
      <3>1. [spent EXCEPT !["save"] = @ + 1].late = spent.late
        BY DEF TypeOK
      <3>2. CASE ExtDelete
        BY <1>t, <3>1, <3>2 DEF ExtDelete, Spend
      <3>3. CASE \E v \in Version : ExtSave(v)
        <4>1. PICK v \in Version : ExtSave(v)
          BY <3>3
        <4> WITNESS v \in Version \cup {Absent}
        <4>2. disk' = [disk EXCEPT ![Note] = v] /\ owed' = (owed \ {disk[Note]}) \cup {v}
          BY <4>1 DEF ExtSave
        <4>3. spent'.late = spent.late
          BY <3>1, <4>1 DEF ExtSave, Spend
        <4>4. v # Absent /\ {v} \cap Version = {v}
          BY <1>t
        <4> QED
          BY <4>2, <4>3, <4>4
      <3> QED
        BY <1>1, <3>2, <3>3
    <2>2. disk'[Note] = c /\ \A s \in Slot : s # Note => disk'[s] = disk[s]
      BY <1>t, <2>1
    <2>3. OthersKept
      BY <1>t, <2>2, Others DEF Reach, OwnNames
    <2>4. /\ disk'[Temp(cur)] = disk[Temp(cur)] /\ disk'[Roll(cur)] = disk[Roll(cur)]
          /\ disk'[Before(cur)] = disk[Before(cur)] /\ disk'[Side(cur)] = disk[Side(cur)]
          /\ disk'[Copy] = disk[Copy] /\ disk'[Claim] = disk[Claim]
      BY <1>t, <2>2, CurNames DEF Reach, OwnNames
    <2>5. /\ Temp(cur) # Note /\ Roll(cur) # Note /\ Before(cur) # Note /\ Side(cur) # Note /\ Copy # Note
          /\ Side(cur) \in Slot /\ Copy \in Slot /\ Temp(cur) \in Slot /\ Roll(cur) \in Slot /\ Before(cur) \in Slot
      BY <1>t, CurNames, SlotNames
    <2>6. sub.step # "none" => /\ sub.op = "create" => sub.to \in Slot /\ sub.to # Note
                               /\ sub.file # Note => sub.file \in Slot
      BY <2>5, RoutineFacts
    <2>7. Busy => J.dest \in Slot
      BY CurFacts
    <2>14. Fresh' /\ Retired'
      BY <1>f, <2>3, <2>4 DEF Fresh, Retired, OthersKept
    <2>15. Plans'
      BY <1>f, <2>3, <2>4 DEF Plans, OthersKept
    <2>16. Works' /\ Task'
      BY <1>f, <2>4 DEF Works, Busy, Task
    <2>18. Holds'
      <3>1. sub.op = "create" /\ sub.step \in {"create", "fill"} => disk'[sub.to] = disk[sub.to]
        BY <2>2, <2>6
      <3>2. sub.step # "none" /\ sub.file # Note => disk'[sub.file] = disk[sub.file]
        BY <2>2, <2>6
      <3> QED
        BY <1>f, <2>1, <2>4, <3>1, <3>2 DEF Holds, InClaim, Unclaimed
    <2>19. RevKept'
      <3>1. ASSUME NEW b, NEW s \in Slot, AlsoAt(b, s)
            PROVE  disk'[s] = b \/ (s = Note /\ b \notin owed')
        BY <3>1, <2>1, <2>2 DEF AlsoAt
      <3>2. sub.step \in Removal => Backup \in Slot /\ Backup' = Backup
        BY <1>f, <2>5, <2>7, RoutineFacts DEF Backup, Removal
      <3>3. pc \in {"rec-keep-temp", "rec-temp"} => J.dest \in Slot
        BY <2>7 DEF Busy
      <3>4. sub.step \in Removal => AlsoAt(sub.rev, Backup)
        BY DEF RevKept
      <3>5. sub.step \in Removal => AlsoAt(sub.rev, Backup)'
        BY <1>f, <3>1, <3>2, <3>4 DEF AlsoAt
      <3>6. pc \in {"rec-keep-temp", "rec-temp"} => AlsoAt(J.next, J.dest)
        BY DEF RevKept
      <3>7. pc \in {"rec-keep-temp", "rec-temp"} => AlsoAt(J.next, J.dest)'
        BY <1>f, <3>1, <3>3, <3>6 DEF AlsoAt
      <3> QED
        BY <1>f, <3>5, <3>7 DEF RevKept
    <2>20. Files'
      BY <1>f, <2>4 DEF Files, At, PreAside, HasTemp, NoTemp, RollSaved
    <2>21. Displaced'
      BY <1>f, <2>3, <2>4 DEF Displaced, OthersKept
    <2>22. Relied'
      <3>1. ASSUME NEW s \in Slot, ~Spare(s) PROVE ~Spare(s)'
        BY <3>1, <1>f, <2>3, <2>4 DEF Spare, OthersKept
      <3>2. ~Spare(Note)'
        BY NamesApart DEF Spare
      <3> QED
        BY <1>f, <1>t, <2>1, <2>2, <3>1, <3>2 DEF Relied
    <2>23. NoteHeld'
      BY <1>t, <2>1, <2>2 DEF NoteHeld, NoteGone
    <2> QED
      BY <2>14, <2>15, <2>16, <2>18, <2>19, <2>20, <2>21, <2>22, <2>23
  <1>2. CASE \E v \in Version : ExtLateSave(v)
    <2>1. PICK v \in Version : ExtLateSave(v)
      BY <1>2
    <2>2. /\ disk' = [disk EXCEPT ![Claim] = v] /\ owed' = (owed \ {disk[Claim]}) \cup {v}
          /\ sub.file = Note /\ disk[Claim] # Absent /\ spent'.late = spent.late + 1
      BY <2>1 DEF ExtLateSave, Spend, TypeOK
    <2>3. disk'[Claim] = v /\ \A s \in Slot : s # Claim => disk'[s] = disk[s]
      BY <1>t, <2>2
    <2>4. OthersKept
      BY <1>t, <2>3, Others DEF Reach, OwnNames
    <2>5. /\ disk'[Temp(cur)] = disk[Temp(cur)] /\ disk'[Roll(cur)] = disk[Roll(cur)]
          /\ disk'[Before(cur)] = disk[Before(cur)] /\ disk'[Side(cur)] = disk[Side(cur)]
          /\ disk'[Copy] = disk[Copy] /\ disk'[Note] = disk[Note]
      BY <1>t, <2>3, CurNames DEF Reach, OwnNames
    <2>6. sub.step \in InClaim /\ sub.op = "remove" /\ pc = "moved" /\ sub.rev = disk[Roll(cur)]
      <3>1. sub.step \in InClaim
        BY <2>2 DEF Holds
      <3>2. Temp(cur) # Note /\ Roll(cur) # Note
        BY <1>t, CurNames
      <3> QED
        BY <2>2, <3>1, <3>2, RoutineFacts DEF InClaim
    <2>14. Fresh' /\ Retired'
      BY <1>f, <2>4, <2>5 DEF Fresh, Retired, OthersKept
    <2>15. Plans'
      BY <1>f, <2>4, <2>5 DEF Plans, OthersKept
    <2>16. Works' /\ Task'
      BY <1>f, <2>5 DEF Works, Busy, Task
    <2>18. Holds'
      BY <1>f, <1>s, <1>t, <2>2, <2>3, <2>5, <2>6 DEF Holds, InClaim, Unclaimed
    <2>19. RevKept'
      BY <1>f, <2>2, <2>5, <2>6 DEF RevKept, AlsoAt, Backup
    <2>20. Files'
      BY <1>f, <2>5 DEF Files, At, PreAside, HasTemp, NoTemp, RollSaved
    <2>21. Displaced'
      BY <1>f, <2>4, <2>5 DEF Displaced, OthersKept
    <2>22. Relied'
      <3>1. ASSUME NEW s \in Slot, ~Spare(s) PROVE ~Spare(s)'
        BY <3>1, <1>f, <2>4, <2>5 DEF Spare, OthersKept
      <3>2. ~Spare(Claim)'
        BY NamesApart DEF Spare
      <3> QED
        BY <1>f, <1>t, <2>2, <2>3, <3>1, <3>2 DEF Relied
    <2>23. NoteHeld'
      BY <1>s, <2>2 DEF NoteHeld, NoteGone
    <2> QED
      BY <2>14, <2>15, <2>16, <2>18, <2>19, <2>20, <2>21, <2>22, <2>23
  <1> QED
    BY <1>1, <1>2 DEF External

\* A new transaction starts without files.
LEMMA BeginKeeps ==
  TypeOK /\ Durable /\ (\E t \in Tx, e \in Version \cup {Absent}, v \in Version : Begin(t, e, v)) => Durable'
  <1> SUFFICES ASSUME TypeOK, Durable,
                      NEW t \in Tx, NEW e \in Version \cup {Absent}, NEW v \in Version, Begin(t, e, v)
               PROVE  Durable'
    OBVIOUS
  <1> USE DEF Exists, Durable
  <1>f. /\ UNCHANGED <<disk, copies, residue, history, mode, ok, outcome, owed, present, spent>>
        /\ cur' = t /\ pc' = "staged" /\ sub' = Creating(Temp(t), v)
        /\ journal[t].phase = "none" /\ history[t] = "none" /\ mode = "open"
    BY DEF Begin, Call, Go
  <1>a. ~Busy /\ pc = "idle" /\ sub.step = "none"
    BY DEF Begin, At, Busy
  <1>t. /\ disk[Claim] = Absent /\ disk[Copy] = Absent /\ Torn # Absent /\ v # Absent
        /\ disk[Temp(t)] = Absent /\ disk[Roll(t)] = Absent /\ disk[Before(t)] = Absent
    BY <1>a, <1>f, AtFacts, Marks DEF Fresh
  <1>1. /\ journal'[t].phase = "intent" /\ journal'[t].next = v /\ journal'[t].before \in Version \cup {Absent}
        /\ journal'[t].dest = Note \/ (journal'[t].dest = Side(t) /\ journal'[t].before = Absent)
        /\ \A u \in Tx : u # t => journal'[u] = journal[u]
    BY DEF Begin, TypeOK
  <1>2. /\ sub'.step = "create" /\ sub'.op = "create" /\ sub'.to = Temp(t) /\ sub'.rev = v
    BY <1>f, Started
  <1>3. Fresh' /\ Plans' /\ Retired'
    BY <1>f, <1>t, <1>1 DEF Fresh, Plans, Retired
  <1>4. Works'
    BY <1>f, <1>1 DEF Works, Busy, Decided, PreAside, Done, J
  <1>5. Task'
    BY <1>f, <1>1, <1>2 DEF Task, J
  <1>6. Holds'
    BY <1>f, <1>t, <1>2 DEF Holds, InClaim, Unclaimed
  <1>7. RevKept'
    BY <1>f, <1>2 DEF RevKept, Removal
  <1>8. Files'
    BY <1>f, <1>t, <1>2 DEF Files, At, PreAside, HasTemp, NoTemp, RollSaved
  <1>9. Displaced'
    BY <1>f, <1>1 DEF Displaced, Done
  <1>10. Relied'
    <2>1. ASSUME NEW s \in Slot, disk[s] # Absent, ~Spare(s) PROVE ~Spare(s)'
      BY <2>1, <1>f, <1>t DEF Spare
    <2> QED
      BY <2>1, <1>f, Marks DEF Relied
  <1>11. NoteHeld'
    BY <1>f, <1>a, <1>1 DEF NoteHeld, NoteGone
  <1> QED
    BY <1>3, <1>4, <1>5, <1>6, <1>7, <1>8, <1>9, <1>10, <1>11

\* Initially only the note exists.
LEMMA InitDurable == Init => Durable
  <1> SUFFICES ASSUME Init PROVE Durable
    OBVIOUS
  <1> USE DEF Exists
  <1>1. PICK v \in Version \cup {Absent} :
          /\ disk = [s \in Slot |-> IF s = Note THEN v ELSE Absent]
          /\ owed = Kept({v}) /\ present = (v # Absent)
    BY DEF Init
  <1>2. /\ pc = "idle" /\ mode = "open" /\ cur \in Tx /\ sub = NoSub
        /\ sub.step = "none" /\ sub.op = "create" /\ sub.file = Note
        /\ \A t \in Tx : journal[t].phase = "none"
    BY DEF Init, NoSub
  <1>3. /\ disk[Note] = v /\ disk[Copy] = Absent /\ disk[Claim] = Absent
        /\ \A t \in Tx : /\ disk[Temp(t)] = Absent /\ disk[Roll(t)] = Absent
                         /\ disk[Before(t)] = Absent /\ disk[Side(t)] = Absent
    BY <1>1, SlotNames, NamesApart
  <1>4. Fresh /\ Plans /\ Works /\ Task /\ Displaced /\ Retired
    BY <1>2, <1>3 DEF Fresh, Plans, Works, Task, Displaced, Retired, Busy, Decided, PreAside, Done
  <1>5. Holds /\ RevKept /\ Files
    BY <1>2, <1>3 DEF Holds, RevKept, Files, InClaim, Unclaimed, Removal, At, PreAside, HasTemp, NoTemp, RollSaved
  <1>6. Relied
    BY <1>1, <1>3, SlotNames, NamesApart DEF Relied, Kept, Spare
  <1>7. NoteHeld
    BY <1>1, <1>3 DEF NoteHeld, NoteGone
  <1> QED
    BY <1>4, <1>5, <1>6, <1>7 DEF Durable

\* The inductive step.
LEMMA StepDurable == TypeOK /\ Durable /\ [Next]_vars => Durable'
  <1> SUFFICES ASSUME TypeOK, Durable, [Next]_vars PROVE Durable'
    OBVIOUS
  <1>1. CASE UNCHANGED vars
    <2>1. UNCHANGED <<disk, copies, residue, journal, history, mode, pc, cur, sub, ok, outcome, owed, present, spent>>
      BY <1>1 DEF vars, durable, volatile, ghost
    <2>2. Fresh' /\ Plans' /\ Works' /\ Task' /\ Holds'
      BY <2>1 DEF Durable, Fresh, Plans, Works, Task, Holds, Exists, J, Busy
    <2>3. RevKept' /\ Files' /\ Displaced' /\ Retired'
      BY <2>1 DEF Durable, RevKept, AlsoAt, Backup, Files, Displaced, Retired, Exists, J, At
    <2>4. Relied' /\ NoteHeld'
      BY <2>1 DEF Durable, Relied, Spare, NoteHeld, NoteGone, PutsBack, Exists, Busy
    <2> QED
      BY <2>2, <2>3, <2>4 DEF Durable
  <1>2. CASE Next
    BY <1>2, BeginKeeps, RoutineKeeps, LiveKeeps, RecoveryKeeps, OpeningKeeps, FailureKeeps, ExternalKeeps
       DEF Next, Kernel
  <1> QED
    BY <1>1, <1>2

\* The invariant holds in every behaviour.
LEMMA AlwaysDurable == Spec => [](TypeOK /\ Durable)
  BY InitTyped, StepTyped, InitDurable, StepDurable, PTL DEF Spec

-----------------------------------------------------------------------------
(* The theorems.                                                           *)

(* No version is lost: what the note held, every external save nobody has  *)
(* replaced and every journaled proposal is in some file at every moment,  *)
(* whatever crashes, failing calls and saves fall between the steps of     *)
(* writes and recovery.                                                    *)
THEOREM NothingEverLost == Spec => []NothingLost
  <1>1. TypeOK /\ Durable => NothingLost
    BY DEF Durable, Relied, NothingLost
  <1> QED
    BY <1>1, AlwaysDurable, PTL

(* Once nothing is pending every version is where a user or the recovery   *)
(* evidence has it, and a retired transaction leaves no staged file.       *)
THEOREM AlwaysSurfaced == Spec => []Surfaced
  <1>1. ASSUME TypeOK, Durable PROVE Surfaced
    <2>1. \A t \in Tx : journal[t].phase = "none" => disk[Temp(t)] = Absent
      BY <1>1 DEF Durable, Retired, Exists
    <2>2. ASSUME Quiescent, NEW v \in owed, v \notin copies \cup residue
          PROVE  v \in VisibleFiles \cup Evidence
      <3>1. PICK s \in Slot : disk[s] = v /\ ~Spare(s)
        BY <1>1, <2>2 DEF Durable, Relied
      <3>2. v # Absent /\ sub.step = "none" /\ pc = "idle"
        BY <1>1, <2>2, Marks DEF Durable, Relied, Quiescent, Works, Busy
      <3>3. disk[Claim] = Absent /\ disk[Copy] = Absent
        BY <1>1, <3>2, AtFacts
      <3>4. \A t \in Tx : journal[t].phase = "none"
        BY <2>2 DEF Quiescent, Pending
      <3>5. \/ s \in {Note, Copy, Claim}
            \/ \E t \in Tx : s \in {Temp(t), Roll(t), Before(t), Side(t)}
        BY DEF Slot, Note, Copy, Claim, Temp, Roll, Before, Side
      <3>6. CASE s \in {Note, Copy, Claim}
        BY <3>1, <3>2, <3>3, <3>6 DEF VisibleFiles
      <3>7. ASSUME NEW t \in Tx, s \in {Temp(t), Roll(t), Before(t), Side(t)}
            PROVE  v \in VisibleFiles \cup Evidence
        BY <1>1, <3>1, <3>2, <3>4, <3>7 DEF VisibleFiles, Evidence, Durable, Retired, Exists
      <3> QED
        BY <3>5, <3>6, <3>7
    <2>3. Quiescent => owed \subseteq VisibleFiles \cup residue \cup Evidence
      BY <2>2 DEF VisibleFiles
    <2> QED
      BY <2>1, <2>3 DEF Surfaced
  <1> QED
    BY <1>1, AlwaysDurable, PTL

(* From the installed phase on, the recovery evidence is the version that  *)
(* the transaction displaced.                                              *)
THEOREM AlwaysDisplacedKept == Spec => []DisplacedKept
  <1>1. TypeOK /\ Durable => DisplacedKept
    BY DEF Durable, Displaced, DisplacedKept, Done
  <1> QED
    BY <1>1, AlwaysDurable, PTL

(* No write, conflict or recovery makes an existing note's name disappear, *)
(* unless a program wrote into the note while it was being moved.          *)
THEOREM NoteAlwaysStays == Spec => []NoteStays
  <1>1. TypeOK /\ Durable => NoteStays
    BY DEF Durable, NoteHeld, NoteGone, NoteStays, Quiescent, Pending
  <1> QED
    BY <1>1, AlwaysDurable, PTL
=============================================================================
