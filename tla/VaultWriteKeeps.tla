--------------------------- MODULE VaultWriteKeeps ---------------------------
(***************************************************************************)
(* The write transaction implements KeepBoth: what saving a note promises. *)
(* The variables added are history variables: which versions the note's    *)
(* name has held, which saves their callers took back, and whether the     *)
(* last thing another program saw under the name, or did to it, left a     *)
(* version there.                                                          *)
(***************************************************************************)
EXTENDS VaultWrite

VARIABLES held, withdrawn, there

\* While a live save has the note aside, it counts as being in its place: it
\* is in the claim, or in the rollback copy, unless its user deleted it.
Aside ==
  CASE ~there -> Absent
    [] there /\ sub.file = Note /\ Exists(Claim) -> disk[Claim]
    [] there /\ ~(sub.file = Note /\ Exists(Claim)) ->
         IF J.dest = Note THEN disk[Roll(cur)] ELSE Absent

Filling == \/ Running("fill") /\ sub.to = Note
           \/ Running("putfill") /\ sub.file = Note
Saving == mode = "open" /\ pc # "idle"

LogicalNote ==
  IF disk[Note] = Absent \/ (disk[Note] = Torn /\ Filling)
    THEN IF Saving THEN Aside ELSE Absent
    ELSE disk[Note]

VisibleCopies == (copies \cup {disk[Copy]} \cup {disk[Side(t)] : t \in Tx}) \cap Version

SaveOf(t) ==
  LET j == journal[t] IN
  [stage |-> CASE j.phase = "none" /\ history[t] = "none" -> "none"
               [] j.phase = "none" /\ history[t] # "none" -> "closed"
               [] j.phase = "intent" -> "begun"
               [] j.phase \notin {"none", "intent"} ->
                    IF t \in withdrawn THEN "withdrawn" ELSE "accepted",
   fresh |-> j.dest = Note /\ (j.phase # "none" \/ history[t] # "none"),
   base |-> j.before, next |-> j.next]

KeepsBoth == INSTANCE KeepBoth WITH
  note <- LogicalNote, copies <- VisibleCopies, save <- [t \in Tx |-> SaveOf(t)],
  others <- spent.save, failures <- spent.crash + spent.fault

HistoryInit == Init /\ held = {disk[Note]} \cap Version /\ withdrawn = {}
               /\ there = (disk[Note] \in Version)
HistoryNext ==
  /\ Next
  /\ withdrawn' = withdrawn \cup (IF pc' = "retire-temp" THEN {cur} ELSE {})
  /\ there' = IF spent'.save # spent.save THEN disk'[Note] # Absent
                                         ELSE there \/ disk'[Note] \in Version
  /\ held' = held \cup ({LogicalNote'} \cap Version)
HistorySpec == HistoryInit /\ [][HistoryNext]_<<vars, held, withdrawn, there>> /\ WF_vars(Kernel)

\* Saving keeps its promise.
Implements == KeepsBoth!Spec
=============================================================================
