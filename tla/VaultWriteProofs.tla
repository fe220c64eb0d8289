-------------------------- MODULE VaultWriteProofs --------------------------
(***************************************************************************)
(* Theorems about VaultWrite, for every set of transactions and versions   *)
(* and every bound.                                                        *)
(***************************************************************************)
EXTENDS VaultWrite, TLAPS

(* The names of the write protocol are slots of the disk.                  *)
LEMMA SlotNames ==
  /\ Note \in Slot /\ Copy \in Slot /\ Claim \in Slot
  /\ \A t \in Tx : Temp(t) \in Slot /\ Roll(t) \in Slot /\ Before(t) \in Slot /\ Side(t) \in Slot
  BY DEF Slot, Note, Copy, Claim, Temp, Roll, Before, Side

(* The names are pairwise different: no private name of a transaction, no  *)
(* conflict name and no quarantine name is the note's.                     *)
LEMMA NamesApart ==
  /\ Note # Copy /\ Note # Claim /\ Copy # Claim
  /\ \A t \in Tx : \A s \in {Note, Copy, Claim} :
       Temp(t) # s /\ Roll(t) # s /\ Before(t) # s /\ Side(t) # s
  /\ \A t \in Tx : /\ Temp(t) # Roll(t) /\ Temp(t) # Before(t) /\ Temp(t) # Side(t)
                   /\ Roll(t) # Before(t) /\ Roll(t) # Side(t) /\ Before(t) # Side(t)
  /\ \A t, u \in Tx : t # u =>
       /\ Temp(t) # Temp(u) /\ Temp(t) # Roll(u) /\ Temp(t) # Before(u) /\ Temp(t) # Side(u)
       /\ Roll(t) # Roll(u) /\ Roll(t) # Before(u) /\ Roll(t) # Side(u)
       /\ Before(t) # Before(u) /\ Before(t) # Side(u) /\ Side(t) # Side(u)
  BY DEF Note, Copy, Claim, Temp, Roll, Before, Side

(* The records that start a routine are routine states.                    *)
LEMMA RoutineTypes ==
  ASSUME disk \in [Slot -> Content], NEW s \in Slot, NEW f \in Slot, NEW c \in Content
  PROVE  NoSub \in Sub /\ Creating(s, c) \in Sub /\ Installing(f, s) \in Sub
         /\ Removing(s, c) \in Sub
  BY SlotNames DEF NoSub, Creating, Installing, Removing, Sub, SubStep, Content

-----------------------------------------------------------------------------
\* The initial state is typed.
LEMMA InitTyped == Init => TypeOK
  <1> SUFFICES ASSUME Init PROVE TypeOK
    OBVIOUS
  <1>1. PICK v \in Version \cup {Absent} :
          /\ disk = [s \in Slot |-> IF s = Note THEN v ELSE Absent]
          /\ owed = Kept({v}) /\ present = (v # Absent)
    BY DEF Init
  <1>2. disk \in [Slot -> Content] /\ owed \subseteq Content
    BY <1>1 DEF Content, Kept
  <1>3. present \in BOOLEAN
    BY <1>1
  <1>4. journal \in [Tx -> Journal]
    BY SlotNames DEF Init, Journal, Phase, Content
  <1>5. sub \in Sub
    BY <1>2, SlotNames, RoutineTypes DEF Init, Content
  <1>6. pc \in Label /\ history \in [Tx -> Outcome] /\ outcome \in Outcome
    BY DEF Init, Label, Outcome
  <1>7. spent \in [{"save", "late", "crash", "fault"} -> Nat]
    BY DEF Init
  <1> QED
    BY <1>2, <1>3, <1>4, <1>5, <1>6, <1>7 DEF Init, TypeOK, Content

\* A step of a file routine (install, remove, promote) keeps the types.
LEMMA RoutineTyped == TypeOK /\ Routine => TypeOK'
  <1> SUFFICES ASSUME TypeOK, Routine PROVE TypeOK'
    OBVIOUS
  <1> USE SlotNames DEF TypeOK, Running, Return, ghost, durable
  <1>n. NoSub \in Sub
    BY RoutineTypes
  <1>1. CASE CreateFile
    <2>1. disk' \in [Slot -> Content]
      BY <1>1 DEF CreateFile, Content
    <2>2. sub' \in Sub
      BY <1>1, <1>n DEF CreateFile, Sub, SubStep
    <2>3. ok' \in BOOLEAN
      BY <1>1 DEF CreateFile
    <2> QED
      BY <1>1, <2>1, <2>2, <2>3 DEF CreateFile
  <1>2. CASE FillFile
    BY <1>2, <1>n DEF FillFile, Sub, SubStep
  <1>3. CASE CheckInstalled
    BY <1>3, <1>n DEF CheckInstalled, Sub, SubStep
  <1>4. CASE ValidateClaim
    BY <1>4, <1>n DEF ValidateClaim, Sub, SubStep
  <1>5. CASE TakeClaim
    <2>1. disk' \in [Slot -> Content]
      BY <1>5 DEF TakeClaim, Content, Sub
    <2>2. sub' \in Sub
      BY <1>5, <1>n DEF TakeClaim, Sub, SubStep
    <2>3. ok' \in BOOLEAN
      BY <1>5 DEF TakeClaim
    <2> QED
      BY <1>5, <2>1, <2>2, <2>3 DEF TakeClaim
  <1>6. CASE InspectClaim
    BY <1>6, <1>n DEF InspectClaim, GiveBack, Sub, SubStep
  <1>7. CASE ReinspectClaim
    BY <1>7, <1>n DEF ReinspectClaim, GiveBack, Sub, SubStep
  <1>8. CASE PutBack
    BY <1>8, <1>n DEF PutBack, Sub, SubStep, Content
  <1>9. CASE PutFill
    BY <1>9, <1>n DEF PutFill, Sub, SubStep, Content
  <1>10. CASE SettleClaim
    BY <1>10, <1>n DEF SettleClaim, Sub, SubStep, Content, Kept
  <1> QED
    BY <1>1, <1>2, <1>3, <1>4, <1>5, <1>6, <1>7, <1>8, <1>9, <1>10 DEF Routine

\* A step of a live save keeps the types.
LEMMA LiveTyped == TypeOK /\ Live => TypeOK'
  <1> SUFFICES ASSUME TypeOK, Live PROVE TypeOK'
    OBVIOUS
  <1> USE SlotNames DEF TypeOK, At, Go, Call
  <1>r. /\ NoSub \in Sub
        /\ \A x, f \in Slot, c \in Content :
             Creating(x, c) \in Sub /\ Installing(f, x) \in Sub /\ Removing(x, c) \in Sub
    BY RoutineTypes
  <1>j. /\ J.dest \in Slot /\ J.before \in Content /\ J.next \in Content
        /\ \A x \in Slot : disk[x] \in Content
    BY DEF J, Journal
  <1>p. \A p \in Phase : [journal EXCEPT ![cur].phase = p] \in [Tx -> Journal]
    BY DEF Journal
  <1>1. CASE LogStaged
    <2>1. journal' \in [Tx -> Journal]
      BY <1>1, <1>p, <1>j DEF LogStaged, Log, Phase
    <2>2. pc' \in Label
      BY <1>1 DEF LogStaged, Log, Label, Keeps
    <2>3. owed' \subseteq Content
      BY <1>1, <1>j DEF LogStaged, Log
    <2> QED
      BY <1>1, <2>1, <2>2, <2>3 DEF LogStaged, Log, Frame, ghost, durable
  <1>2. CASE BackUp
    <2>1. pc' \in Label
      BY <1>2 DEF BackUp, Label, Keeps
    <2>2. sub' \in Sub
      BY <1>2, <1>r, <1>j DEF BackUp
    <2> QED
      BY <1>2, <2>1, <2>2 DEF BackUp, Frame, ghost, durable
  <1>3. CASE LogBackedUp
    <2>1. journal' \in [Tx -> Journal]
      BY <1>3, <1>p, <1>j DEF LogBackedUp, Log, Phase
    <2>2. pc' \in Label
      BY <1>3 DEF LogBackedUp, Log, Label, Keeps
    <2> QED
      BY <1>3, <2>1, <2>2 DEF LogBackedUp, Log, Frame, ghost, durable
  <1>4. CASE FinalCheck
    <2>1. pc' \in Label
      BY <1>4 DEF FinalCheck, Conflict, Label, Keeps
    <2>2. outcome' \in Outcome
      BY <1>4 DEF FinalCheck, Conflict, Outcome
    <2> QED
      BY <1>4, <2>1, <2>2 DEF FinalCheck, Conflict, Frame, ghost, durable
  <1>5. CASE LogPrepared
    <2>1. journal' \in [Tx -> Journal]
      BY <1>5, <1>p, <1>j DEF LogPrepared, Log, Phase
    <2>2. pc' \in Label
      BY <1>5 DEF LogPrepared, Log, Label, Keeps
    <2> QED
      BY <1>5, <2>1, <2>2 DEF LogPrepared, Log, Frame, ghost, durable
  <1>6. CASE Authorize
    <2>1. pc' \in Label
      BY <1>6 DEF Authorize, Label, Keeps
    <2>2. sub' \in Sub
      BY <1>6, <1>r, <1>j DEF Authorize
    <2> QED
      BY <1>6, <2>1, <2>2 DEF Authorize, Frame, ghost, durable
  <1>7. CASE Refuse
    <2>1. pc' \in Label
      BY <1>7 DEF Refuse, Label, Keeps
    <2>2. sub' \in Sub
      BY <1>7, <1>r, <1>j DEF Refuse
    <2>3. owed' \subseteq Content
      BY <1>7, <1>j DEF Refuse
    <2> QED
      BY <1>7, <2>1, <2>2, <2>3 DEF Refuse, Frame, ghost, durable
  <1>8. CASE RetireRefused
    <2>1. disk' \in [Slot -> Content]
      BY <1>8, <1>j DEF RetireRefused, Content
    <2>2. outcome' \in Outcome
      BY <1>8 DEF RetireRefused, Outcome
    <2>3. pc' \in Label
      BY <1>8 DEF RetireRefused, Label, Keeps
    <2> QED
      BY <1>8, <2>1, <2>2, <2>3 DEF RetireRefused, Frame, ghost, durable
  <1>9. CASE CopyAside
    <2>1. pc' \in Label
      BY <1>9 DEF CopyAside, Conflict, Label, Keeps
    <2>2. sub' \in Sub
      BY <1>9, <1>r, <1>j DEF CopyAside, Conflict
    <2>3. outcome' \in Outcome
      BY <1>9 DEF CopyAside, Conflict, Outcome
    <2> QED
      BY <1>9, <2>1, <2>2, <2>3 DEF CopyAside, Conflict, Frame, ghost, durable
  <1>10. CASE TakeAside
    <2>1. pc' \in Label
      BY <1>10 DEF TakeAside, Label, Keeps
    <2>2. sub' \in Sub
      BY <1>10, <1>r, <1>j DEF TakeAside
    <2> QED
      BY <1>10, <2>1, <2>2 DEF TakeAside, Frame, ghost, durable
  <1>11. CASE MovedAside
    <2>1. pc' \in Label
      BY <1>11 DEF MovedAside, Conflict, Label, Keeps
    <2>2. outcome' \in Outcome
      BY <1>11 DEF MovedAside, Conflict, Outcome
    <2> QED
      BY <1>11, <2>1, <2>2 DEF MovedAside, Conflict, Frame, ghost, durable
  <1>12. CASE VerifyAside
    <2>1. disk' \in [Slot -> Content]
      BY <1>12, <1>j DEF VerifyAside, Conflict, Content
    <2>2. sub' \in Sub
      BY <1>12, <1>r, <1>j DEF VerifyAside, Conflict
    <2>3. pc' \in Label
      BY <1>12 DEF VerifyAside, Conflict, Label, Keeps
    <2>4. outcome' \in Outcome
      BY <1>12 DEF VerifyAside, Conflict, Outcome
    <2> QED
      BY <1>12, <2>1, <2>2, <2>3, <2>4 DEF VerifyAside, Conflict, Frame, ghost, durable
  <1>13. CASE Restored
    <2>1. pc' \in Label
      BY <1>13 DEF Restored, Conflict, Label, Keeps
    <2>2. outcome' \in Outcome
      BY <1>13 DEF Restored, Conflict, Outcome
    <2> QED
      BY <1>13, <2>1, <2>2 DEF Restored, Conflict, Frame, ghost, durable
  <1>14. CASE InstallDone
    <2>1. pc' \in Label
      BY <1>14 DEF InstallDone, Conflict, Label, Keeps
    <2>2. outcome' \in Outcome
      BY <1>14 DEF InstallDone, Conflict, Outcome
    <2> QED
      BY <1>14, <2>1, <2>2 DEF InstallDone, Conflict, Frame, ghost, durable
  <1>15. CASE LogInstalled
    <2>1. journal' \in [Tx -> Journal]
      BY <1>15, <1>p, <1>j DEF LogInstalled, Log, Phase
    <2>2. pc' \in Label
      BY <1>15 DEF LogInstalled, Log, Label, Keeps
    <2> QED
      BY <1>15, <2>1, <2>2 DEF LogInstalled, Log, Frame, ghost, durable
  <1>16. CASE PreserveRollback
    <2>1. disk' \in [Slot -> Content]
      BY <1>16, <1>j DEF PreserveRollback, Content
    <2>2. sub' \in Sub
      BY <1>16, <1>r, <1>j DEF PreserveRollback
    <2>3. pc' \in Label
      BY <1>16 DEF PreserveRollback, Label, Keeps, AfterKeep
    <2> QED
      BY <1>16, <2>1, <2>2, <2>3 DEF PreserveRollback, Frame, ghost, durable
  <1>17. CASE LogCommitted
    <2>1. journal' \in [Tx -> Journal]
      BY <1>17, <1>p, <1>j DEF LogCommitted, Phase
    <2>2. outcome' \in Outcome
      BY <1>17 DEF LogCommitted, Outcome
    <2>3. pc' \in Label
      BY <1>17 DEF LogCommitted, Label, Keeps
    <2> QED
      BY <1>17, <2>1, <2>2, <2>3 DEF LogCommitted, Frame, ghost, durable
  <1>18. CASE Promote
    <2>1. sub' \in Sub
      BY <1>18, <1>r, <1>j DEF Promote, GiveUp
    <2>2. mode' \in {"down", "recovering", "open"}
      BY <1>18 DEF Promote, GiveUp
    <2>3. pc' \in Label
      BY <1>18 DEF Promote, GiveUp, Label, Keeps
    <2> QED
      BY <1>18, <2>1, <2>2, <2>3 DEF Promote, GiveUp, Frame, ghost, durable
  <1>19. CASE Promoted
    <2>1. copies' \subseteq Version \cup {Torn}
      BY <1>19, <1>j DEF Promoted, Kept, Content
    <2>2. disk' \in [Slot -> Content]
      BY <1>19, <1>j DEF Promoted, Content
    <2>3. pc' \in Label
      BY <1>19 DEF Promoted, Label, Keeps
    <2> QED
      BY <1>19, <2>1, <2>2, <2>3 DEF Promoted, Frame, ghost, durable
  <1>20. CASE Archive
    <2>1. history' \in [Tx -> Outcome]
      BY <1>20 DEF Archive
    <2>2. pc' \in Label
      BY <1>20 DEF Archive, Label, Keeps
    <2> QED
      BY <1>20, <2>1, <2>2 DEF Archive, Frame, ghost, durable
  <1>21. CASE Retire
    <2>1. journal' \in [Tx -> Journal]
      BY <1>21, <1>p, <1>j DEF Retire, Phase
    <2>2. pc' \in Label
      BY <1>21 DEF Retire, Label, Keeps
    <2> QED
      BY <1>21, <2>1, <2>2 DEF Retire, Frame, ghost, durable
  <1>22. CASE Rethrow
    <2>1. pc' \in Label
      BY <1>22 DEF Rethrow, Label, Keeps
    <2> QED
      BY <1>22, <2>1 DEF Rethrow, Frame, ghost, durable
  <1> QED
    BY <1>1, <1>2, <1>3, <1>4, <1>5, <1>6, <1>7, <1>8, <1>9, <1>10, <1>11, <1>12, <1>13, <1>14, <1>15, <1>16, <1>17, <1>18, <1>19, <1>20, <1>21, <1>22 DEF Live

\* A step of the recovery of a journal keeps the types.
LEMMA RecoveryTyped == TypeOK /\ Recovery => TypeOK'
  <1> SUFFICES ASSUME TypeOK, Recovery PROVE TypeOK'
    OBVIOUS
  <1> USE SlotNames DEF TypeOK, At, Go, Call
  <1>r. /\ NoSub \in Sub
        /\ \A x, f \in Slot, c \in Content :
             Creating(x, c) \in Sub /\ Installing(f, x) \in Sub /\ Removing(x, c) \in Sub
    BY RoutineTypes
  <1>j. /\ J.dest \in Slot /\ J.before \in Content /\ J.next \in Content
        /\ \A x \in Slot : disk[x] \in Content
    BY DEF J, Journal
  <1>p. \A p \in Phase : [journal EXCEPT ![cur].phase = p] \in [Tx -> Journal]
    BY DEF Journal
  <1>1. CASE RecoverNext
    <2>1. cur' \in Tx
      BY <1>1 DEF RecoverNext, Pending
    <2>2. pc' \in Label
      BY <1>1 DEF RecoverNext, Label, Keeps
    <2> QED
      BY <1>1, <2>1, <2>2 DEF RecoverNext, Frame, ghost, durable
  <1>2. CASE Opened
    <2>1. mode' \in {"down", "recovering", "open"}
      BY <1>2 DEF Opened
    <2>2. pc' \in Label
      BY <1>2 DEF Opened, Label, Keeps
    <2> QED
      BY <1>2, <2>1, <2>2 DEF Opened, Frame, ghost, durable
  <1>3. CASE RecRead
    <2>1. pc' \in Label
      BY <1>3 DEF RecRead, Label, Keeps
    <2>2. sub' \in Sub
      BY <1>3, <1>r, <1>j DEF RecRead
    <2> QED
      BY <1>3, <2>1, <2>2 DEF RecRead, Frame, ghost, durable
  <1>4. CASE RecTemp
    <2>1. pc' \in Label
      BY <1>4 DEF RecTemp, Label, Keeps
    <2>2. outcome' \in Outcome
      BY <1>4 DEF RecTemp, Outcome
    <2>3. sub' \in Sub
      BY <1>4, <1>r, <1>j DEF RecTemp
    <2> QED
      BY <1>4, <2>1, <2>2, <2>3 DEF RecTemp, Frame, ghost, durable
  <1>5. CASE RecTempRemoved
    <2>1. outcome' \in Outcome
      BY <1>5 DEF RecTempRemoved, Outcome
    <2>2. pc' \in Label
      BY <1>5 DEF RecTempRemoved, Label, Keeps
    <2> QED
      BY <1>5, <2>1, <2>2 DEF RecTempRemoved, Frame, ghost, durable
  <1>6. CASE RecInstalled
    <2>1. journal' \in [Tx -> Journal]
      BY <1>6, <1>p, <1>j DEF RecInstalled, Phase
    <2>2. outcome' \in Outcome
      BY <1>6 DEF RecInstalled, Outcome
    <2>3. pc' \in Label
      BY <1>6 DEF RecInstalled, Label, Keeps
    <2> QED
      BY <1>6, <2>1, <2>2, <2>3 DEF RecInstalled, Frame, ghost, durable
  <1>7. CASE RecRestore
    <2>1. sub' \in Sub
      BY <1>7, <1>r, <1>j DEF RecRestore
    <2>2. pc' \in Label
      BY <1>7 DEF RecRestore, Label, Keeps
    <2> QED
      BY <1>7, <2>1, <2>2 DEF RecRestore, Frame, ghost, durable
  <1>8. CASE RecRestored
    <2>1. pc' \in Label
      BY <1>8 DEF RecRestored, Label, Keeps
    <2> QED
      BY <1>8, <2>1 DEF RecRestored, Frame, ghost, durable
  <1>9. CASE RecExtra
    <2>1. pc' \in Label
      BY <1>9 DEF RecExtra, Conflict, Label, Keeps
    <2>2. outcome' \in Outcome
      BY <1>9 DEF RecExtra, Conflict, Outcome
    <2> QED
      BY <1>9, <2>1, <2>2 DEF RecExtra, Conflict, Frame, ghost, durable
  <1>10. CASE RecOutcome
    <2>1. outcome' \in Outcome
      BY <1>10 DEF RecOutcome, Outcome
    <2>2. pc' \in Label
      BY <1>10 DEF RecOutcome, Label, Keeps
    <2> QED
      BY <1>10, <2>1, <2>2 DEF RecOutcome, Frame, ghost, durable
  <1> QED
    BY <1>1, <1>2, <1>3, <1>4, <1>5, <1>6, <1>7, <1>8, <1>9, <1>10 DEF Recovery

\* Opening, a crash and a failed file operation keep the types.
LEMMA FailureTyped == TypeOK /\ (Open \/ Crash \/ Fault) => TypeOK'
  <1> SUFFICES ASSUME TypeOK, (Open \/ Crash \/ Fault) PROVE TypeOK'
    OBVIOUS
  <1> USE SlotNames DEF TypeOK, At, Go, Call
  <1>r. /\ NoSub \in Sub
        /\ \A x, f \in Slot, c \in Content :
             Creating(x, c) \in Sub /\ Installing(f, x) \in Sub /\ Removing(x, c) \in Sub
    BY RoutineTypes
  <1>j. /\ J.dest \in Slot /\ J.before \in Content /\ J.next \in Content
        /\ \A x \in Slot : disk[x] \in Content
    BY DEF J, Journal
  <1>p. \A p \in Phase : [journal EXCEPT ![cur].phase = p] \in [Tx -> Journal]
    BY DEF Journal
  <1>1. CASE Open
    <2>1. mode' \in {"down", "recovering", "open"}
      BY <1>1 DEF Open
    <2>2. pc' \in Label
      BY <1>1 DEF Open, Label, Keeps
    <2> QED
      BY <1>1, <2>1, <2>2 DEF Open, Frame, ghost, durable
  <1>2. CASE Crash
    <2>1. disk' \in [Slot -> Content]
      BY <1>2, <1>j DEF Crash, Abandon, Spend, Content
    <2>2. copies' \subseteq Version \cup {Torn}
      BY <1>2, <1>j DEF Crash, Abandon, Spend, Kept, Content
    <2>3. residue' \subseteq Version \cup {Torn}
      BY <1>2, <1>j DEF Crash, Abandon, Spend, Kept, Content
    <2>4. mode' \in {"down", "recovering", "open"}
      BY <1>2 DEF Crash, Abandon, Spend
    <2>5. pc' \in Label
      BY <1>2 DEF Crash, Abandon, Spend, Label, Keeps
    <2>6. sub' \in Sub
      BY <1>2, <1>r, <1>j DEF Crash, Abandon, Spend
    <2>7. spent' \in [{"save", "late", "crash", "fault"} -> Nat]
      BY <1>2 DEF Crash, Abandon, Spend
    <2> QED
      BY <1>2, <2>1, <2>2, <2>3, <2>4, <2>5, <2>6, <2>7 DEF Crash, Abandon, Spend, Frame, ghost, durable
  <1>3. CASE Fault
    <2>1. disk' \in [Slot -> Content]
      BY <1>3, <1>j DEF Fault, Abandon, Spend, Content
    <2>2. copies' \subseteq Version \cup {Torn}
      BY <1>3, <1>j DEF Fault, Abandon, Spend, Kept, Content
    <2>3. residue' \subseteq Version \cup {Torn}
      BY <1>3, <1>j DEF Fault, Abandon, Spend, Kept, Content
    <2>4. sub' \in Sub
      BY <1>3, <1>r, <1>j DEF Fault, Abandon, Spend, Return, GiveUp
    <2>5. ok' \in BOOLEAN
      BY <1>3 DEF Fault, Abandon, Spend, Return, GiveUp
    <2>6. mode' \in {"down", "recovering", "open"}
      BY <1>3 DEF Fault, Abandon, Spend, Return, GiveUp
    <2>7. pc' \in Label
      BY <1>3 DEF Fault, Abandon, Spend, Label, Keeps, Return, GiveUp
    <2>8. spent' \in [{"save", "late", "crash", "fault"} -> Nat]
      BY <1>3 DEF Fault, Abandon, Spend
    <2> QED
      BY <1>3, <2>1, <2>2, <2>3, <2>4, <2>5, <2>6, <2>7, <2>8 DEF Fault, Abandon, Spend, Frame, ghost, durable
  <1> QED
    BY <1>1, <1>2, <1>3 

\* What another program does keeps the types.
LEMMA ExternalTyped == TypeOK /\ External => TypeOK'
  <1> SUFFICES ASSUME TypeOK, External PROVE TypeOK'
    OBVIOUS
  <1> USE SlotNames DEF TypeOK
  <1>s. \A what \in {"save", "late", "crash", "fault"}, max \in Nat :
          Spend(what, max) => spent' \in [{"save", "late", "crash", "fault"} -> Nat]
    BY DEF Spend
  <1>1. ASSUME NEW v \in Version, ExtSave(v) PROVE TypeOK'
    <2>1. disk' \in [Slot -> Content] /\ owed' \subseteq Content /\ latest' \in Content
      BY <1>1 DEF ExtSave, Content
    <2> QED
      BY <1>1, <1>s, <2>1, Bounds DEF ExtSave, volatile
  <1>2. ASSUME NEW v \in Version, ExtLateSave(v) PROVE TypeOK'
    <2>1. disk' \in [Slot -> Content] /\ owed' \subseteq Content /\ latest' \in Content
      BY <1>2 DEF ExtLateSave, Content
    <2> QED
      BY <1>2, <1>s, <2>1, Bounds DEF ExtLateSave, volatile
  <1>3. CASE ExtDelete
    <2>1. disk' \in [Slot -> Content] /\ owed' \subseteq Content /\ latest' \in Content
      BY <1>3 DEF ExtDelete, Content
    <2> QED
      BY <1>3, <1>s, <2>1, Bounds DEF ExtDelete, volatile
  <1> QED
    BY <1>1, <1>2, <1>3 DEF External

\* The start of a save keeps the types.
LEMMA BeginTyped ==
  ASSUME TypeOK, NEW t \in Tx, NEW e \in Version \cup {Absent}, NEW v \in Version, Begin(t, e, v)
  PROVE  TypeOK'
  <1> USE SlotNames DEF TypeOK, Content
  <1>1. journal' \in [Tx -> Journal]
    BY DEF Begin, Journal, Phase
  <1>2. sub' \in Sub
    BY RoutineTypes DEF Begin, Call
  <1>3. pc' \in Label
    BY DEF Begin, Call, Go, Label
  <1> QED
    BY <1>1, <1>2, <1>3 DEF Begin

\* Every step of the specification keeps the types.
LEMMA StepTyped == TypeOK /\ [Next]_vars => TypeOK'
  <1> SUFFICES ASSUME TypeOK, [Next]_vars PROVE TypeOK'
    OBVIOUS
  <1>1. CASE UNCHANGED vars
    BY <1>1 DEF TypeOK, vars, durable, volatile, ghost
  <1>2. CASE Next
    BY <1>2, BeginTyped, RoutineTyped, LiveTyped, RecoveryTyped, FailureTyped, ExternalTyped
       DEF Next, Kernel
  <1> QED
    BY <1>1, <1>2

(* Every variable keeps its type, however writes, recovery, failing calls, *)
(* crashes and external saves follow one another.                          *)
THEOREM TypeCorrect == Spec => []TypeOK
  BY InitTyped, StepTyped, PTL DEF Spec

-----------------------------------------------------------------------------
(* The kernel never replaces a version at the note's name.                 *)

(* The steps that only a live transaction takes, never recovery.           *)
LiveOnly ==
  {"staged", "backup", "backed-up", "final", "prepare", "authorize", "retire-temp",
   "aside", "aside-made", "moved", "verify", "restored", "rethrow", "install-done",
   "log-installed", "log-committed", "keep-promote", "keep-commit"}

(* The inductive invariant: nothing runs in a stopped process, the live    *)
(* steps run in an open vault, and what is being claimed is the note only  *)
(* when a live transaction moves it aside.                                 *)
ClaimsInOpenVault ==
  /\ mode = "down" => pc = "down" /\ sub.step = "none"
  /\ pc \in LiveOnly => mode = "open"
  /\ sub.op = "create" => sub.step \in {"none", "create", "fill"}
  /\ sub.op = "install" => sub.file # Note
  /\ sub.op = "remove" /\ sub.file = Note => mode = "open"

\* Nothing is being removed initially.
LEMMA InitClaims == Init => ClaimsInOpenVault
  BY DEF Init, ClaimsInOpenVault, LiveOnly, Removal, NoSub

\* A file routine never turns to the note's name by itself.
LEMMA RoutineClaims == TypeOK /\ ClaimsInOpenVault /\ Routine => ClaimsInOpenVault'
  <1> SUFFICES ASSUME TypeOK, ClaimsInOpenVault, Routine PROVE ClaimsInOpenVault'
    OBVIOUS
  <1> USE DEF Running, Return, ClaimsInOpenVault, Removal, NoSub
  <1>1. mode' = mode /\ pc' = pc
    BY DEF Routine, CreateFile, FillFile, CheckInstalled, ValidateClaim, TakeClaim, InspectClaim,
           ReinspectClaim, PutBack, PutFill, SettleClaim
  <1>2. sub' = NoSub \/ /\ sub'.op = sub.op /\ sub'.file = sub.file /\ sub.step # "none"
                        /\ sub.op = "create" => sub'.step \in {"none", "create", "fill"}
    <2>s. sub \in Sub
      BY DEF TypeOK
    <2> USE <2>s DEF Sub
    <2>1. CASE CreateFile
      BY <2>1 DEF CreateFile
    <2>2. CASE FillFile
      BY <2>2 DEF FillFile
    <2>3. CASE CheckInstalled \/ ValidateClaim
      BY <2>3 DEF CheckInstalled, ValidateClaim
    <2>4. CASE TakeClaim
      BY <2>4 DEF TakeClaim
    <2>5. CASE InspectClaim \/ ReinspectClaim
      BY <2>5 DEF InspectClaim, ReinspectClaim, GiveBack
    <2>6. CASE PutBack \/ PutFill
      BY <2>6 DEF PutBack, PutFill
    <2>7. CASE SettleClaim
      BY <2>7 DEF SettleClaim
    <2> QED
      BY <2>1, <2>2, <2>3, <2>4, <2>5, <2>6, <2>7 DEF Routine
  <1> QED
    BY <1>1, <1>2

\* A live save starts the removal of the note in an open vault only.
LEMMA LiveClaims == TypeOK /\ ClaimsInOpenVault /\ Live => ClaimsInOpenVault'
  <1> SUFFICES ASSUME TypeOK, ClaimsInOpenVault, Live PROVE ClaimsInOpenVault'
    OBVIOUS
  <1> USE DEF ClaimsInOpenVault, LiveOnly, At, Go, Call, Frame, Log, Conflict, NoSub, Creating,
              Installing, Removing
  <1>n. cur \in Tx /\ Temp(cur) # Note /\ Roll(cur) # Note
    BY NamesApart DEF TypeOK
  <1>1. CASE LogStaged \/ LogBackedUp \/ LogPrepared \/ LogInstalled \/ LogCommitted
    BY <1>1 DEF LogStaged, LogBackedUp, LogPrepared, LogInstalled, LogCommitted
  <1>2. CASE BackUp
    BY <1>2 DEF BackUp
  <1>3. CASE FinalCheck \/ MovedAside \/ Restored \/ InstallDone
    BY <1>3 DEF FinalCheck, MovedAside, Restored, InstallDone
  <1>4. CASE Authorize
    BY <1>4, <1>n DEF Authorize
  <1>5. CASE Refuse
    BY <1>5, <1>n DEF Refuse
  <1>6. CASE CopyAside
    BY <1>6 DEF CopyAside
  <1>7. CASE TakeAside
    BY <1>7 DEF TakeAside
  <1>8. CASE VerifyAside
    BY <1>8, <1>n DEF VerifyAside
  <1>9. CASE PreserveRollback
    BY <1>9, <1>n DEF PreserveRollback, AfterKeep, Keeps
  <1>10. CASE Promote
    <2>1. pc = "promote" /\ mode # "down"
      BY <1>10 DEF Promote
    <2>2. CASE sub' = Installing(Temp(cur), Copy) /\ pc' = "promoted" /\ mode' = mode
      BY <2>1, <2>2, <1>n
    <2>3. CASE GiveUp
      BY <2>1, <2>3 DEF GiveUp
    <2> QED
      BY <1>10, <2>2, <2>3 DEF Promote
  <1>11. CASE RetireRefused \/ Promoted \/ Archive \/ Retire \/ Rethrow
    BY <1>11 DEF RetireRefused, Promoted, Archive, Retire, Rethrow, volatile
  <1> QED
    BY <1>1, <1>2, <1>3, <1>4, <1>5, <1>6, <1>7, <1>8, <1>9, <1>10, <1>11 DEF Live

\* Recovery removes transaction files, never the note.
LEMMA RecoveryClaims == TypeOK /\ ClaimsInOpenVault /\ Recovery => ClaimsInOpenVault'
  <1> SUFFICES ASSUME TypeOK, ClaimsInOpenVault, Recovery PROVE ClaimsInOpenVault'
    OBVIOUS
  <1> USE DEF ClaimsInOpenVault, LiveOnly, At, Go, Call, Frame, Conflict, NoSub, Installing, Removing
  <1>n. cur \in Tx /\ Temp(cur) # Note /\ Roll(cur) # Note
    BY NamesApart DEF TypeOK
  <1>1. CASE RecoverNext \/ Opened
    BY <1>1 DEF RecoverNext, Opened
  <1>2. CASE RecRead
    BY <1>2, <1>n DEF RecRead
  <1>3. CASE RecTemp
    BY <1>3, <1>n DEF RecTemp
  <1>4. CASE RecRestore
    BY <1>4, <1>n DEF RecRestore
  <1>5. CASE RecTempRemoved \/ RecInstalled \/ RecRestored \/ RecExtra \/ RecOutcome
    BY <1>5 DEF RecTempRemoved, RecInstalled, RecRestored, RecExtra, RecOutcome
  <1> QED
    BY <1>1, <1>2, <1>3, <1>4, <1>5 DEF Recovery

\* Closing or crashing ends the removal under way with its mode.
LEMMA FailureClaims == TypeOK /\ ClaimsInOpenVault /\ (Open \/ Crash \/ Fault) => ClaimsInOpenVault'
  <1> SUFFICES ASSUME TypeOK, ClaimsInOpenVault, Open \/ Crash \/ Fault PROVE ClaimsInOpenVault'
    OBVIOUS
  <1> USE DEF ClaimsInOpenVault, LiveOnly, Go, NoSub
  <1>1. CASE Open
    BY <1>1 DEF Open, durable
  <1>2. CASE Crash
    BY <1>2 DEF Crash
  <1>3. CASE Fault
    <2>n. cur \in Tx /\ Roll(cur) # Note
      BY NamesApart DEF TypeOK
    <2>1. pc # "down" /\ mode # "down"
      BY <1>3 DEF Fault, Busy
    <2>2. CASE Return(FALSE) /\ UNCHANGED <<mode, pc>>
      BY <2>1, <2>2 DEF Return
    <2>3. CASE /\ pc = "install-done" /\ Call(Installing(Roll(cur), J.dest), "rethrow")
               /\ UNCHANGED <<mode, ok>>
      BY <2>1, <2>3, <2>n DEF Call, Installing
    <2>4. CASE GiveUp
      BY <2>1, <2>4 DEF GiveUp
    <2> QED
      BY <1>3, <2>2, <2>3, <2>4 DEF Fault
  <1> QED
    BY <1>1, <1>2, <1>3

\* Every step keeps the note's removal inside an open vault.
LEMMA StepClaims == TypeOK /\ ClaimsInOpenVault /\ [Next]_vars => ClaimsInOpenVault'
  <1> SUFFICES ASSUME TypeOK, ClaimsInOpenVault, [Next]_vars PROVE ClaimsInOpenVault'
    OBVIOUS
  <1>1. ASSUME NEW t \in Tx, NEW e \in Version \cup {Absent}, NEW v \in Version, Begin(t, e, v)
        PROVE  ClaimsInOpenVault'
    BY <1>1 DEF Begin, ClaimsInOpenVault, LiveOnly, At, Go, Call, Creating, NoSub
  <1>2. CASE External
    BY <1>2 DEF External, ExtSave, ExtDelete, ExtLateSave, ClaimsInOpenVault, volatile
  <1>3. CASE UNCHANGED vars
    BY <1>3 DEF vars, volatile, ClaimsInOpenVault
  <1> QED
    BY <1>1, <1>2, <1>3, RoutineClaims, LiveClaims, RecoveryClaims, FailureClaims DEF Next, Kernel

(* What a step may do to the note's name: KernelNeverOverwrites.           *)
KeepsNote ==
  disk'[Note] # disk[Note] /\ spent' = spent =>
     \/ disk[Note] \in {Absent, Torn}
     \/ mode = "open" /\ disk'[Note] = Absent

\* A file routine fills a free note or, in an open vault, moves it aside.
LEMMA RoutineKeepsNote == TypeOK /\ ClaimsInOpenVault /\ Routine => KeepsNote
  <1> SUFFICES ASSUME TypeOK, ClaimsInOpenVault, Routine PROVE KeepsNote
    OBVIOUS
  <1> USE SlotNames, NamesApart DEF TypeOK, KeepsNote, Running, Sub
  <1>1. CASE CreateFile
    BY <1>1 DEF CreateFile, NameFree, Exists
  <1>2. CASE FillFile
    BY <1>2 DEF FillFile
  <1>3. CASE TakeClaim
    <2>1. sub.file = Note => mode = "open"
      BY <1>3 DEF TakeClaim, ClaimsInOpenVault
    <2> QED
      BY <1>3, <2>1 DEF TakeClaim
  <1>4. CASE PutBack
    BY <1>4 DEF PutBack, Exists
  <1>5. CASE PutFill
    BY <1>5 DEF PutFill
  <1>6. CASE SettleClaim
    BY <1>6 DEF SettleClaim
  <1>7. CASE CheckInstalled \/ ValidateClaim \/ InspectClaim \/ ReinspectClaim
    BY <1>7 DEF CheckInstalled, ValidateClaim, InspectClaim, ReinspectClaim, durable
  <1> QED
    BY <1>1, <1>2, <1>3, <1>4, <1>5, <1>6, <1>7 DEF Routine

\* Every step that another program did not take keeps the note as KeepsNote says.
LEMMA StepKeepsNote == TypeOK /\ ClaimsInOpenVault /\ [Next]_vars => KeepsNote
  <1> SUFFICES ASSUME TypeOK, ClaimsInOpenVault, [Next]_vars PROVE KeepsNote
    OBVIOUS
  <1> USE SlotNames, NamesApart DEF TypeOK, KeepsNote
  <1>1. CASE Live
    <2>1. CASE RetireRefused
      BY <2>1 DEF RetireRefused
    <2>2. CASE VerifyAside
      BY <2>2 DEF VerifyAside
    <2>3. CASE PreserveRollback
      BY <2>3 DEF PreserveRollback
    <2>4. CASE Promoted
      BY <2>4 DEF Promoted
    <2>5. ASSUME ~(RetireRefused \/ VerifyAside \/ PreserveRollback \/ Promoted) PROVE disk' = disk
      BY <1>1, <2>5 DEF Live, LogStaged, BackUp, LogBackedUp, FinalCheck, LogPrepared, Authorize,
         Refuse, CopyAside, TakeAside, MovedAside, Restored, InstallDone, LogInstalled, Log,
         LogCommitted, Promote, Archive, Retire, Rethrow, durable
    <2> QED
      BY <2>1, <2>2, <2>3, <2>4, <2>5
  <1>2. CASE Recovery \/ Open
    <2>1. disk' = disk
      BY <1>2 DEF Recovery, Open, RecoverNext, Opened, RecRead, RecTemp, RecTempRemoved,
         RecInstalled, RecRestore, RecRestored, RecExtra, RecOutcome, durable
    <2> QED
      BY <2>1
  <1>3. CASE Crash \/ Fault \/ External
    <2>1. \A what \in {"save", "late", "crash", "fault"}, max \in Nat :
            Spend(what, max) => spent' # spent
      BY DEF Spend
    <2>2. CASE Crash \/ Fault
      <3>1. MaxFault \in Nat /\ MaxCrash \in Nat
        BY Bounds
      <3> QED
        BY <2>1, <2>2, <3>1 DEF Crash, Fault
    <2>3. CASE External
      BY <2>1, <2>3, Bounds DEF External, ExtSave, ExtDelete, ExtLateSave
    <2> QED
      BY <1>3, <2>2, <2>3
  <1>4. ASSUME NEW t \in Tx, NEW e \in Version \cup {Absent}, NEW v \in Version, Begin(t, e, v)
        PROVE  KeepsNote
    BY <1>4 DEF Begin
  <1>5. CASE UNCHANGED vars
    BY <1>5 DEF vars, durable
  <1> QED
    BY <1>1, <1>2, <1>3, <1>4, <1>5, RoutineKeepsNote DEF Next, Kernel

(* No step of the kernel replaces a version at the note's name, and only a *)
(* live transaction takes the name away: for any number of transactions,   *)
(* external saves, failing calls and crashes.                              *)
THEOREM NeverOverwrites == Spec => KernelNeverOverwrites
  <1>1. TypeOK /\ ClaimsInOpenVault /\ [Next]_vars
          => [ disk'[Note] # disk[Note] /\ spent' = spent =>
                 \/ disk[Note] \in {Absent, Torn}
                 \/ (mode = "open" /\ disk'[Note] = Absent) ]_vars
    BY StepKeepsNote DEF KeepsNote
  <1> QED
    BY <1>1, InitTyped, StepTyped, InitClaims, StepClaims, PTL DEF Spec, KernelNeverOverwrites

=============================================================================
