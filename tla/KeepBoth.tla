------------------------------ MODULE KeepBoth ------------------------------
(***************************************************************************)
(* What saving a note promises, whoever else saves it and whenever the     *)
(* application stops: the note is a register with compare-and-swap, and a  *)
(* save that does not replace exactly the version it had read adds a copy. *)
(* No other version is ever replaced; a deletion may come too late.        *)
(*                                                                         *)
(* The note is what a program that ignores the instant of a replacement    *)
(* sees under the note's name.  A failure in that instant leaves the name  *)
(* free, or on a file without its bytes, until the vault is opened again;  *)
(* what the name gets back then is a version it has held.                  *)
(***************************************************************************)
EXTENDS Naturals

CONSTANTS Tx, Version, Absent, Torn

VARIABLES
  note,    \* the version under the note's name, or Absent, or Torn
  held,    \* every version it has held
  copies,  \* the versions in conflict copies
  save,    \* Tx -> the save: its stage, the version it read, its proposal
  others,  \* number of changes by other programs
  failures \* number of crashes and failed calls

world == <<others, failures>>
vars == <<note, held, copies, save, world>>

\* A save whose version was out of date from the start has no base.
Idle == [stage |-> "none", fresh |-> FALSE, base |-> Absent, next |-> Absent]

Open == {t \in Tx : save[t].stage \notin {"none", "closed"}}
Effective(t) == save[t].next \in held \cup copies

Becomes(v) == note' = v /\ held' = held \cup ({v} \cap Version)
-----------------------------------------------------------------------------
Init ==
  /\ note \in Version \cup {Absent} /\ held = {note} \cap Version
  /\ copies = {} /\ save = [t \in Tx |-> Idle]
  /\ others = 0 /\ failures = 0

\* A save begins; it has read the version b, now or some time ago.
Begin(t, b, v) ==
  /\ save[t].stage = "none"
  /\ save' = [save EXCEPT ![t] =
       [stage |-> "begun", fresh |-> note = b,
        base |-> IF note = b THEN b ELSE Absent, next |-> v]]
  /\ UNCHANGED <<note, held, copies, world>>

\* The proposal is on disk and will not be forgotten.
Accept(t) ==
  /\ save[t].stage = "begun"
  /\ save' = [save EXCEPT ![t].stage = "accepted"]
  /\ UNCHANGED <<note, held, copies, world>>

\* The caller's last condition for the save fails.
Withdraw(t) ==
  /\ save[t].stage = "accepted"
  /\ save' = [save EXCEPT ![t].stage = "withdrawn"]
  /\ UNCHANGED <<note, held, copies, world>>

\* The save replaces the version it had read, and no other.  That the note is
\* deleted after the comparison may go unnoticed.
Swap(t) ==
  /\ t \in Open /\ save[t].stage # "withdrawn"
  /\ save[t].fresh /\ note \in {save[t].base, Absent}
  /\ Becomes(save[t].next)
  /\ UNCHANGED <<copies, save, world>>

\* The save goes to a name of its own.
AddCopy(t) ==
  /\ t \in Open
  /\ copies' = copies \cup {save[t].next}
  /\ UNCHANGED <<note, held, save, world>>

\* The save is over; if it was accepted, its text has been in the note or is
\* in a copy.
Close(t) ==
  /\ t \in Open
  /\ save[t].stage = "accepted" => Effective(t)
  /\ save' = [save EXCEPT ![t].stage = "closed"]
  /\ UNCHANGED <<note, held, copies, world>>

\* A failure in the middle of a replacement.
Fail ==
  /\ failures' = failures + 1
  /\ Becomes(note) \/ (Open # {} /\ \E v \in {Absent, Torn} : Becomes(v))
  /\ UNCHANGED <<copies, save, others>>

\* The name gets a version back, or the remains of a copy a failure cut off.
Restore ==
  /\ Open # {} /\ note = Absent
  /\ \E v \in held \cup {Torn} : Becomes(v)
  /\ UNCHANGED <<copies, save, world>>

\* Another program saves or deletes the note.
External ==
  /\ others' = others + 1
  /\ \E v \in Version \cup {Absent} : Becomes(v)
  /\ UNCHANGED <<copies, save, failures>>

Next ==
  \/ \E t \in Tx : \/ \E b \in Version \cup {Absent}, v \in Version : Begin(t, b, v)
                   \/ Accept(t) \/ Withdraw(t) \/ Swap(t) \/ AddCopy(t) \/ Close(t)
  \/ Fail \/ Restore \/ External

Spec == Init /\ [][Next]_vars
=============================================================================
