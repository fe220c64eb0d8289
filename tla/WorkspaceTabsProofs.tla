------------------------- MODULE WorkspaceTabsProofs -------------------------
(***************************************************************************)
(* Theorems about WorkspaceTabs, for every set of notes and users and for  *)
(* every bound.                                                            *)
(***************************************************************************)
EXTENDS WorkspaceTabs, TLAPS, FiniteSetTheorems

\* Only a pass that runs looks at a path, and it has seen nothing before it looks.
Resting == \A r \in Passes :
  /\ pass[r].pc # "running" => pass[r].at = NoPath
  /\ pass[r].at = NoPath => pass[r].saw = "none"

\* How often an absence has been read: each pass that is just reading it may
\* add one to what is allowed.
Reads(r, p) == pass[r].at = p /\ pass[r].live
Reading(p) == {r \in Passes : Reads(r, p)}
Tried == \A p \in Path : absences[p].tries < MaxAttempts + Cardinality(Reading(p))

\* The calls of the store: each saver has one at most.
Queued ==
  /\ \A w \in Savers : save[w].phase = "queued" <=> \E i \in DOMAIN queue : queue[i] = w
  /\ \A i, j \in DOMAIN queue : queue[i] = queue[j] => i = j
  /\ \A u \in User : save[u].phase # "none" => op[u].pc = "saving"
  /\ save["tail"].phase # "none" => tail # << >>

\* Only an operation that publishes has a snapshot under way.
Publishes == \A u \in User : snap[u].pc # "none" => op[u].pc = "publishing"

\* The types, and what they need to be inductive.
Sound == TypeOK /\ Resting /\ Tried /\ Queued /\ Publishes

\* Saves that were made and that their callers have not heard of.
Answered == {w \in Savers : save[w].phase = "ok"}
Expects(i) == save[queue[i]].expected

\* At most one save is unheard of.  While one is, whoever waits in the queue
\* takes the document to be something else and is refused; otherwise those who
\* take it to be something else wait before the others.
Compared ==
  ~ghost.blind =>
    /\ Answered = {} =>
         /\ persisted = stored
         /\ \A i, j \in DOMAIN queue : i <= j /\ Expects(i) = stored => Expects(j) = stored
    /\ \A w \in Answered :
         /\ Answered = {w} /\ stored = save[w].state /\ persisted # stored
         /\ \A i \in DOMAIN queue : Expects(i) # stored

\* Somebody will still save the layout or adopt a saved one.
Due ==
  \/ \E r \in Passes : pass[r].pc = "running" /\ pass[r].changed
  \/ \E u \in User : save[u].phase = "ok"
  \/ Len(tail) > (IF save["tail"].phase = "none" THEN 0 ELSE 1)

\* The best-effort save under way will be made, or has been.
Lands ==
  \/ save["tail"].phase = "ok"
  \/ save["tail"].phase = "queued" /\ Answered = {} /\ save["tail"].expected = stored

\* Every change of the layout is in the document, or on its way there.
Promised ==
  ~ghost.blind /\ ~ghost.failed => Due \/ tabs = (IF Lands THEN save["tail"].state ELSE persisted)
-----------------------------------------------------------------------------
\* A pass that reads a path counts once, and there is one beside the timers.
LEMMA Counted ==
  /\ Cardinality(Timers) \in Nat /\ MaxTries \in Nat /\ MaxTries = MaxAttempts + Cardinality(Timers)
  /\ \A S \in SUBSET Passes : Cardinality(S) \in Nat
  /\ \A S \in SUBSET Passes : \A r \in Passes \ S :
       Cardinality(S \cup {r}) = Cardinality(S) + 1 /\ Cardinality(S) <= Cardinality(Timers)
  <1>1. IsFiniteSet(Timers) /\ "batch" \notin Timers /\ Cardinality(Timers) \in Nat
    BY Apart, FS_CardinalityType
  <1>m. MaxTries \in Nat /\ MaxTries = MaxAttempts + Cardinality(Timers)
    BY <1>1 DEF MaxTries, MaxAttempts
  <1>2. IsFiniteSet(Passes) /\ Cardinality(Passes) = Cardinality(Timers) + 1
    <2>1. Passes = Timers \cup {"batch"}
      BY DEF Passes
    <2> QED
      BY <1>1, <2>1, FS_AddElement
  <1>3. ASSUME NEW S \in SUBSET Passes
        PROVE  IsFiniteSet(S) /\ Cardinality(S) \in Nat /\ Cardinality(S) <= Cardinality(Passes)
    BY <1>2, FS_Subset, FS_CardinalityType
  <1>4. ASSUME NEW S \in SUBSET Passes, NEW r \in Passes \ S
        PROVE  Cardinality(S \cup {r}) = Cardinality(S) + 1 /\ Cardinality(S) <= Cardinality(Timers)
    <2>1. Cardinality(S \cup {r}) = Cardinality(S) + 1
      BY <1>3, FS_AddElement
    <2>2. S \cup {r} \in SUBSET Passes
      OBVIOUS
    <2>3. Cardinality(S \cup {r}) <= Cardinality(Passes)
      BY <2>2, <1>3
    <2> QED
      BY <1>1, <1>2, <1>3, <2>1, <2>3
  <1> QED
    BY <1>1, <1>m, <1>3, <1>4

\* A timer that fires begins a pass of its own.
LEMMA TimerStarts ==
  ASSUME WakeFires
  PROVE  \E r \in Timers : /\ pass[r].pc = "idle" /\ snap[r].pc = "none"
                          /\ pass' = Start(r, absences, FALSE)
  <1> DEFINE idle == {r \in Timers : pass[r].pc = "idle" /\ snap[r].pc = "none"}
             t == CHOOSE r \in idle : TRUE
  <1>1. idle # {} /\ pass' = Start(t, absences, FALSE)
    BY DEF WakeFires
  <1>2. t \in idle
    BY <1>1
  <1> HIDE DEF t
  <1> QED
    BY <1>1, <1>2

\* What the helpers make of typed values is typed.
LEMMA Operators ==
  /\ NoOp \in Op /\ NoSave \in Save /\ NoPass \in Pass /\ NoSnap \in Snap
  /\ NoAbsence \in Absence /\ NewAbsence \in Absence /\ NewAbsence.known /\ ~NoAbsence.known
  /\ \A s \in Layout : \A P \in SUBSET Path : Without(s, P) \in Layout
  /\ \A s \in Layout : \A p \in MaybePath, q \in Path : Moved(s, p, q) \in Layout
  /\ \A known \in [Path -> Absence], P \in SUBSET Path :
       Recorded(known, P) \in [Path -> Absence] /\ Forgotten(known, P) \in [Path -> Absence]
  /\ \A r \in Pass, P \in SUBSET Path :
       /\ Outdated(P, r) \in Pass /\ Outdated(P, r).pc = r.pc /\ Outdated(P, r).at = r.at
       /\ Outdated(P, r).saw = r.saw /\ Outdated(P, r).changed = r.changed
       /\ Outdated(P, r).todo = r.todo \ P
       /\ Outdated(P, r).live <=> (r.live /\ r.at \notin P)
  /\ \A sn \in [Readers -> Snap] : Stale(sn) \in [Readers -> Snap]
  /\ snap \in [Readers -> Snap] => \A S \in SUBSET Readers : Wanted(S) \in [Readers -> Snap]
  <1>1. NoOp \in Op
    BY DEF NoOp, Op, MaybePath
  <1>2. NoSave \in Save
    BY DEF NoSave, Save, Layout
  <1>3. NoPass \in Pass
    BY DEF NoPass, Pass, MaybePath
  <1>4. NoSnap \in Snap
    BY Bounds DEF NoSnap, Snap, Layout
  <1>6. NoAbsence \in Absence /\ NewAbsence \in Absence /\ NewAbsence.known /\ ~NoAbsence.known
    <2>1. 0 \in 0..Confirmed - 1 /\ 0 \in 0..MaxTries
      BY Counted DEF Confirmed, MaxAttempts
    <2>2. NoAbsence \in Absence
      BY <2>1 DEF NoAbsence, Absence
    <2>3. NewAbsence \in Absence
      BY <2>2 DEF NewAbsence, Absence
    <2> QED
      BY <2>2, <2>3 DEF NoAbsence, NewAbsence
  <1>7. \A s \in Layout : \A P \in SUBSET Path : Without(s, P) \in Layout
    BY DEF Without, Layout
  <1>8. ASSUME NEW s \in Layout, NEW p \in MaybePath, NEW q \in Path
        PROVE  Moved(s, p, q) \in Layout
    <2>1. s.open \subseteq Path /\ (s.open \ {p}) \cup {q} \subseteq Path
      BY DEF Layout
    <2> QED
      BY <2>1 DEF Moved, Layout
  <1>9. \A known \in [Path -> Absence], P \in SUBSET Path :
          Recorded(known, P) \in [Path -> Absence] /\ Forgotten(known, P) \in [Path -> Absence]
    BY <1>6 DEF Recorded, Forgotten
  <1>10. \A r \in Pass, P \in SUBSET Path :
           /\ Outdated(P, r) \in Pass /\ Outdated(P, r).pc = r.pc /\ Outdated(P, r).at = r.at
           /\ Outdated(P, r).saw = r.saw /\ Outdated(P, r).changed = r.changed
           /\ Outdated(P, r).todo = r.todo \ P
           /\ Outdated(P, r).live <=> (r.live /\ r.at \notin P)
    <2> SUFFICES ASSUME NEW r \in Pass, NEW P \in SUBSET Path
                 PROVE  /\ Outdated(P, r) \in Pass /\ Outdated(P, r).pc = r.pc /\ Outdated(P, r).at = r.at
                        /\ Outdated(P, r).saw = r.saw /\ Outdated(P, r).changed = r.changed
                        /\ Outdated(P, r).todo = r.todo \ P
                        /\ Outdated(P, r).live <=> (r.live /\ r.at \notin P)
      OBVIOUS
    <2> DEFINE t == r.todo \ P
               l == r.live /\ r.at \notin P
    <2>1. t \in SUBSET Path /\ l \in BOOLEAN
      BY DEF Pass
    <2>2. Outdated(P, r) = [r EXCEPT !.todo = t, !.live = l]
      BY DEF Outdated
    <2>3. (r.live /\ r.at \notin P <=> l) /\ t = r.todo \ P
      OBVIOUS
    <2> HIDE DEF t, l
    <2> QED
      BY <2>1, <2>2, <2>3 DEF Pass
  <1>11. \A sn \in [Readers -> Snap] : Stale(sn) \in [Readers -> Snap]
    BY DEF Stale, Snap
  <1>12. snap \in [Readers -> Snap] => \A S \in SUBSET Readers : Wanted(S) \in [Readers -> Snap]
    <2>1. [NoSnap EXCEPT !.pc = "wanted"] \in Snap
      BY <1>4 DEF Snap
    <2> QED
      BY <2>1 DEF Wanted
  <1> QED
    BY <1>1, <1>2, <1>3, <1>4, <1>6, <1>7, <1>8, <1>9, <1>10, <1>11, <1>12

\* A pass begins with the absences that are known.
LEMMA Starting ==
  ASSUME pass \in [Passes -> Pass], NEW r \in Passes, NEW known \in [Path -> Absence],
         NEW c \in BOOLEAN, pass' = Start(r, known, c)
  PROVE  /\ pass' \in [Passes -> Pass]
         /\ pass'[r].pc = "running" /\ pass'[r].at = NoPath /\ pass'[r].saw = "none"
         /\ pass'[r].changed = c
         /\ \A p \in pass'[r].todo : p \in Path /\ known[p].known
         /\ \A q \in Passes \ {r} : pass'[q] = pass[q]
  <1> DEFINE T == {p \in Path : known[p].known}
             a == \E p \in Path : known[p].known
             d == [NoPass EXCEPT !.pc = "running", !.todo = T, !.changed = c, !.arms = a]
  <1>1. T \in SUBSET Path /\ a \in BOOLEAN /\ \A p \in T : p \in Path /\ known[p].known
    OBVIOUS
  <1>2. pass' = [pass EXCEPT ![r] = d]
    BY DEF Start
  <1> HIDE DEF T, a
  <1>3. d \in Pass
    BY <1>1, Operators DEF Pass
  <1>4. d.pc = "running" /\ d.at = NoPath /\ d.saw = "none" /\ d.changed = c /\ d.todo = T
    BY DEF NoPass
  <1> HIDE DEF d
  <1> QED
    BY <1>1, <1>2, <1>3, <1>4

\* What the turns of a pass do to the passes, and to the absences they read.
Considered(r) ==
  /\ pass[r].pc = "running" /\ pass[r].at = NoPath
  /\ \A q \in Passes : pass'[q].pc = pass[q].pc /\ pass'[q].changed = pass[q].changed
  /\ \E p \in Path :
       \/ /\ absences' = Forgotten(absences, {p})
          /\ \A q \in Passes : /\ pass'[q].at = pass[q].at /\ pass'[q].saw = pass[q].saw
                               /\ pass'[q].live <=> (pass[q].live /\ pass[q].at # p)
       \/ /\ \A q \in Path : absences'[q].tries = absences[q].tries
          /\ \A q \in Passes : /\ pass'[q].at = pass[q].at /\ pass'[q].saw = pass[q].saw
                               /\ pass'[q].live = pass[q].live
       \/ /\ absences'[p].tries = absences[p].tries + 1
          /\ \A q \in Path \ {p} : absences'[q] = absences[q]
          /\ pass'[r].at = p /\ pass'[r].saw = "none" /\ pass'[r].live
          /\ \A q \in Passes \ {r} : pass'[q] = pass[q]
Decided(r) ==
  /\ pass[r].pc = "running" /\ pass[r].at \in Path
  /\ pass'[r].at = NoPath /\ pass'[r].saw = "none"
  /\ \A q \in Passes : pass'[q].pc = pass[q].pc
  /\ \A q \in Passes \ {r} :
       /\ pass'[q].at = pass[q].at /\ pass'[q].saw = pass[q].saw /\ pass'[q].changed = pass[q].changed
       /\ pass[q].at # pass[r].at => pass'[q].live = pass[q].live
  /\ \/ pass'[r].changed = pass[r].changed /\ tabs' = tabs
     \/ /\ pass'[r].changed <=> (pass[r].changed \/ pass[r].at \in tabs.open)
        /\ tabs' = Without(tabs, {pass[r].at})
  /\ \/ /\ ~pass[r].live /\ absences' = absences
        /\ \A q \in Passes \ {r} : pass'[q].live = pass[q].live
     \/ absences' = Forgotten(absences, {pass[r].at})
     \/ /\ absences[pass[r].at].tries < MaxAttempts
        /\ \A q \in Path : absences'[q].tries = absences[q].tries

\* Each turn of a pass is one of these.
LEMMA PassSteps ==
  ASSUME TypeOK, Resting, NEW r \in Passes
  PROVE  (Consider(r) => Considered(r)) /\ (Decide(r) => Decided(r))
  <1> USE Apart
  <1>1. Resting /\ pass \in [Passes -> Pass] /\ absences \in [Path -> Absence] /\ tabs \in Layout
        /\ \A q \in Passes : pass[q].todo \subseteq Path
    BY DEF TypeOK, Pass
  <1>2. ASSUME NEW p \in Path, NEW d \in Pass
        PROVE  /\ Outdated({p}, d) \in Pass /\ Outdated({p}, d).pc = d.pc /\ Outdated({p}, d).at = d.at
               /\ Outdated({p}, d).saw = d.saw /\ Outdated({p}, d).changed = d.changed
               /\ Outdated({p}, d).live <=> (d.live /\ d.at # p)
    <2>1. {p} \in SUBSET Path
      OBVIOUS
    <2> QED
      BY <2>1, Operators
  <1>3. ASSUME Consider(r) PROVE Considered(r)
    <2> DEFINE skipped(p) == [pass EXCEPT ![r].todo = @ \ {p}]
    <2>1. pass[r].pc = "running" /\ pass[r].at = NoPath
      BY <1>3 DEF Consider
    <2>2. PICK p \in pass[r].todo :
            \/ absences' = Forgotten(absences, {p}) /\ pass' = [q \in Passes |-> Outdated({p}, pass[q])]
            \/ pass' = skipped(p) /\ (absences' = absences \/ absences' = [absences EXCEPT ![p].due = FALSE])
            \/ /\ absences' = [absences EXCEPT ![p].due = FALSE, ![p].tries = @ + 1]
               /\ pass' = [skipped(p) EXCEPT ![r].at = p, ![r].saw = "none", ![r].live = TRUE]
      BY <1>3 DEF Consider, Forget
    <2>3. p \in Path
      BY <1>1
    <2>4. CASE absences' = Forgotten(absences, {p}) /\ pass' = [q \in Passes |-> Outdated({p}, pass[q])]
      <3>1. \A q \in Passes : pass'[q] = Outdated({p}, pass[q])
        BY <2>4
      <3>2. \A q \in Passes : /\ pass'[q].at = pass[q].at /\ pass'[q].saw = pass[q].saw
                              /\ pass'[q].pc = pass[q].pc /\ pass'[q].changed = pass[q].changed
                              /\ pass'[q].live <=> (pass[q].live /\ pass[q].at # p)
        BY <3>1, <2>3, <1>1, <1>2
      <3>3. \E k \in Path :
              /\ absences' = Forgotten(absences, {k})
              /\ \A q \in Passes : /\ pass'[q].at = pass[q].at /\ pass'[q].saw = pass[q].saw
                                   /\ pass'[q].live <=> (pass[q].live /\ pass[q].at # k)
        BY <2>3, <2>4, <3>2
      <3> QED
        BY <2>1, <3>2, <3>3, Zenon DEF Considered
    <2>5. CASE pass' = skipped(p) /\ (absences' = absences \/ absences' = [absences EXCEPT ![p].due = FALSE])
      <3>1. \A q \in Path : absences'[q].tries = absences[q].tries
        BY <2>5, <1>1 DEF Absence
      <3>2. \A q \in Passes : /\ pass'[q].at = pass[q].at /\ pass'[q].saw = pass[q].saw /\ pass'[q].live = pass[q].live
                              /\ pass'[q].pc = pass[q].pc /\ pass'[q].changed = pass[q].changed
        BY <2>5, <1>1 DEF Pass
      <3> QED
        BY <2>1, <2>3, <3>1, <3>2, Zenon DEF Considered
    <2>6. CASE /\ absences' = [absences EXCEPT ![p].due = FALSE, ![p].tries = @ + 1]
               /\ pass' = [skipped(p) EXCEPT ![r].at = p, ![r].saw = "none", ![r].live = TRUE]
      <3>1. absences'[p].tries = absences[p].tries + 1 /\ \A q \in Path \ {p} : absences'[q] = absences[q]
        BY <2>3, <2>6, <1>1 DEF Absence
      <3>2. pass'[r].at = p /\ pass'[r].saw = "none" /\ pass'[r].live /\ \A q \in Passes \ {r} : pass'[q] = pass[q]
        BY <2>6, <1>1 DEF Pass
      <3>3. \A q \in Passes : pass'[q].pc = pass[q].pc /\ pass'[q].changed = pass[q].changed
        BY <2>6, <1>1 DEF Pass
      <3> QED
        BY <2>1, <2>3, <3>1, <3>2, <3>3, Zenon DEF Considered
    <2> HIDE DEF skipped
    <2> QED
      BY <2>2, <2>4, <2>5, <2>6, Zenon
  <1>4. ASSUME Decide(r) PROVE Decided(r)
    <2> DEFINE p == pass[r].at
               done == [pass EXCEPT ![r].at = NoPath, ![r].saw = "none", ![r].live = TRUE]
               forgotten == [q \in Passes |-> Outdated({p}, done[q])]
               closing == [forgotten EXCEPT ![r].changed = @ \/ p \in tabs.open]
    <2>1. pass[r].pc = "running" /\ p \in Path
      BY <1>4, <1>1 DEF Decide, Resting, Pass, MaybePath
    <2>2. \/ /\ ~pass[r].live /\ pass' = done /\ absences' = absences /\ tabs' = tabs
          \/ /\ absences' = Forgotten(absences, {p}) /\ pass' = forgotten /\ tabs' = tabs
          \/ /\ absences[p].tries < MaxAttempts /\ pass' = done /\ tabs' = tabs
             /\ \E n : absences' = [absences EXCEPT ![p].seen = n]
          \/ absences' = Forgotten(absences, {p}) /\ pass' = closing /\ tabs' = Without(tabs, {p})
      BY <1>4 DEF Decide
    <2>3. /\ done \in [Passes -> Pass] /\ done[r].at = NoPath /\ done[r].saw = "none"
          /\ \A q \in Passes : done[q].pc = pass[q].pc /\ done[q].changed = pass[q].changed
          /\ \A q \in Passes \ {r} : done[q] = pass[q]
      <3> DEFINE d == [pass[r] EXCEPT !.at = NoPath, !.saw = "none", !.live = TRUE]
      <3>1. d \in Pass /\ d.at = NoPath /\ d.saw = "none" /\ d.pc = pass[r].pc /\ d.changed = pass[r].changed
        <4>1. pass[r] \in Pass
          BY <1>1
        <4> QED
          BY <4>1 DEF Pass, MaybePath
      <3>2. done = [pass EXCEPT ![r] = d]
        BY <1>1
      <3> HIDE DEF d, done
      <3> QED
        BY <3>1, <3>2, <1>1
    <2> HIDE DEF p, done
    <2>4. /\ forgotten \in [Passes -> Pass]
          /\ \A q \in Passes : /\ forgotten[q].pc = done[q].pc /\ forgotten[q].changed = done[q].changed
                               /\ forgotten[q].at = done[q].at /\ forgotten[q].saw = done[q].saw
                               /\ forgotten[q].live <=> (done[q].live /\ done[q].at # p)
      BY <2>1, <2>3, <1>2
    <2> HIDE DEF forgotten
    <2>5. /\ closing[r].changed <=> (forgotten[r].changed \/ p \in tabs.open)
          /\ closing[r].at = forgotten[r].at /\ closing[r].saw = forgotten[r].saw /\ closing[r].pc = forgotten[r].pc
          /\ \A q \in Passes \ {r} : closing[q] = forgotten[q]
      <3> DEFINE c == forgotten[r].changed \/ p \in tabs.open
                 d == [forgotten[r] EXCEPT !.changed = c]
      <3>1. d.changed = c /\ d.at = forgotten[r].at /\ d.saw = forgotten[r].saw /\ d.pc = forgotten[r].pc
        <4> HIDE DEF c
        <4>1. forgotten[r] \in Pass
          BY <2>4
        <4> QED
          BY <4>1 DEF Pass
      <3>2. closing = [forgotten EXCEPT ![r] = d]
        BY <2>4
      <3> HIDE DEF d, closing
      <3> QED
        BY <2>4, <3>1, <3>2
    <2> HIDE DEF closing
    <2>6. \A q \in Passes : pass[q].live \in BOOLEAN /\ forgotten[q].live \in BOOLEAN
      BY <2>4, <1>1 DEF Pass
    <2>7. CASE /\ pass' = done /\ tabs' = tabs
               /\ \/ ~pass[r].live /\ absences' = absences
                  \/ absences[p].tries < MaxAttempts /\ \E n : absences' = [absences EXCEPT ![p].seen = n]
      <3>1. CASE ~pass[r].live /\ absences' = absences
        BY <2>1, <2>3, <2>7, <3>1 DEF p, Decided
      <3>2. CASE absences[p].tries < MaxAttempts /\ \E n : absences' = [absences EXCEPT ![p].seen = n]
        <4>1. \A q \in Path : absences'[q].tries = absences[q].tries
          BY <3>2, <1>1 DEF Absence
        <4> QED
          BY <2>1, <2>3, <2>7, <3>2, <4>1 DEF p, Decided
      <3> QED
        BY <2>7, <3>1, <3>2
    <2>8. CASE absences' = Forgotten(absences, {p}) /\ pass' = forgotten /\ tabs' = tabs
      BY <2>1, <2>3, <2>4, <2>6, <2>8 DEF p, Decided
    <2>9. CASE absences' = Forgotten(absences, {p}) /\ pass' = closing /\ tabs' = Without(tabs, {p})
      BY <2>1, <2>3, <2>4, <2>5, <2>6, <2>9 DEF p, Decided
    <2> QED
      BY <2>2, <2>7, <2>8, <2>9
  <1> QED
    BY <1>3, <1>4

\* An operation that adopts a layout leaves what it touches typed.
LEMMA Adopting ==
  ASSUME TypeOK, NEW u \in User, NEW s \in Layout, NEW p \in MaybePath, Adopt(u, s, p)
  PROVE  op' \in [User -> Op] /\ snap' \in [Readers -> Snap] /\ save' \in [Savers -> Save] /\ queue' \in Seq(Savers)
  <1>1. op' \in [User -> Op]
    <2>1. op \in [User -> Op] /\ NoPath \in MaybePath
      BY DEF TypeOK, MaybePath
    <2> QED
      BY <2>1 DEF Adopt, Op
  <1>2. snap' \in [Readers -> Snap]
    <2>1. snap \in [Readers -> Snap] /\ {u} \subseteq Readers
      BY DEF TypeOK, Readers
    <2> QED
      BY <2>1, Operators DEF Adopt
  <1>3. save' \in [Savers -> Save]
    <2>1. save \in [Savers -> Save] /\ persisted \in Layout /\ u \in Savers
      BY DEF TypeOK, Savers
    <2> QED
      BY <2>1 DEF Adopt, Call, Save
  <1>4. queue' \in Seq(Savers)
    <2>1. queue \in Seq(Savers) /\ u \in Savers
      BY DEF TypeOK, Savers
    <2> QED
      BY <2>1 DEF Adopt, Call
  <1> QED
    BY <1>1, <1>2, <1>3, <1>4

\* Every step leaves the variables typed.
LEMMA TypeKept == Sound /\ [Next]_vars => TypeOK'
  <1> SUFFICES ASSUME TypeOK, Resting, Tried, Queued, [Next]_vars PROVE TypeOK'
    BY DEF Sound
  <1> USE Apart
  <1>1. files \subseteq Path /\ held \subseteq Path \ files /\ index \subseteq Path
         /\ moved \in [from : Path, to : Path] \cup {NoMove}
    BY DEF TypeOK
  <1>2. tabs \in Layout /\ persisted \in Layout /\ stored \in Layout /\ shown \in Layout
    BY DEF TypeOK, Missing
  <1>3. removed \subseteq Path /\ absences \in [Path -> Absence]
    BY DEF TypeOK, Missing
  <1>4. tail \in Seq(Readers) /\ queue \in Seq(Savers) /\ save \in [Savers -> Save]
    BY DEF TypeOK, Missing
  <1>5. pass \in [Passes -> Pass] /\ \A r \in Passes : pass[r].todo \subseteq {p \in Path : absences[p].known}
    BY DEF TypeOK, Missing
  <1>6. op \in [User -> Op] /\ snap \in [Readers -> Snap] /\ ghost \in Ghost
    BY DEF TypeOK, Missing
  <1>s. /\ User \subseteq Readers /\ Passes \subseteq Readers /\ User \subseteq Savers /\ "tail" \in Savers
        /\ \A w \in Readers : {w} \in SUBSET Readers /\ Append(tail, w) \in Seq(Readers)
        /\ tail # << >> => Tail(tail) \in Seq(Readers)
    BY <1>4 DEF Readers, Savers
  <1>w. save["tail"].phase # "none" => tail # << >>
    BY DEF Queued
  <1>o. \A P \in SUBSET Path, r \in Pass : Outdated(P, r).todo = r.todo \ P
    BY DEF Outdated, Pass
  <1>f. \A P \in SUBSET Path, q \in Path : q \notin P => Forgotten(absences, P)[q] = absences[q]
    BY DEF Forgotten
  <1>7. ASSUME NEW u \in User, Select(u) PROVE TypeOK'
    <2>1. op' \in [User -> Op]
      BY <1>7, <1>1, <1>6 DEF Select, Op, MaybePath
    <2> QED
      BY <1>7, <2>1 DEF Select, Unmoved, TypeOK, Missing, folder, store, absent, rest
  <1>8. ASSUME NEW u \in User, OpenUnread(u) PROVE TypeOK'
    <2>1. op' \in [User -> Op]
      BY <1>8, <1>6, Operators DEF OpenUnread
    <2> QED
      BY <1>8, <2>1 DEF OpenUnread, Unmoved, TypeOK, Missing, folder, store, absent, rest
  <1>9. ASSUME NEW u \in User, MoveNote(u) PROVE TypeOK'
    <2>1. PICK p \in files, q \in Path \ (files \cup held) :
            Renames(p, q) /\ op' = [op EXCEPT ![u] = [pc |-> "moving", from |-> p, to |-> q]]
      BY <1>9 DEF MoveNote
    <2>2. op' \in [User -> Op]
      BY <1>1, <1>6, <2>1 DEF Op, MaybePath
    <2>3. files' \subseteq Path /\ held' \subseteq Path \ files' /\ moved' \in [from : Path, to : Path] \cup {NoMove}
      BY <1>1, <2>1 DEF Renames
    <2>4. ghost' \in Ghost
      BY <1>1, <1>6, <2>1 DEF Renames, Ghost
    <2> QED
      BY <1>9, <2>1, <2>2, <2>3, <2>4 DEF MoveNote, Renames, TypeOK, Missing, folder, store,
        absent, rest
  <1>10. ASSUME NEW u \in User, TrashNote(u) PROVE TypeOK'
    <2>1. op' \in [User -> Op]
      BY <1>10, <1>1, <1>6 DEF TrashNote, Op, MaybePath
    <2>2. ghost' \in Ghost
      BY <1>10, <1>6 DEF TrashNote, Keep, Ghost
    <2>3. files' \subseteq Path /\ held' \subseteq Path \ files'
      BY <1>10, <1>1 DEF TrashNote
    <2> QED
      BY <1>10, <2>1, <2>2, <2>3 DEF TrashNote, TypeOK, Missing, folder, store, absent, rest
  <1>e. ASSUME NEW u \in User, WriteNote(u) PROVE TypeOK'
    <2>1. PICK p \in Path \ held, o \in MaybePath :
            /\ files' = files \cup {p} /\ ghost' = [ghost EXCEPT !.gone = @ \ {p}]
            /\ moved' = IF p = moved.from THEN NoMove ELSE moved
            /\ op' = [op EXCEPT ![u] = [pc |-> "writing", from |-> o, to |-> p]]
      BY <1>e DEF WriteNote
    <2>2. op' \in [User -> Op]
      BY <1>1, <1>6, <2>1 DEF Op, MaybePath
    <2>3. files' \subseteq Path /\ held \subseteq Path \ files' /\ moved' \in [from : Path, to : Path] \cup {NoMove}
      BY <1>1, <2>1
    <2>4. ghost' \in Ghost
      BY <1>1, <1>6, <2>1 DEF Ghost
    <2> QED
      BY <1>e, <2>2, <2>3, <2>4 DEF WriteNote, TypeOK, Missing, folder, store, absent, rest
  <1>11. ASSUME NEW u \in User, NoteUnread(u) PROVE TypeOK'
    <2>1. op' \in [User -> Op]
      BY <1>11, <1>6, Operators DEF NoteUnread
    <2> QED
      BY <1>11, <2>1 DEF NoteUnread, TypeOK, Missing, folder, store, absent, rest
  <1>12. ASSUME NEW u \in User, Repaired(u) PROVE TypeOK'
    <2>1. op' \in [User -> Op]
      BY <1>12, <1>6 DEF Repaired, Op
    <2>2. snap' \in [Readers -> Snap]
      BY <1>12, <1>6, Operators, <1>s DEF Repaired
    <2> QED
      BY <1>12, <2>1, <2>2 DEF Repaired, TypeOK, Missing, folder, store, absent, rest
  <1>13. ASSUME NEW u \in User, Reconciled(u) PROVE TypeOK'
    <2>1. op' \in [User -> Op]
      BY <1>13, <1>6 DEF Reconciled, Op
    <2>2. snap' \in [Readers -> Snap]
      BY <1>13, <1>6, Operators, <1>s DEF Reconciled
    <2> QED
      BY <1>13, <2>1, <2>2 DEF Reconciled, TypeOK, Missing, folder, store, absent, rest
  <1>14. ASSUME NEW u \in User, CloseTab(u) PROVE TypeOK'
    <2>1. PICK p \in tabs.open : Adopt(u, Without(tabs, {p}), NoPath) /\ Keep({p})
      BY <1>14 DEF CloseTab
    <2>2. p \in Path
      BY <1>2 DEF Layout
    <2>3. Without(tabs, {p}) \in Layout /\ NoPath \in MaybePath
      BY <1>2, Operators, <2>2 DEF MaybePath
    <2>4. op' \in [User -> Op] /\ snap' \in [Readers -> Snap] /\ save' \in [Savers -> Save] /\ queue' \in Seq(Savers)
      BY <1>14, <2>1, <2>3, Adopting
    <2>5. ghost' \in Ghost
      BY <1>6, <2>1 DEF Keep, Ghost
    <2> QED
      BY <1>14, <2>1, <2>2, <2>3, <2>4, <2>5 DEF CloseTab, Unmoved, TypeOK, Missing, folder,
        store, absent, rest
  <1>15. ASSUME NEW u \in User, Arrange(u) PROVE TypeOK'
    <2>1. [tabs EXCEPT !.look = ~@] \in Layout /\ NoPath \in MaybePath
      BY <1>2 DEF Layout, MaybePath
    <2>2. op' \in [User -> Op] /\ snap' \in [Readers -> Snap] /\ save' \in [Savers -> Save] /\ queue' \in Seq(Savers)
      BY <1>15, <2>1, Adopting DEF Arrange
    <2> QED
      BY <1>15, <2>1, <2>2 DEF Arrange, Unmoved, TypeOK, Missing, folder, store, absent, rest
  <1>16. ASSUME NEW u \in User, OpenTab(u) PROVE TypeOK'
    <2>1. PICK look \in BOOLEAN : Adopt(u, [open |-> tabs.open \cup {op[u].to}, look |-> look], op[u].to)
      BY <1>16 DEF OpenTab
    <2>2. op[u].to \in Path
      BY <1>16, <1>1, <1>6 DEF OpenTab
    <2>3. [open |-> tabs.open \cup {op[u].to}, look |-> look] \in Layout /\ op[u].to \in MaybePath
      BY <1>1, <1>2, <1>6, <2>2 DEF Layout, MaybePath
    <2>4. op' \in [User -> Op] /\ snap' \in [Readers -> Snap] /\ save' \in [Savers -> Save] /\ queue' \in Seq(Savers)
      BY <1>16, <2>1, <2>3, Adopting
    <2>5. removed' \subseteq Path
      BY <1>16, <1>3 DEF OpenTab
    <2> QED
      BY <1>16, <2>1, <2>2, <2>3, <2>4, <2>5 DEF OpenTab, OpenTab, Unmoved, TypeOK, Missing,
        folder, store, absent, rest
  <1>17. ASSUME NEW u \in User, UserSaved(u) PROVE TypeOK'
    <2>1. save[u].state \in Layout
      BY <1>4, <1>s DEF Save
    <2>2. Scrub(save[u].state) \in Layout
      BY <1>3, <1>4, Operators, <2>1 DEF Scrub
    <2>3. tabs' \in Layout /\ persisted' \in Layout
      BY <1>17, <1>2, <2>1, <2>2 DEF UserSaved
    <2>4. ghost' \in Ghost
      BY <1>17, <1>1, <1>6, <2>2 DEF UserSaved, Ghost, Certain, Layout
    <2>5. op' \in [User -> Op]
      BY <1>17, <1>6, Operators DEF UserSaved, Op, MaybePath, NoOp
    <2>6. snap' \in [Readers -> Snap]
      BY <1>17, <1>6, Operators, <1>s DEF UserSaved
    <2>7. save' \in [Savers -> Save]
      BY <1>17, <1>4, Operators DEF UserSaved
    <2>8. tail' \in Seq(Readers)
      BY <1>17, <1>4, <1>s DEF UserSaved
    <2> QED
      BY <1>17, <2>1, <2>2, <2>3, <2>4, <2>5, <2>6, <2>7, <2>8
        DEF UserSaved, TypeOK, Missing, folder, store, absent, rest
  <1>18. ASSUME NEW u \in User, UserRefused(u) PROVE TypeOK'
    <2>1. save[u].state \in Layout
      BY <1>4, <1>s DEF Save
    <2>2. Scrub(save[u].state) \in Layout
      BY <1>3, <1>4, Operators, <2>1 DEF Scrub
    <2>3. tabs' \in Layout
      BY <1>18, <1>2, <2>2 DEF UserRefused
    <2>4. ghost' \in Ghost
      BY <1>18, <1>6, <2>2 DEF UserRefused, Ghost
    <2>5. op' \in [User -> Op]
      BY <1>18, <1>6, Operators DEF UserRefused, Op, MaybePath, NoOp
    <2>6. save' \in [Savers -> Save]
      BY <1>18, <1>4, Operators DEF UserRefused
    <2>7. tail' \in Seq(Readers)
      BY <1>18, <1>4, <1>s DEF UserRefused
    <2> QED
      BY <1>18, <2>1, <2>2, <2>3, <2>4, <2>5, <2>6, <2>7 DEF UserRefused, TypeOK, Missing,
        folder, store, absent, rest
  <1>19. ASSUME NEW u \in User, FinishMove(u) PROVE TypeOK'
    <2>1. op[u].from \in MaybePath /\ op[u].to \in Path \cup {NoPath}
      BY <1>19, <1>1, <1>6 DEF FinishMove, Integrate, Op, MaybePath
    <2>2. Without(tabs, {op[u].from}) \in Layout
      BY <1>2, <1>6, Operators, <2>1 DEF MaybePath, Without, Layout
    <2>3. tabs' \in Layout
      BY <1>19, <1>2, Operators, <2>1, <2>2 DEF FinishMove, Integrate
    <2>4. ghost' \in Ghost
      BY <1>19, <1>6, <2>1 DEF FinishMove, Integrate, Follow, Owing, Ghost
    <2>5. op' \in [User -> Op]
      BY <1>19, <1>6 DEF FinishMove, Integrate, Op
    <2>6. snap' \in [Readers -> Snap]
      BY <1>19, <1>6, Operators, <1>s DEF FinishMove, Integrate
    <2>7. tail' \in Seq(Readers)
      BY <1>19, <1>4, <1>s DEF FinishMove, Integrate
    <2>8. index' \subseteq Path /\ moved' \in [from : Path, to : Path] \cup {NoMove}
      BY <1>19, <1>1, <2>1 DEF FinishMove, Integrate
    <2> QED
      BY <1>19, <2>1, <2>2, <2>3, <2>4, <2>5, <2>6, <2>7, <2>8
        DEF FinishMove, Integrate, TypeOK, Missing, folder, store, absent, rest
  <1>v. ASSUME NEW u \in User, FinishWrite(u) PROVE TypeOK'
    <2>1. op[u].to \in Path
      BY <1>v, <1>1 DEF FinishWrite
    <2>2. tabs.open \cup {op[u].to} \subseteq Path
      BY <1>2, <2>1 DEF Layout
    <2>3. tabs' \in Layout
      BY <1>v, <1>2, <2>2 DEF FinishWrite, Layout
    <2>4. ghost' \in Ghost
      BY <1>v, <1>6, <2>1 DEF FinishWrite, Owing, Ghost
    <2>5. op' \in [User -> Op]
      BY <1>v, <1>6 DEF FinishWrite, Integrate, Op
    <2>6. snap' \in [Readers -> Snap]
      BY <1>v, <1>6, Operators, <1>s DEF FinishWrite, Integrate
    <2>7. tail' \in Seq(Readers)
      BY <1>v, <1>4, <1>s DEF FinishWrite, Integrate
    <2>8. index' \subseteq Path
      BY <1>v, <1>1, <2>1 DEF FinishWrite
    <2> QED
      BY <1>v, <2>3, <2>4, <2>5, <2>6, <2>7, <2>8
        DEF FinishWrite, Integrate, TypeOK, Missing, folder, store, absent, rest
  <1>20. CASE Land
    <2>1. Head(queue) \in Savers /\ queue' \in Seq(Savers)
      BY <1>20, <1>4 DEF Land
    <2>2. stored' \in Layout
      BY <1>20, <1>2, <1>4, <2>1 DEF Land, Save
    <2>3. save' \in [Savers -> Save]
      BY <1>20, <1>4, <2>1 DEF Land, Save
    <2>4. ghost' \in Ghost
      BY <1>20, <1>6 DEF Land, Ghost
    <2> QED
      BY <1>20, <2>1, <2>2, <2>3, <2>4 DEF Land, TypeOK, Missing, folder, store, absent, rest
  <1>21. CASE SaveFails
    <2>1. Head(queue) \in Savers /\ queue' \in Seq(Savers)
      BY <1>21, <1>4 DEF SaveFails
    <2>2. save' \in [Savers -> Save]
      BY <1>21, <1>4, <2>1 DEF SaveFails, Save
    <2>3. ghost' \in Ghost
      BY <1>21, <1>6 DEF SaveFails, Ghost
    <2> QED
      BY <1>21, <2>1, <2>2, <2>3 DEF SaveFails, TypeOK, Missing, folder, store, absent, rest
  <1>22. CASE TailRun
    <2>1. save' \in [Savers -> Save]
      BY <1>22, <1>2, <1>4, <1>s DEF TailRun, Call, Save
    <2>2. queue' \in Seq(Savers)
      <3>1. queue' = queue \/ queue' = Append(queue, "tail")
        BY <1>22 DEF TailRun, Call
      <3> QED
        BY <3>1, <1>4, <1>s
    <2>3. tail' \in Seq(Readers)
      BY <1>22, <1>4, <1>s DEF TailRun
    <2> QED
      BY <1>22, <2>1, <2>2, <2>3 DEF TailRun, TypeOK, Missing, folder, store, absent, rest
  <1>23. CASE TailAnswered
    <2>1. save' \in [Savers -> Save]
      BY <1>23, <1>4, Operators, <1>s DEF TailAnswered
    <2>2. persisted' \in Layout
      BY <1>23, <1>2, <1>4, <1>s DEF TailAnswered, Save
    <2>3. tail # << >>
      BY <1>23, <1>4, <1>w DEF TailAnswered
    <2>4. tail' \in Seq(Readers)
      BY <1>23, <1>4, <1>s, <2>3 DEF TailAnswered
    <2> QED
      BY <1>23, <2>1, <2>2, <2>3, <2>4 DEF TailAnswered, TypeOK, Missing, folder, store, absent,
        rest
  <1>24. CASE AcceptChanges
    <2>1. index \ (files \cup {moved.from}) \in SUBSET Path
      BY <1>24, <1>1
    <2>2. tabs' \in Layout
      BY <1>24, <1>1, <1>2, Operators DEF AcceptChanges, Moved, NoMove, MaybePath, Layout
    <2>3. absences' \in [Path -> Absence]
      BY <1>24, <1>3, Operators, <2>1 DEF AcceptChanges
    <2>4. ghost' \in Ghost
      BY <1>24, <1>1, <1>6 DEF AcceptChanges, Follow, Owing, Certain, NoMove, Ghost
    <2>5. snap' \in [Readers -> Snap]
      BY <1>24, <1>6, Operators DEF AcceptChanges, Batch
    <2>6. \A p \in Path : absences[p].known => absences'[p].known
      BY <1>24, <1>3, Operators DEF AcceptChanges, Recorded
    <2>7. pass' \in [Passes -> Pass]
      <3>1. pass' = Start("batch", absences', tabs' # tabs) /\ "batch" \in Passes
        BY <1>24 DEF AcceptChanges, Passes
      <3> QED
        BY <3>1, <1>5, <2>3, Starting
    <2>8. \A r \in Passes : pass'[r].todo \subseteq Missing'
      <3>1. pass' = Start("batch", absences', tabs' # tabs) /\ "batch" \in Passes
        BY <1>24 DEF AcceptChanges, Passes
      <3>2. /\ \A p \in pass'["batch"].todo : p \in Path /\ absences'[p].known
            /\ \A q \in Passes \ {"batch"} : pass'[q] = pass[q]
        BY <3>1, <1>5, <2>3, Starting
      <3> QED
        BY <3>2, <1>5, <2>6 DEF Missing
    <2>9. lock' \in User \cup {"batch", Free} /\ index' \subseteq Path /\ moved' \in [from : Path, to : Path] \cup {NoMove}
      BY <1>24, <1>1 DEF AcceptChanges, Batch
    <2> QED
      BY <1>24, <2>1, <2>2, <2>3, <2>4, <2>5, <2>6, <2>7, <2>8, <2>9
        DEF AcceptChanges, Batch, TypeOK, Missing, folder, store, absent, rest
  <1>25. CASE AcceptRebuild
    <2>1. snap' \in [Readers -> Snap]
      BY <1>25, <1>6, Operators DEF AcceptRebuild, Batch
    <2>2. pass' \in [Passes -> Pass]
      <3>1. pass' = Start("batch", absences, FALSE) /\ "batch" \in Passes
        BY <1>25 DEF AcceptRebuild, Passes
      <3> QED
        BY <3>1, <1>3, <1>5, Starting
    <2>3. \A r \in Passes : pass'[r].todo \subseteq Missing'
      <3>1. pass' = Start("batch", absences, FALSE) /\ "batch" \in Passes /\ absences' = absences
        BY <1>25 DEF AcceptRebuild, Passes
      <3>2. /\ \A p \in pass'["batch"].todo : p \in Path /\ absences[p].known
            /\ \A q \in Passes \ {"batch"} : pass'[q] = pass[q]
        BY <3>1, <1>3, <1>5, Starting
      <3> QED
        BY <3>1, <3>2, <1>5 DEF Missing
    <2>4. lock' \in User \cup {"batch", Free} /\ index' \subseteq Path /\ moved' \in [from : Path, to : Path] \cup {NoMove}
      BY <1>25, <1>1 DEF AcceptRebuild, Batch
    <2> QED
      BY <1>25, <2>1, <2>2, <2>3, <2>4 DEF AcceptRebuild, Batch, TypeOK, Missing, folder, store,
        absent, rest
  <1>26. CASE WakeFires
    <2>t. PICK r \in Timers : pass' = Start(r, absences, FALSE)
      BY <1>26, TimerStarts
    <2>r. r \in Passes /\ absences' = absences
      BY <1>26 DEF WakeFires, Passes
    <2>1. /\ pass' \in [Passes -> Pass]
          /\ \A p \in pass'[r].todo : p \in Path /\ absences[p].known
          /\ \A q \in Passes \ {r} : pass'[q] = pass[q]
      BY <2>t, <2>r, <1>3, <1>5, Starting
    <2>2. \A q \in Passes : pass'[q].todo \subseteq Missing'
      BY <2>1, <2>r, <1>5 DEF Missing
    <2> QED
      BY <1>26, <2>1, <2>2 DEF WakeFires, TypeOK, Missing, folder, store, absent, rest
  <1>27. CASE Elapse
    <2>1. absences' \in [Path -> Absence]
      BY <1>27, <1>3 DEF Elapse, Absence
    <2>2. \A p \in Path : absences'[p].known = absences[p].known
      BY <1>27, <1>3 DEF Elapse, Absence
    <2> QED
      BY <1>27, <2>1, <2>2 DEF Elapse, TypeOK, Missing, folder, store, absent, rest
  <1>28. ASSUME NEW u \in Passes, Look(u) PROVE TypeOK'
    <2>1. pass' \in [Passes -> Pass]
      BY <1>28, <1>5 DEF Look, Pass
    <2>2. \A r \in Passes : pass'[r].todo = pass[r].todo
      BY <1>28, <1>5 DEF Look, Pass
    <2> QED
      BY <1>28, <2>1, <2>2 DEF Look, TypeOK, Missing, folder, store, absent, rest
  <1>29. ASSUME NEW u \in Passes, Settled(u) PROVE TypeOK'
    <2>1. tail' \in Seq(Readers)
      BY <1>29, <1>4, <1>s DEF Settled
    <2>2. pass' = [pass EXCEPT ![u].pc = "saving"] \/ pass' = [pass EXCEPT ![u] = NoPass]
      BY <1>29 DEF Settled
    <2>3. [pass EXCEPT ![u].pc = "saving"] \in [Passes -> Pass]
      BY <1>5 DEF Pass
    <2>4. NoPass \in Pass
      BY Operators
    <2>5. pass' \in [Passes -> Pass]
      BY <1>5, <2>2, <2>3, <2>4
    <2>6. \A r \in Passes : pass'[r].todo \subseteq pass[r].todo
      BY <1>29, <1>5 DEF Settled, NoPass, Pass
    <2>7. snap' \in [Readers -> Snap]
      BY <1>29, <1>6, Operators, <1>s DEF Settled
    <2> QED
      BY <1>29, <2>1, <2>2, <2>3, <2>4, <2>5, <2>6, <2>7 DEF Settled, TypeOK, Missing, folder,
        store, absent, rest
  <1>30. ASSUME NEW u \in Passes, PassSaved(u) PROVE TypeOK'
    <2>1. pass' \in [Passes -> Pass]
      BY <1>30, <1>5, Operators DEF PassSaved
    <2>2. \A r \in Passes : pass'[r].todo \subseteq pass[r].todo
      BY <1>30, <1>5 DEF PassSaved, NoPass, Pass
    <2>3. snap' \in [Readers -> Snap]
      BY <1>30, <1>6, Operators, <1>s DEF PassSaved
    <2> QED
      BY <1>30, <2>1, <2>2, <2>3 DEF PassSaved, TypeOK, Missing, folder, store, absent, rest
  <1>31. ASSUME NEW u \in Readers, Capture(u) PROVE TypeOK'
    <2>1. tabs.open \cap index \in SUBSET Path /\ tabs.open \ index \in SUBSET Path
      BY <1>1, <1>2 DEF Layout
    <2>2. absences' \in [Path -> Absence]
      BY <1>31, <1>3, Operators, <2>1 DEF Capture
    <2>3. pass' \in [Passes -> Pass]
      BY <1>31, <1>5, Operators, <2>1 DEF Capture
    <2>4. \A r \in Passes : pass'[r].todo \subseteq Missing'
      <3> DEFINE back == tabs.open \cap index
      <3>1. \A p \in Path : absences[p].known /\ p \notin back => absences'[p].known
        BY <1>31, <1>3, Operators DEF Capture, Recorded, Forgotten
      <3>2. \A r \in Passes : pass'[r].todo = pass[r].todo \ back
        BY <1>31, <1>5, <2>1, Operators DEF Capture
      <3> HIDE DEF back
      <3> QED
        BY <3>1, <3>2, <1>5 DEF Missing
    <2>5. snap' = [snap EXCEPT ![u].pc = "taken", ![u].tabs = tabs, ![u].current = TRUE]
      BY <1>31, <1>2, <1>6 DEF Capture
    <2> DEFINE d == [snap[u] EXCEPT !.pc = "taken", !.tabs = tabs, !.current = TRUE]
    <2>7. d \in Snap
      BY <1>2, <1>6 DEF Snap
    <2>8. snap' = [snap EXCEPT ![u] = d]
      BY <2>5
    <2>6. snap' \in [Readers -> Snap]
      <3> HIDE DEF d
      <3> QED
        BY <1>6, <2>7, <2>8
    <2> QED
      BY <1>31, <2>1, <2>2, <2>3, <2>4, <2>5, <2>6 DEF Capture, TypeOK, Missing, folder, store,
        absent, rest
  <1>32. ASSUME NEW u \in Readers, Present(u) PROVE TypeOK'
    <2>1. shown' \in Layout
      BY <1>32, <1>2, <1>6 DEF Present, Snap
    <2>2. snap[u].tries + 1 < MaxAssembly => snap[u].tries + 1 \in 0..MaxAssembly - 1
      BY <1>6, Bounds DEF Snap
    <2>3. snap[u].tries + 1 < MaxAssembly => [NoSnap EXCEPT !.pc = "wanted", !.tries = snap[u].tries + 1] \in Snap
      BY <1>6, Operators, <2>2 DEF Snap, NoSnap
    <2>4. snap' \in [Readers -> Snap]
      BY <1>32, <1>6, Operators, <2>3 DEF Present, Retry
    <2>5. op' \in [User -> Op]
      BY <1>32, <1>6, Operators DEF Present, Retry, Ends
    <2>6. ghost' \in Ghost
      BY <1>32, <1>6 DEF Present, Retry, Ghost
    <2> QED
      BY <1>32, <2>1, <2>2, <2>3, <2>4, <2>5, <2>6 DEF Present, TypeOK, Missing, folder, store,
        absent, rest
  <1>33. ASSUME NEW u \in Readers, Refresh(u) PROVE TypeOK'
    <2>1. snap[u].tries + 1 < MaxAssembly => snap[u].tries + 1 \in 0..MaxAssembly - 1
      BY <1>6, Bounds DEF Snap
    <2>2. snap[u].tries + 1 < MaxAssembly => [NoSnap EXCEPT !.pc = "wanted", !.tries = snap[u].tries + 1] \in Snap
      BY <1>6, Operators, <2>1 DEF Snap, NoSnap
    <2>3. snap' \in [Readers -> Snap]
      BY <1>33, <1>6, Operators, <2>2 DEF Refresh, Retry
    <2>4. op' \in [User -> Op]
      BY <1>33, <1>6, Operators DEF Refresh, Retry, Ends
    <2>5. ghost' \in Ghost
      BY <1>33, <1>6 DEF Refresh, Retry, Ghost
    <2> QED
      BY <1>33, <2>1, <2>2, <2>3, <2>4, <2>5 DEF Refresh, TypeOK, Missing, folder, store, absent,
        rest
  <1>34. CASE ExtRemove
    <2>1. files' \subseteq Path /\ held' \subseteq Path \ files'
      BY <1>34, <1>1 DEF ExtRemove
    <2>2. ghost' \in Ghost
      BY <1>34, <1>6 DEF ExtRemove, Keep, Ghost
    <2>3. moved' \in [from : Path, to : Path] \cup {NoMove}
      BY <1>34, <1>1 DEF ExtRemove
    <2> QED
      BY <1>34, <2>1, <2>2, <2>3 DEF ExtRemove, Outside, TypeOK, Missing, folder, store, absent,
        rest
  <1>35. CASE ExtCreate
    <2>1. files' \subseteq Path /\ held' \subseteq Path \ files'
      BY <1>35, <1>1 DEF ExtCreate
    <2>2. ghost' \in Ghost
      BY <1>35, <1>6 DEF ExtCreate, Ghost
    <2>3. moved' \in [from : Path, to : Path] \cup {NoMove}
      BY <1>35, <1>1 DEF ExtCreate
    <2> QED
      BY <1>35, <2>1, <2>2, <2>3 DEF ExtCreate, Outside, TypeOK, Missing, folder, store, absent,
        rest
  <1>36. CASE ExtMove
    <2>1. PICK p \in files, q \in Path \ (files \cup held) : Renames(p, q)
      BY <1>36 DEF ExtMove
    <2>2. files' \subseteq Path /\ held' \subseteq Path \ files' /\ moved' \in [from : Path, to : Path] \cup {NoMove}
      BY <1>1, <2>1 DEF Renames
    <2>3. ghost' \in Ghost
      BY <1>1, <1>6, <2>1 DEF Renames, Ghost
    <2> QED
      BY <1>36, <2>1, <2>2, <2>3 DEF ExtMove, Renames, Outside, TypeOK, Missing, folder, store,
        absent, rest
  <1>37. CASE Hold
    <2>1. files' \subseteq Path /\ held' \subseteq Path \ files'
      BY <1>37, <1>1 DEF Hold
    <2>2. ghost' \in Ghost
      BY <1>37, <1>6 DEF Hold, Keep, Ghost
    <2> QED
      BY <1>37, <2>1, <2>2 DEF Hold, Outside, TypeOK, Missing, folder, store, absent, rest
  <1>38. CASE Release
    <2>1. files' \subseteq Path /\ held' \subseteq Path \ files'
      BY <1>38, <1>1 DEF Release
    <2>2. ghost' \in Ghost
      BY <1>38, <1>6 DEF Release, Ghost
    <2> QED
      BY <1>38, <2>1, <2>2 DEF Release, Outside, TypeOK, Missing, folder, store, absent, rest
  <1>39. CASE Restart
    <2>1. files' \subseteq Path /\ held' \subseteq Path \ files' /\ index' \subseteq Path
      BY <1>39, <1>1 DEF Restart
    <2>2. stored.open \ files' \in SUBSET Path /\ [p \in Path |-> NoAbsence] \in [Path -> Absence]
      BY <1>1, <1>2, Operators DEF Layout
    <2>3. absences' \in [Path -> Absence]
      BY <1>39, <1>3, Operators, <2>2 DEF Restart
    <2>4. ghost' \in Ghost
      BY <1>39, <1>6 DEF Restart, Ghost
    <2>5. pass' \in [Passes -> Pass] /\ \A r \in Passes : pass'[r].todo = {}
      BY <1>39, <1>5, Operators DEF Restart, NoPass
    <2>6. tail' \in Seq(Readers) /\ queue' \in Seq(Savers) /\ save' \in [Savers -> Save]
      BY <1>39, <1>4, Operators DEF Restart
    <2>7. op' \in [User -> Op] /\ snap' \in [Readers -> Snap] /\ moved' \in [from : Path, to : Path] \cup {NoMove}
      BY <1>39, <1>1, <1>6, Operators DEF Restart
    <2>8. lock' = Free /\ wake' \in BOOLEAN /\ removed' = {}
      BY <1>39, <1>3 DEF Restart
    <2>9. tabs' \in Layout /\ persisted' \in Layout /\ stored' \in Layout /\ shown' \in Layout
      BY <1>39, <1>2 DEF Restart
    <2> QED
      BY <1>39, <2>1, <2>2, <2>3, <2>4, <2>5, <2>6, <2>7, <2>8, <2>9
        DEF Restart, TypeOK, Missing, folder, store, absent, rest
  <1>c. ASSUME NEW u \in Passes, Consider(u) PROVE TypeOK'
    <2> DEFINE skipped(p) == [pass EXCEPT ![u].todo = @ \ {p}]
    <2>1. pass[u].at = NoPath /\ UNCHANGED <<folder, tabs, removed, wake, tail, store, lock, op, snap, shown, rest>>
      BY <1>c DEF Consider
    <2>2. PICK p \in pass[u].todo :
            \/ Forget({p})
            \/ pass' = skipped(p) /\ UNCHANGED absences
            \/ absences' = [absences EXCEPT ![p].due = FALSE] /\ pass' = skipped(p)
            \/ /\ absences' = [absences EXCEPT ![p].due = FALSE, ![p].tries = @ + 1]
               /\ pass' = [skipped(p) EXCEPT ![u].at = p, ![u].saw = "none", ![u].live = TRUE]
      BY <1>c DEF Consider
    <2>3. p \in Path /\ absences[p].known
      BY <1>5
    <2>4. skipped(p) \in [Passes -> Pass] /\ \A r \in Passes : skipped(p)[r].todo \subseteq pass[r].todo
      BY <1>5 DEF Pass
    <2>5. /\ absences' \in [Path -> Absence] /\ pass' \in [Passes -> Pass]
          /\ \A r \in Passes : pass'[r].todo \subseteq {q \in Path : absences'[q].known}
      <3>1. CASE Forget({p})
        BY <3>1, <2>3, <1>3, <1>5, <1>o, <1>f, Operators DEF Forget
      <3>2. CASE pass' = skipped(p) /\ UNCHANGED absences
        BY <3>2, <2>4, <1>3, <1>5
      <3>3. CASE absences' = [absences EXCEPT ![p].due = FALSE] /\ pass' = skipped(p)
        <4>1. absences' \in [Path -> Absence] /\ \A q \in Path : absences'[q].known = absences[q].known
          BY <3>3, <1>3 DEF Absence
        <4> QED
          BY <3>3, <4>1, <2>4, <1>5
      <3>4. CASE /\ absences' = [absences EXCEPT ![p].due = FALSE, ![p].tries = @ + 1]
                 /\ pass' = [skipped(p) EXCEPT ![u].at = p, ![u].saw = "none", ![u].live = TRUE]
        <4>1. absences[p].tries + 1 \in 0..MaxTries
          <5>1. absences[p].tries < MaxAttempts + Cardinality(Reading(p))
            BY <2>3 DEF Tried
          <5>2. Reading(p) \in SUBSET Passes /\ u \in Passes \ Reading(p)
            BY <2>1, <2>3, Apart DEF Reading, Reads
          <5>3. Cardinality(Reading(p)) \in Nat /\ Cardinality(Reading(p)) <= Cardinality(Timers)
            BY <5>2, Counted
          <5> QED
            BY <5>1, <5>3, <2>3, <1>3, Counted DEF Absence, MaxAttempts
        <4>2. absences' \in [Path -> Absence] /\ \A q \in Path : absences'[q].known = absences[q].known
          BY <3>4, <4>1, <1>3 DEF Absence
        <4>3. pass' \in [Passes -> Pass] /\ \A r \in Passes : pass'[r].todo = skipped(p)[r].todo
          <5> DEFINE d == [skipped(p)[u] EXCEPT !.at = p, !.saw = "none", !.live = TRUE]
          <5>1. d \in Pass /\ d.todo = skipped(p)[u].todo
            <6>1. skipped(p)[u] \in Pass
              BY <2>4
            <6> HIDE DEF skipped
            <6> QED
              BY <6>1, <2>3 DEF Pass, MaybePath
          <5>2. pass' = [skipped(p) EXCEPT ![u] = d]
            BY <3>4, <2>4
          <5> QED
            BY <5>1, <5>2, <2>4
        <4> QED
          BY <4>2, <4>3, <2>4, <1>5
      <3> QED
        BY <2>2, <3>1, <3>2, <3>3, <3>4
    <2> QED
      BY <2>1, <2>5 DEF TypeOK, Missing, folder, store, rest
  <1>d. ASSUME NEW u \in Passes, Decide(u) PROVE TypeOK'
    <2> DEFINE p == pass[u].at
               seen == absences[p].seen + (IF pass[u].saw = "absent" THEN 1 ELSE 0)
               done == [pass EXCEPT ![u].at = NoPath, ![u].saw = "none", ![u].live = TRUE]
               forgotten == [q \in Passes |-> Outdated({p}, done[q])]
    <2>1. p \in Path /\ UNCHANGED <<folder, wake, tail, store, lock, op, snap, shown, left>>
      BY <1>d, <1>5 DEF Decide, Resting, Pass, MaybePath
    <2>2. done \in [Passes -> Pass] /\ \A r \in Passes : done[r].todo = pass[r].todo
      <3> DEFINE d == [pass[u] EXCEPT !.at = NoPath, !.saw = "none", !.live = TRUE]
      <3>1. d \in Pass /\ d.todo = pass[u].todo
        BY <1>5 DEF Pass, MaybePath
      <3>2. done = [pass EXCEPT ![u] = d]
        BY <1>5
      <3> QED
        BY <3>1, <3>2, <1>5
    <2>3. forgotten \in [Passes -> Pass] /\ \A r \in Passes : forgotten[r].todo = pass[r].todo \ {p}
      <3>1. forgotten \in [Passes -> Pass]
        BY <2>1, <2>2, Operators
      <3>2. \A r \in Passes : forgotten[r].todo = done[r].todo \ {p}
        BY <2>1, <2>2, <1>o
      <3> QED
        BY <3>1, <3>2, <2>2
    <2>4. \/ pass' = done /\ UNCHANGED <<absences, removed, tabs, ghost>>
          \/ /\ absences' = Forgotten(absences, {p}) /\ pass' = forgotten
             /\ ghost' = [ghost EXCEPT !.blink = @ \/ p \notin index] /\ UNCHANGED <<removed, tabs>>
          \/ /\ seen < Confirmed /\ absences' = [absences EXCEPT ![p].seen = seen] /\ pass' = done
             /\ UNCHANGED <<removed, tabs, ghost>>
          \/ /\ absences' = Forgotten(absences, {p}) /\ removed' = removed \cup {p}
             /\ tabs' = Without(tabs, {p})
             /\ pass' = [forgotten EXCEPT ![u].changed = @ \/ p \in tabs.open]
             /\ ghost' = [ghost EXCEPT !.gone = @ \cup ({p} \ (files \cup held \cup index)),
                                       !.owed = IF seen < Confirmed THEN @ \ {p} ELSE @]
      BY <1>d DEF Decide
    <2>8. /\ Forgotten(absences, {p}) \in [Path -> Absence]
          /\ \A r \in Passes : \A q \in pass[r].todo \ {p} : q \in Path /\ Forgotten(absences, {p})[q].known
      <3>1. {p} \in SUBSET Path
        BY <2>1
      <3>2. Forgotten(absences, {p}) \in [Path -> Absence]
        BY <3>1, <1>3, Operators
      <3>3. ASSUME NEW r \in Passes, NEW q \in pass[r].todo \ {p}
            PROVE  q \in Path /\ Forgotten(absences, {p})[q].known
        <4>1. q \in Path /\ absences[q].known /\ q \notin {p}
          BY <3>3, <1>5
        <4> HIDE DEF p
        <4> QED
          BY <4>1, <3>1, <1>f
      <3> QED
        BY <3>2, <3>3
    <2>5. /\ absences' \in [Path -> Absence] /\ pass' \in [Passes -> Pass]
          /\ \A r \in Passes : pass'[r].todo \subseteq {q \in Path : absences'[q].known}
      <3> HIDE DEF p, seen, done, forgotten
      <3>1. CASE pass' = done /\ UNCHANGED absences
        BY <3>1, <2>2, <1>3, <1>5
      <3>2. CASE absences' = Forgotten(absences, {p}) /\ pass' = forgotten
        BY <3>2, <2>3, <2>8
      <3>3. CASE seen < Confirmed /\ absences' = [absences EXCEPT ![p].seen = seen] /\ pass' = done
        <4>1. seen \in 0..Confirmed - 1
          BY <3>3, <2>1, <1>3 DEF seen, Absence, Confirmed
        <4>2. absences' \in [Path -> Absence] /\ \A q \in Path : absences'[q].known = absences[q].known
          BY <3>3, <4>1, <1>3 DEF Absence
        <4> QED
          BY <3>3, <4>2, <2>2, <1>5
      <3>4. CASE /\ absences' = Forgotten(absences, {p})
                 /\ pass' = [forgotten EXCEPT ![u].changed = @ \/ p \in tabs.open]
        <4>1. pass' \in [Passes -> Pass] /\ \A r \in Passes : pass'[r].todo = forgotten[r].todo
          <5> DEFINE d == [forgotten[u] EXCEPT !.changed = @ \/ p \in tabs.open]
          <5>1. (forgotten[u].changed \/ p \in tabs.open) \in BOOLEAN
            OBVIOUS
          <5>4. \A b \in BOOLEAN : LET c == [forgotten[u] EXCEPT !.changed = b] IN c \in Pass /\ c.todo = forgotten[u].todo
            BY <2>3 DEF Pass
          <5>2. d \in Pass /\ d.todo = forgotten[u].todo
            BY <5>1, <5>4, Zenon
          <5>3. pass' = [forgotten EXCEPT ![u] = d]
            BY <3>4, <2>3
          <5> HIDE DEF d, forgotten
          <5> QED
            BY <5>2, <5>3, <2>3
        <4> QED
          BY <3>4, <4>1, <2>3, <2>8
      <3> QED
        BY <2>4, <3>1, <3>2, <3>3, <3>4
    <2>6. tabs' \in Layout /\ removed' \subseteq Path
      BY <2>1, <2>4, <1>2, <1>3, Operators
    <2>7. ghost' \in Ghost
      <3>1. (ghost.blink \/ p \notin index) \in BOOLEAN
        OBVIOUS
      <3>2. [ghost EXCEPT !.blink = @ \/ p \notin index] \in Ghost
        BY <3>1, <1>6 DEF Ghost
      <3>3. [ghost EXCEPT !.gone = @ \cup ({p} \ (files \cup held \cup index)),
                           !.owed = IF seen < Confirmed THEN @ \ {p} ELSE @] \in Ghost
        <4> DEFINE gone == ghost.gone \cup ({p} \ (files \cup held \cup index))
                   owed == IF seen < Confirmed THEN ghost.owed \ {p} ELSE ghost.owed
        <4>1. gone \in SUBSET Path /\ owed \in SUBSET Path
          BY <2>1, <1>6 DEF Ghost
        <4> HIDE DEF gone, owed
        <4>2. [ghost EXCEPT !.gone = gone, !.owed = owed] \in Ghost
          BY <4>1, <1>6 DEF Ghost
        <4> QED
          BY <4>2 DEF gone, owed
      <3> QED
        BY <2>4, <3>2, <3>3, <1>6
    <2> QED
      BY <2>1, <2>5, <2>6, <2>7 DEF TypeOK, Missing, folder, store
  <1>u. CASE UNCHANGED vars
    BY <1>u DEF TypeOK, Missing, vars
  <1> QED
    BY <1>7, <1>8, <1>9, <1>10, <1>11, <1>12, <1>13, <1>14, <1>15, <1>16, <1>17, <1>18, <1>19,
      <1>20, <1>21, <1>22, <1>23, <1>24, <1>25, <1>26, <1>27, <1>28, <1>29, <1>30, <1>31, <1>32,
      <1>33, <1>34, <1>35, <1>36, <1>37, <1>38, <1>39, <1>c, <1>d, <1>e, <1>v, <1>u
    DEF Next, Operations, Continuations, Settling, Publishing, Accepting, Others
-----------------------------------------------------------------------------
\* A pass looks at a path only while it runs, whatever happens.
LEMMA RestingKept == Sound /\ [Next]_vars => Resting'
  <1> SUFFICES ASSUME Sound, [Next]_vars PROVE Resting'
    OBVIOUS
  <1> USE Apart
  <1>0. Resting /\ pass \in [Passes -> Pass]
    BY DEF Sound, TypeOK
  <1>1. \A r \in Passes : \A known, changed : pass' = Start(r, known, changed) => Resting'
    BY <1>0 DEF Resting, Start, NoPass
  <1>2. (\A r \in Passes : pass'[r].pc = pass[r].pc /\ pass'[r].at = pass[r].at /\ pass'[r].saw = pass[r].saw) => Resting'
    BY <1>0 DEF Resting
  <1>3. \A r \in Passes : pass' = [pass EXCEPT ![r] = NoPass] => Resting'
    BY <1>0 DEF Resting, NoPass
  <1>4. CASE AcceptChanges \/ AcceptRebuild \/ WakeFires
    BY <1>4, <1>1, TimerStarts DEF AcceptChanges, AcceptRebuild, Passes
  <1>5. ASSUME NEW r \in Passes, Consider(r) PROVE Resting'
    <2>1. Considered(r)
      BY <1>5, PassSteps DEF Sound
    <2>2. pass[r].pc = "running" /\ \A q \in Passes : pass'[q].pc = pass[q].pc
      BY <2>1 DEF Considered
    <2>3. ASSUME NEW q \in Passes
          PROVE  \/ pass'[q].at = pass[q].at /\ pass'[q].saw = pass[q].saw
                 \/ q = r /\ pass'[q].saw = "none"
      BY <2>1 DEF Considered
    <2> QED
      BY <2>2, <2>3, <1>0 DEF Resting
  <1>6. ASSUME NEW r \in Passes, Look(r) PROVE Resting'
    BY <1>6, <1>0 DEF Look, Resting, Pass
  <1>7. ASSUME NEW r \in Passes, Decide(r) PROVE Resting'
    <2>1. Decided(r)
      BY <1>7, PassSteps DEF Sound
    <2> QED
      BY <2>1, <1>0 DEF Decided, Resting
  <1>8. ASSUME NEW r \in Passes, Settled(r) PROVE Resting'
    BY <1>8, <1>0, <1>3 DEF Settled, Resting, Pass
  <1>9. ASSUME NEW r \in Passes, PassSaved(r) PROVE Resting'
    <2>1. pass' = [pass EXCEPT ![r] = NoPass]
      BY <1>9 DEF PassSaved
    <2> QED
      BY <2>1, <1>3
  <1>10. ASSUME NEW w \in Readers, Capture(w) PROVE Resting'
    BY <1>10, <1>0, <1>2 DEF Capture, Outdated, Pass
  <1>11. CASE Restart
    BY <1>11 DEF Restart, Resting, NoPass
  <1>12. CASE UNCHANGED pass
    BY <1>12, <1>2
  <1>13. \/ UNCHANGED pass \/ AcceptChanges \/ AcceptRebuild \/ WakeFires \/ Restart
         \/ \E r \in Passes : Consider(r) \/ Look(r) \/ Decide(r) \/ Settled(r) \/ PassSaved(r)
         \/ \E w \in Readers : Capture(w)
    BY DEF Next, vars, Operations, Continuations, Settling, Publishing, Accepting, Others,
      Unmoved, Outside,
      Select, CloseTab, Arrange, MoveNote, TrashNote, WriteNote, OpenTab, OpenUnread, UserSaved, UserRefused, Repaired,
      FinishMove, Integrate, FinishWrite, NoteUnread, Reconciled, Land, SaveFails, TailRun, TailAnswered, Elapse, Present, Refresh,
      ExtRemove, ExtCreate, ExtMove, Hold, Release
  <1> QED
    BY <1>4, <1>5, <1>6, <1>7, <1>8, <1>9, <1>10, <1>11, <1>12, <1>13

\* No step reads an absence more often than its limit allows.
LEMMA TriedKept == Sound /\ [Next]_vars => Tried'
  <1> SUFFICES ASSUME Sound, [Next]_vars PROVE Tried'
    OBVIOUS
  <1> USE Apart
  <1>0. Resting /\ Tried /\ pass \in [Passes -> Pass] /\ absences \in [Path -> Absence] /\ tabs \in Layout /\ index \subseteq Path
    BY DEF Sound, TypeOK
  <1> DEFINE Same(p) == /\ absences'[p].tries = absences[p].tries
                        /\ \A r \in Passes : Reads(r, p)' <=> Reads(r, p)
  <1>1. ASSUME \A p \in Path : (absences'[p].tries \in Nat /\ absences'[p].tries < MaxAttempts) \/ Same(p)
        PROVE  Tried'
    <2>1. ASSUME NEW p \in Path, Same(p)
          PROVE  absences'[p].tries < MaxAttempts + Cardinality(Reading(p)')
      <3>1. Reading(p)' = Reading(p)
        BY <2>1 DEF Reading
      <3> QED
        BY <2>1, <3>1, <1>0 DEF Tried
    <2>2. ASSUME NEW p \in Path, absences'[p].tries \in Nat, absences'[p].tries < MaxAttempts
          PROVE  absences'[p].tries < MaxAttempts + Cardinality(Reading(p)')
      <3>1. Reading(p)' \in SUBSET Passes
        BY DEF Reading
      <3>2. Cardinality(Reading(p)') \in Nat
        BY <3>1, Counted
      <3> QED
        BY <2>2, <3>2 DEF MaxAttempts
    <2> QED
      BY <1>1, <2>1, <2>2 DEF Tried
  <1>2. \A P \in SUBSET Path, p \in Path :
          /\ Forgotten(absences, P)[p].tries = IF p \in P THEN 0 ELSE absences[p].tries
          /\ Recorded(absences, P)[p].tries = absences[p].tries \/ Recorded(absences, P)[p].tries = 0
    BY DEF Forgotten, Recorded, NoAbsence, NewAbsence
  <1>3. ASSUME NEW r \in Passes, pass[r].at = NoPath, pass'[r].at = NoPath,
               \A q \in Passes : q # r => pass'[q] = pass[q]
        PROVE  \A p \in Path : \A q \in Passes : Reads(q, p)' <=> Reads(q, p)
    BY <1>3 DEF Reads
  <1>4. CASE AcceptChanges
    <2>1. pass["batch"].at = NoPath /\ pass' = Start("batch", absences', tabs' # tabs)
      BY <1>4, <1>0 DEF AcceptChanges, Batch, Resting, Passes
    <2>2. \A p \in Path : absences'[p].tries = absences[p].tries \/ absences'[p].tries = 0
      BY <1>4, <1>0, <1>2 DEF AcceptChanges
    <2>4. pass'["batch"].at = NoPath /\ \A q \in Passes : q # "batch" => pass'[q] = pass[q]
      BY <2>1, <1>0 DEF Start, NoPass, Passes
    <2>3. \A p \in Path : \A q \in Passes : Reads(q, p)' <=> Reads(q, p)
      BY <2>1, <2>4, <1>3 DEF Passes
    <2> QED
      BY <2>2, <2>3, <1>1 DEF MaxAttempts
  <1>5. CASE AcceptRebuild \/ WakeFires
    <2>1. PICK r \in Passes : pass[r].at = NoPath /\ \E known, changed : pass' = Start(r, known, changed)
      BY <1>5, <1>0, TimerStarts DEF AcceptRebuild, Batch, Resting, Passes
    <2>4. pass'[r].at = NoPath /\ \A q \in Passes : q # r => pass'[q] = pass[q]
      BY <2>1, <1>0 DEF Start, NoPass
    <2>2. \A p \in Path : \A q \in Passes : Reads(q, p)' <=> Reads(q, p)
      BY <2>1, <2>4, <1>3
    <2>3. absences' = absences
      BY <1>5 DEF AcceptRebuild, WakeFires
    <2> QED
      BY <2>2, <2>3, <1>1
  <1>6. CASE Elapse
    <2>1. \A p \in Path : absences'[p].tries = absences[p].tries
      BY <1>6, <1>0 DEF Elapse, Missing, Absence
    <2> QED
      BY <2>1, <1>6, <1>1 DEF Elapse, Reads
  <1>7. ASSUME NEW r \in Passes, Consider(r) PROVE Tried'
    <2>1. Considered(r) /\ pass[r].at = NoPath
      BY <1>7, PassSteps DEF Sound, Considered
    <2>2. PICK p \in Path :
            \/ /\ absences' = Forgotten(absences, {p})
               /\ \A q \in Passes : /\ pass'[q].at = pass[q].at
                                    /\ pass'[q].live <=> (pass[q].live /\ pass[q].at # p)
            \/ /\ \A q \in Path : absences'[q].tries = absences[q].tries
               /\ \A q \in Passes : pass'[q].at = pass[q].at /\ pass'[q].live = pass[q].live
            \/ /\ absences'[p].tries = absences[p].tries + 1
               /\ \A q \in Path \ {p} : absences'[q] = absences[q]
               /\ pass'[r].at = p /\ pass'[r].live
               /\ \A q \in Passes \ {r} : pass'[q] = pass[q]
      BY <2>1, Zenon DEF Considered
    <2>3. CASE /\ absences' = Forgotten(absences, {p})
               /\ \A q \in Passes : /\ pass'[q].at = pass[q].at
                                    /\ pass'[q].live <=> (pass[q].live /\ pass[q].at # p)
      <3>1. \A q \in Path \ {p} : \A k \in Passes : Reads(k, q)' <=> Reads(k, q)
        BY <2>3 DEF Reads
      <3>2. \A q \in Path : absences'[q].tries = IF q = p THEN 0 ELSE absences[q].tries
        BY <2>3, <1>2
      <3> QED
        BY <3>1, <3>2, <1>1 DEF MaxAttempts
    <2>4. CASE /\ \A q \in Path : absences'[q].tries = absences[q].tries
               /\ \A q \in Passes : pass'[q].at = pass[q].at /\ pass'[q].live = pass[q].live
      BY <2>4, <1>1 DEF Reads
    <2>5. CASE /\ absences'[p].tries = absences[p].tries + 1
               /\ \A q \in Path \ {p} : absences'[q] = absences[q]
               /\ pass'[r].at = p /\ pass'[r].live
               /\ \A q \in Passes \ {r} : pass'[q] = pass[q]
      <3>1. \A q \in Path \ {p} : Same(q)
        BY <2>1, <2>5 DEF Reads
      <3>2. absences[p].tries \in Nat /\ ~Reads(r, p) /\ Reads(r, p)'
        BY <2>1, <2>5, <1>0 DEF Reads, Absence
      <3>3. \A k \in Passes \ {r} : Reads(k, p)' <=> Reads(k, p)
        BY <2>5 DEF Reads
      <3>4. Reading(p) \in SUBSET Passes /\ r \in Passes \ Reading(p) /\ Reading(p)' = Reading(p) \cup {r}
        BY <3>2, <3>3 DEF Reading
      <3>5. absences'[p].tries < MaxAttempts + Cardinality(Reading(p)')
        <4>1. /\ Cardinality(Reading(p)) \in Nat
              /\ Cardinality(Reading(p)') = Cardinality(Reading(p)) + 1
          BY <3>4, Counted
        <4> QED
          BY <4>1, <3>2, <2>5, <1>0 DEF Tried, MaxAttempts
      <3>6. \A q \in Path \ {p} : Reading(q)' = Reading(q)
        BY <3>1 DEF Reading
      <3>7. \A q \in Path \ {p} : absences'[q].tries < MaxAttempts + Cardinality(Reading(q)')
        BY <3>1, <3>6, <1>0 DEF Tried
      <3> QED
        BY <3>5, <3>7 DEF Tried
    <2> QED
      BY <2>2, <2>3, <2>4, <2>5
  <1>8. ASSUME NEW r \in Passes, Decide(r) PROVE Tried'
    <2>1. Decided(r)
      BY <1>8, PassSteps DEF Sound
    <2>p. PICK p \in Path : p = pass[r].at
      BY <2>1 DEF Decided
    <2>2. \A q \in Path \ {p} : \A k \in Passes : Reads(k, q)' <=> Reads(k, q)
      <3>1. pass'[r].at = NoPath /\ \A k \in Passes \ {r} : /\ pass'[k].at = pass[k].at
                                                            /\ pass[k].at # p => pass'[k].live = pass[k].live
        BY <2>1, <2>p DEF Decided
      <3>2. ASSUME NEW q \in Path \ {p} PROVE Reads(r, q)' <=> Reads(r, q)
        BY <3>1, <2>p DEF Reads
      <3>3. ASSUME NEW q \in Path \ {p}, NEW k \in Passes \ {r} PROVE Reads(k, q)' <=> Reads(k, q)
        <4>1. pass'[k].at = pass[k].at
          BY <3>1
        <4>2. pass[k].at = q => pass'[k].live = pass[k].live
          BY <3>1, <2>p
        <4> QED
          BY <4>1, <4>2 DEF Reads
      <3> QED
        BY <3>2, <3>3
    <2>3. CASE /\ ~pass[r].live /\ absences' = absences
               /\ \A q \in Passes \ {r} : pass'[q].live = pass[q].live
      <3>1. pass'[r].at = NoPath /\ \A k \in Passes \ {r} : pass'[k].at = pass[k].at
        BY <2>1, <2>p DEF Decided
      <3>2. ~Reads(r, p)' /\ ~Reads(r, p)
        BY <2>p, <2>3, <3>1 DEF Reads
      <3>3. ASSUME NEW k \in Passes \ {r} PROVE Reads(k, p)' <=> Reads(k, p)
        BY <2>3, <3>1 DEF Reads
      <3>4. \A k \in Passes : Reads(k, p)' <=> Reads(k, p)
        BY <3>2, <3>3
      <3> QED
        BY <2>2, <2>3, <3>4, <1>1
    <2>4. CASE absences' = Forgotten(absences, {p})
      <3>1. \A q \in Path : absences'[q].tries = IF q = p THEN 0 ELSE absences[q].tries
        BY <2>4, <1>2
      <3> QED
        BY <2>2, <3>1, <1>1 DEF MaxAttempts
    <2>5. CASE absences[p].tries < MaxAttempts /\ \A q \in Path : absences'[q].tries = absences[q].tries
      <3>1. absences[p].tries \in Nat
        BY <1>0 DEF Absence
      <3> QED
        BY <3>1, <2>2, <2>5, <1>1
    <2> QED
      BY <2>1, <2>p, <2>3, <2>4, <2>5 DEF Decided
  <1>9. ASSUME NEW w \in Readers, Capture(w) PROVE Tried'
    <2> DEFINE back == tabs.open \cap index
    <2>1. back \in SUBSET Path /\ tabs.open \ index \in SUBSET Path
      BY <1>0 DEF Layout
    <2>2. /\ absences' = Recorded(Forgotten(absences, back), tabs.open \ index)
          /\ pass' = [r \in Passes |-> Outdated(back, pass[r])]
      BY <1>9 DEF Capture
    <2> HIDE DEF back
    <2>3. \A p \in Path : absences'[p].tries = 0 \/ (p \notin back /\ absences'[p].tries = absences[p].tries)
      BY <2>1, <2>2 DEF Recorded, Forgotten, NoAbsence, NewAbsence
    <2>4. \A p \in Path \ back : \A k \in Passes : Reads(k, p)' <=> Reads(k, p)
      <3>1. \A k \in Passes : pass'[k].at = pass[k].at
                              /\ (pass'[k].live <=> pass[k].live /\ pass[k].at \notin back)
        BY <2>1, <2>2, <1>0, Operators
      <3> QED
        BY <3>1 DEF Reads
    <2> QED
      BY <2>3, <2>4, <1>1 DEF MaxAttempts
  <1>10. CASE Restart
    <2>1. stored.open \ files' \in SUBSET Path
      BY <1>10 DEF Restart, Sound, TypeOK, Layout
    <2>2. \A p \in Path : absences'[p].tries = 0
      BY <1>10, <2>1 DEF Restart, Recorded, NoAbsence, NewAbsence
    <2> QED
      BY <2>2, <1>1 DEF MaxAttempts
  <1>11. ASSUME NEW r \in Passes, Look(r) \/ Settled(r) \/ PassSaved(r) PROVE Tried'
    <2>1. absences' = absences
      BY <1>11 DEF Look, Settled, PassSaved, absent
    <2>2. \A p \in Path : \A k \in Passes : Reads(k, p)' <=> Reads(k, p)
      <3>1. CASE \E saw : pass' = [pass EXCEPT ![r].saw = saw]
        BY <3>1, <1>0 DEF Reads, Pass
      <3>2. CASE pass[r].at = NoPath /\ (pass' = [pass EXCEPT ![r].pc = "saving"] \/ pass' = [pass EXCEPT ![r] = NoPass])
        BY <3>2, <1>0 DEF Reads, Pass, NoPass
      <3>3. Look(r) => \E saw : pass' = [pass EXCEPT ![r].saw = saw]
        BY DEF Look
      <3>4. Settled(r) => pass[r].at = NoPath /\ (pass' = [pass EXCEPT ![r].pc = "saving"] \/ pass' = [pass EXCEPT ![r] = NoPass])
        BY DEF Settled
      <3>5. PassSaved(r) => pass[r].at = NoPath /\ pass' = [pass EXCEPT ![r] = NoPass]
        BY <1>0 DEF PassSaved, Resting
      <3> QED
        BY <1>11, <3>1, <3>2, <3>3, <3>4, <3>5
    <2> QED
      BY <2>1, <2>2, <1>1
  <1>12. CASE UNCHANGED <<absences, pass>>
    BY <1>12, <1>1 DEF Reads
  <1>13. \/ UNCHANGED <<absences, pass>> \/ AcceptChanges \/ AcceptRebuild \/ WakeFires \/ Elapse \/ Restart
         \/ \E r \in Passes : Consider(r) \/ Look(r) \/ Decide(r) \/ Settled(r) \/ PassSaved(r)
         \/ \E w \in Readers : Capture(w)
    BY DEF Next, vars, Operations, Continuations, Settling, Publishing, Accepting, Others,
      Unmoved, Outside, absent,
      Select, CloseTab, Arrange, MoveNote, TrashNote, WriteNote, OpenTab, OpenUnread, UserSaved, UserRefused, Repaired,
      FinishMove, Integrate, FinishWrite, NoteUnread, Reconciled, Land, SaveFails, TailRun, TailAnswered, Present, Refresh,
      ExtRemove, ExtCreate, ExtMove, Hold, Release
  <1> QED
    BY <1>4, <1>5, <1>6, <1>7, <1>8, <1>9, <1>10, <1>11, <1>12, <1>13

\* Each saver has one call at most, and it is in the queue until it is answered.
LEMMA QueuedKept == Sound /\ [Next]_vars => Queued'
  <1> SUFFICES ASSUME Sound, [Next]_vars PROVE Queued'
    OBVIOUS
  <1> USE Apart
  <1>0. /\ Queued /\ Publishes /\ queue \in Seq(Savers) /\ save \in [Savers -> Save] /\ tail \in Seq(Readers)
        /\ op \in [User -> Op] /\ snap \in [Readers -> Snap]
    BY DEF Sound, TypeOK
  <1>a. User \subseteq Savers /\ "tail" \in Savers /\ "tail" \notin User /\ User \subseteq Readers
    BY DEF Savers, Readers
  <1> DEFINE Line == /\ \A w \in Savers : save[w].phase = "queued" <=> \E i \in DOMAIN queue : queue[i] = w
                     /\ \A i, j \in DOMAIN queue : queue[i] = queue[j] => i = j
             Users == \A u \in User : save[u].phase # "none" => op[u].pc = "saving"
             Tails == save["tail"].phase # "none" => tail # << >>
  <1>1. ASSUME NEW w \in Savers, NEW s, Call(w, s), save[w].phase = "none" PROVE Line'
    <2>1. queue' = Append(queue, w) /\ save'[w].phase = "queued" /\ \A v \in Savers : v # w => save'[v] = save[v]
      BY <1>1, <1>0 DEF Call
    <2>2. /\ DOMAIN queue' = 1..Len(queue) + 1 /\ queue'[Len(queue) + 1] = w
          /\ \A i \in 1..Len(queue) : queue'[i] = queue[i] /\ queue[i] # w /\ i \in DOMAIN queue
      BY <1>0, <1>1, <2>1 DEF Queued
    <2>3. \A v \in Savers : save'[v].phase = "queued" <=> \E i \in DOMAIN queue' : queue'[i] = v
      <3>1. ASSUME NEW v \in Savers, v # w
            PROVE  (\E i \in DOMAIN queue' : queue'[i] = v) <=> \E i \in DOMAIN queue : queue[i] = v
        <4>1. DOMAIN queue = 1..Len(queue) /\ Len(queue) \in Nat
          BY <1>0
        <4>2. \A i \in DOMAIN queue' : i = Len(queue) + 1 \/ i \in DOMAIN queue
          BY <4>1, <2>2
        <4> QED
          BY <3>1, <4>1, <4>2, <2>2
      <3>2. \A v \in Savers : save[v].phase = "queued" <=> \E i \in DOMAIN queue : queue[i] = v
        BY <1>0 DEF Queued
      <3>3. \E i \in DOMAIN queue' : queue'[i] = w
        BY <2>2, <1>0
      <3>4. ASSUME NEW v \in Savers
            PROVE  save'[v].phase = "queued" <=> \E i \in DOMAIN queue' : queue'[i] = v
        <4>1. CASE v = w
          BY <4>1, <2>1, <3>3
        <4>2. CASE v # w
          BY <4>2, <2>1, <3>1, <3>2
        <4> QED
          BY <4>1, <4>2
      <3> QED
        BY <3>4
    <2>4. \A i, j \in DOMAIN queue' : queue'[i] = queue'[j] => i = j
      BY <2>2, <1>0 DEF Queued
    <2> QED
      BY <2>3, <2>4
  <1>2. ASSUME NEW w \in Savers, save[w].phase # "queued", save' = [save EXCEPT ![w] = NoSave], UNCHANGED queue
        PROVE  Line'
    BY <1>0, <1>2 DEF Queued, NoSave
  <1>3. ASSUME queue # << >>, queue' = Tail(queue), NEW x \in {"ok", "no"},
               save' = [save EXCEPT ![Head(queue)].phase = x], UNCHANGED <<op, tail>>
        PROVE  Line' /\ Users' /\ Tails'
    <2>1. /\ DOMAIN queue = 1..Len(queue) /\ DOMAIN queue' = 1..Len(queue) - 1 /\ 1 \in DOMAIN queue
          /\ Head(queue) = queue[1] /\ queue[1] \in Savers
          /\ \A i \in DOMAIN queue' : queue'[i] = queue[i + 1] /\ i + 1 \in DOMAIN queue /\ i + 1 # 1
      BY <1>0, <1>3
    <2>2. save'[queue[1]].phase = x /\ save[queue[1]].phase = "queued" /\ \A v \in Savers : v # queue[1] => save'[v] = save[v]
      BY <1>0, <1>3, <2>1 DEF Queued, Save
    <2>3. \A v \in Savers : save'[v].phase = "queued" <=> \E i \in DOMAIN queue' : queue'[i] = v
      <3>1. ASSUME NEW v \in Savers, v # queue[1]
            PROVE  (\E i \in DOMAIN queue' : queue'[i] = v) <=> \E i \in DOMAIN queue : queue[i] = v
        <4>1. ASSUME NEW i \in DOMAIN queue, queue[i] = v PROVE \E k \in DOMAIN queue' : queue'[k] = v
          <5>1. i - 1 \in DOMAIN queue' /\ queue'[i - 1] = v
            BY <3>1, <4>1, <2>1, <1>0
          <5> QED
            BY <5>1
        <4> QED
          BY <4>1, <2>1
      <3>2. \A i \in DOMAIN queue' : queue'[i] # queue[1]
        BY <2>1, <1>0 DEF Queued
      <3> QED
        BY <3>1, <3>2, <2>1, <2>2, <1>0 DEF Queued
    <2>4. \A i, j \in DOMAIN queue' : queue'[i] = queue'[j] => i = j
      <3>1. \A i, j \in DOMAIN queue' : queue[i + 1] = queue[j + 1] => i + 1 = j + 1
        BY <2>1, <1>0 DEF Queued
      <3>2. \A i \in DOMAIN queue' : i \in Nat
        BY <2>1, <1>0
      <3> QED
        BY <3>1, <3>2, <2>1
    <2>5. Line'
      BY <2>3, <2>4
    <2>6. op' = op /\ tail' = tail
      BY <1>3, <1>0
    <2> QED
      BY <2>2, <2>5, <2>6, <1>0, <1>a DEF Queued
  <1>4. ASSUME NEW u \in User, NEW s, NEW p, op[u].pc # "saving", Adopt(u, s, p), UNCHANGED tail
        PROVE  Queued'
    <2>1. save[u].phase = "none" /\ u \in Savers /\ u # "tail"
      BY <1>4, <1>0, <1>a DEF Queued
    <2>2. CASE UNCHANGED <<queue, save>> /\ op' = [op EXCEPT ![u].pc = "publishing"]
      BY <2>1, <2>2, <1>0, <1>4 DEF Queued
    <2>3. CASE Call(u, s) /\ op' = [op EXCEPT ![u] = [pc |-> "saving", from |-> NoPath, to |-> p]]
      <3>1. Line'
        BY <2>1, <2>3, <1>1
      <3>2. \A w \in Savers : w # u => save'[w] = save[w]
        BY <2>3, <1>0 DEF Call
      <3>3. op'[u].pc = "saving" /\ \A v \in User : v # u => op'[v] = op[v]
        BY <2>3, <1>0
      <3> QED
        BY <3>1, <3>2, <3>3, <2>1, <1>0, <1>4, <1>a DEF Queued
    <2> QED
      BY <1>4, <2>2, <2>3 DEF Adopt
  <1>5. ASSUME UNCHANGED <<queue, save>>, Len(tail) <= Len(tail'), tail' \in Seq(Readers),
               \A u \in User : op[u].pc = "saving" => op'[u].pc = "saving"
        PROVE  Queued'
    <2>1. tail # << >> => tail' # << >>
      BY <1>5, <1>0
    <2> QED
      BY <2>1, <1>5, <1>0 DEF Queued
  <1>6. ASSUME NEW u \in User, UserSaved(u) \/ UserRefused(u) PROVE Queued'
    <2>1. save[u].phase \in {"ok", "no"} /\ save' = [save EXCEPT ![u] = NoSave] /\ UNCHANGED queue
      BY <1>6 DEF UserSaved, UserRefused
    <2>2. Line'
      BY <2>1, <1>2, <1>a
    <2>3. save'[u].phase = "none" /\ \A w \in Savers : w # u => save'[w] = save[w]
      BY <2>1, <1>0, <1>a DEF NoSave
    <2>4. tail' = tail \/ tail' = Append(tail, u)
      BY <1>6 DEF UserSaved, UserRefused
    <2>5. \A v \in User : v # u => op'[v] = op[v]
      <3>1. \E x : op' = [op EXCEPT ![u] = x]
        BY <1>6 DEF UserSaved, UserRefused
      <3> QED
        BY <3>1, <1>0
    <2>6. tail # << >> => tail' # << >>
      BY <2>4, <1>0, <1>a
    <2> QED
      BY <2>2, <2>3, <2>5, <2>6, <1>0, <1>a DEF Queued
  <1>7. CASE Land \/ SaveFails
    <2>1. PICK x \in {"ok", "no"} : save' = [save EXCEPT ![Head(queue)].phase = x]
      BY <1>7 DEF Land, SaveFails
    <2>2. queue # << >> /\ queue' = Tail(queue) /\ UNCHANGED <<op, tail>>
      BY <1>7 DEF Land, SaveFails
    <2> QED
      BY <2>1, <2>2, <1>3 DEF Queued
  <1>8. CASE TailRun
    <2>1. CASE tail' = Tail(tail) /\ UNCHANGED <<queue, save>>
      BY <2>1, <1>8, <1>0 DEF TailRun, Queued
    <2>2. CASE Call("tail", tabs) /\ UNCHANGED tail
      <3>1. Line'
        BY <2>2, <1>8, <1>1, <1>a DEF TailRun
      <3>2. \A w \in Savers : w # "tail" => save'[w] = save[w]
        BY <2>2, <1>0 DEF Call
      <3>3. op' = op /\ tail # << >>
        BY <1>8 DEF TailRun
      <3> QED
        BY <3>1, <3>2, <3>3, <2>2, <1>0, <1>a DEF Queued
    <2> QED
      BY <1>8, <2>1, <2>2 DEF TailRun
  <1>9. CASE TailAnswered
    <2>1. save["tail"].phase \in {"ok", "no"} /\ save' = [save EXCEPT !["tail"] = NoSave] /\ UNCHANGED <<queue, op>>
      BY <1>9 DEF TailAnswered, store
    <2>2. Line'
      BY <2>1, <1>2, <1>a
    <2>3. save'["tail"].phase = "none" /\ \A w \in Savers : w # "tail" => save'[w] = save[w]
      BY <2>1, <1>0, <1>a DEF NoSave
    <2> QED
      BY <2>1, <2>2, <2>3, <1>0, <1>a DEF Queued
  <1>10. CASE Restart
    <2>1. queue' = << >> /\ \A w \in Savers : save'[w].phase = "none"
      BY <1>10 DEF Restart, NoSave
    <2> QED
      BY <2>1, <1>a DEF Queued
  <1>11. ASSUME NEW u \in User, CloseTab(u) \/ Arrange(u) \/ OpenTab(u) PROVE Queued'
    <2>1. op[u].pc # "saving" /\ UNCHANGED tail
      BY <1>11 DEF CloseTab, Arrange, OpenTab, Starts, Unmoved
    <2>2. \E s, p : Adopt(u, s, p)
      BY <1>11 DEF CloseTab, Arrange, OpenTab
    <2> QED
      BY <2>1, <2>2, <1>4
  <1>12. ASSUME NEW u \in User,
                \/ Select(u) \/ MoveNote(u) \/ TrashNote(u) \/ WriteNote(u) \/ OpenUnread(u) \/ Repaired(u)
                \/ FinishMove(u) \/ FinishWrite(u) \/ NoteUnread(u) \/ Reconciled(u)
         PROVE  Queued'
    <2>1. op[u].pc # "saving" /\ UNCHANGED <<queue, save>>
      BY <1>12 DEF Select, MoveNote, TrashNote, WriteNote, OpenUnread, Repaired, FinishMove, Integrate, FinishWrite, NoteUnread,
        Reconciled, Starts, store
    <2>2. tail' = tail \/ tail' = Append(tail, u)
      BY <1>12 DEF Select, MoveNote, TrashNote, WriteNote, OpenUnread, Repaired, FinishMove, Integrate, FinishWrite, NoteUnread,
        Reconciled, Unmoved
    <2>3. (\E x : op' = [op EXCEPT ![u] = x]) \/ (\E x : op' = [op EXCEPT ![u].pc = x])
      BY <1>12 DEF Select, MoveNote, TrashNote, WriteNote, OpenUnread, Repaired, FinishMove, Integrate, FinishWrite, NoteUnread,
        Reconciled
    <2>4. \A v \in User : v # u => op'[v] = op[v]
      BY <2>3, <1>0
    <2>5. Len(tail) <= Len(tail') /\ tail' \in Seq(Readers)
      <3>1. u \in Readers /\ tail \in Seq(Readers)
        BY <1>0, <1>a
      <3> QED
        BY <2>2, <3>1
    <2> QED
      BY <2>1, <2>4, <2>5, <1>5
  <1>13. ASSUME NEW w \in Readers, Present(w) \/ Refresh(w) PROVE Queued'
    <2>1. snap[w].pc = "taken" /\ UNCHANGED <<queue, save, tail>> /\ (op' = op \/ Ends(w))
      BY <1>13 DEF Present, Refresh, Retry, store
    <2>2. ASSUME NEW u \in User, op[u].pc = "saving" PROVE op'[u].pc = "saving"
      BY <2>1, <2>2, <1>0 DEF Publishes, Ends
    <2> QED
      BY <2>1, <2>2, <1>5, <1>0
  <1>14. ASSUME NEW r \in Passes, Settled(r) PROVE Queued'
    <2>1. UNCHANGED <<queue, save, op>> /\ (tail' = tail \/ tail' = Append(tail, r)) /\ r \in Readers
      BY <1>14 DEF Settled, store, Readers
    <2>2. Append(tail, r) \in Seq(Readers) /\ Len(tail) <= Len(Append(tail, r)) /\ Len(tail) <= Len(tail)
      BY <2>1, <1>0
    <2> QED
      BY <2>1, <2>2, <1>0, <1>5
  <1>15. CASE UNCHANGED <<queue, save, op, tail>>
    BY <1>15, <1>5, <1>0
  <1>16. \/ UNCHANGED <<queue, save, op, tail>> \/ Land \/ SaveFails \/ TailRun \/ TailAnswered \/ Restart
         \/ \E u \in User : \/ CloseTab(u) \/ Arrange(u) \/ OpenTab(u) \/ Select(u) \/ MoveNote(u) \/ TrashNote(u) \/ WriteNote(u)
                            \/ OpenUnread(u) \/ UserSaved(u) \/ UserRefused(u) \/ Repaired(u)
                            \/ FinishMove(u) \/ FinishWrite(u) \/ NoteUnread(u) \/ Reconciled(u)
         \/ \E r \in Passes : Settled(r)
         \/ \E w \in Readers : Present(w) \/ Refresh(w)
    <2> DEFINE Others4 == UNCHANGED <<queue, save, op, tail>>
    <2>1. AcceptChanges \/ AcceptRebuild \/ WakeFires \/ Elapse => Others4
      BY DEF AcceptChanges, AcceptRebuild, Batch, WakeFires, Elapse, store
    <2>2. \A r \in Passes : Consider(r) \/ Look(r) \/ Decide(r) \/ PassSaved(r) => Others4
      BY DEF Consider, Look, Decide, PassSaved, store
    <2>3. \A w \in Readers : Capture(w) => Others4
      BY DEF Capture, store
    <2>4. ExtRemove \/ ExtCreate \/ ExtMove \/ Hold \/ Release => Others4
      BY DEF ExtRemove, ExtCreate, ExtMove, Hold, Release, Outside, store
    <2>5. UNCHANGED vars => Others4
      BY DEF vars
    <2> QED
      BY <2>1, <2>2, <2>3, <2>4, <2>5
      DEF Next, Operations, Continuations, Settling, Publishing, Accepting, Others
  <1> QED
    BY <1>6, <1>7, <1>8, <1>9, <1>10, <1>11, <1>12, <1>13, <1>14, <1>15, <1>16

\* Only an operation that publishes has a snapshot under way.
LEMMA PublishesKept == Sound /\ [Next]_vars => Publishes'
  <1> SUFFICES ASSUME Sound, [Next]_vars PROVE Publishes'
    OBVIOUS
  <1> USE Apart
  <1>0. Queued /\ Publishes /\ op \in [User -> Op] /\ snap \in [Readers -> Snap] /\ save \in [Savers -> Save]
    BY DEF Sound, TypeOK
  <1>a. User \subseteq Savers /\ User \subseteq Readers /\ User \cap Passes = {}
    BY DEF Savers, Readers, Passes
  <1>1. ASSUME NEW u \in User, \A v \in User : v # u => op'[v] = op[v],
               \A v \in User : v # u => (snap'[v].pc # "none" => snap[v].pc # "none"),
               (snap[u].pc = "none" /\ snap'[u].pc = "none") \/ op'[u].pc = "publishing"
        PROVE  Publishes'
    BY <1>0, <1>1 DEF Publishes
  <1>2. ASSUME \A u \in User : op'[u] = op[u], \A u \in User : snap'[u].pc # "none" => snap[u].pc # "none"
        PROVE  Publishes'
    BY <1>0, <1>2 DEF Publishes
  <1>3. ASSUME NEW w \in Readers PROVE \A u \in User : u # w => Wanted({w})[u] = snap[u]
    BY <1>a DEF Wanted
  <1>4. \A u \in User : Stale(snap)[u].pc = snap[u].pc
    BY <1>0, <1>a DEF Stale, Snap
  <1>5. ASSUME NEW u \in User,
               op[u].pc # "publishing",
               \/ UNCHANGED snap
               \/ snap' = Wanted({u}) /\ op'[u].pc = "publishing"
               \/ \A v \in User : snap'[v].pc = snap[v].pc
               \/ op'[u].pc = "publishing" /\ \A v \in User : v # u => snap'[v].pc = snap[v].pc,
               (\E x : op' = [op EXCEPT ![u] = x]) \/ (\E x : op' = [op EXCEPT ![u].pc = x])
        PROVE  Publishes'
    <2>1. snap[u].pc = "none"
      BY <1>5, <1>0 DEF Publishes
    <2>2. \A v \in User : v # u => op'[v] = op[v]
      BY <1>5, <1>0
    <2>3. \A v \in User : v # u => (snap'[v].pc # "none" => snap[v].pc # "none")
      BY <1>5, <1>3, <1>a
    <2>4. (snap[u].pc = "none" /\ snap'[u].pc = "none") \/ op'[u].pc = "publishing"
      BY <2>1, <1>5
    <2> QED
      BY <2>2, <2>3, <2>4, <1>1
  <1>6. ASSUME NEW u \in User,
               \/ Select(u) \/ MoveNote(u) \/ TrashNote(u) \/ WriteNote(u) \/ OpenUnread(u) \/ Repaired(u)
               \/ NoteUnread(u) \/ Reconciled(u)
        PROVE  Publishes'
    <2>1. op[u].pc # "publishing"
      BY <1>6 DEF Select, MoveNote, TrashNote, WriteNote, OpenUnread, Repaired, NoteUnread, Reconciled,
        Starts
    <2>2. (\E x : op' = [op EXCEPT ![u] = x]) \/ (\E x : op' = [op EXCEPT ![u].pc = x])
      BY <1>6 DEF Select, MoveNote, TrashNote, WriteNote, OpenUnread, Repaired, NoteUnread, Reconciled
    <2>3. UNCHANGED snap \/ (snap' = Wanted({u}) /\ op'[u].pc = "publishing")
      BY <1>6, <1>0 DEF Op, Select, MoveNote, TrashNote, WriteNote, OpenUnread, Repaired, NoteUnread,
        Reconciled
    <2> QED
      BY <2>1, <2>2, <2>3, <1>5
  <1>7. ASSUME NEW u \in User, FinishMove(u) \/ FinishWrite(u) PROVE Publishes'
    <2>1. op[u].pc # "publishing" /\ \E x : op' = [op EXCEPT ![u].pc = x]
      BY <1>7 DEF FinishMove, FinishWrite, Integrate
    <2>2. snap' = Stale(snap) \/ (snap' = Stale(Wanted({u})) /\ op'[u].pc = "publishing")
      BY <1>7, <1>0 DEF FinishMove, FinishWrite, Integrate, Op
    <2>3. \A v \in User : v # u => Stale(Wanted({u}))[v].pc = snap[v].pc
      BY <1>3, <1>a, <1>0 DEF Stale, Wanted, Snap
    <2> QED
      BY <2>1, <2>2, <2>3, <1>4, <1>5
  <1>8. ASSUME NEW u \in User, CloseTab(u) \/ Arrange(u) \/ OpenTab(u) PROVE Publishes'
    <2>1. op[u].pc # "publishing" /\ \E s, p : Adopt(u, s, p)
      BY <1>8 DEF CloseTab, Arrange, OpenTab, Starts
    <2>2. (\E x : op' = [op EXCEPT ![u] = x]) \/ (\E x : op' = [op EXCEPT ![u].pc = x])
      BY <2>1 DEF Adopt
    <2>3. UNCHANGED snap \/ (snap' = Wanted({u}) /\ op'[u].pc = "publishing")
      BY <2>1, <1>0 DEF Adopt, Op
    <2> QED
      BY <2>1, <2>2, <2>3, <1>5
  <1>9. ASSUME NEW u \in User, UserSaved(u) \/ UserRefused(u) PROVE Publishes'
    <2>1. op[u].pc = "saving"
      BY <1>9, <1>0 DEF UserSaved, UserRefused, Queued
    <2>2. \E x : op' = [op EXCEPT ![u] = x]
      BY <1>9 DEF UserSaved, UserRefused
    <2>3. UNCHANGED snap \/ (snap' = Wanted({u}) /\ op'[u].pc = "publishing")
      BY <1>9, <1>0 DEF UserSaved, UserRefused, NoOp
    <2> QED
      BY <2>1, <2>2, <2>3, <1>5
  <1>10. ASSUME NEW w \in Readers, Present(w) \/ Refresh(w) PROVE Publishes'
    <2>1. snap[w].pc # "none"
      BY <1>10 DEF Present, Refresh
    <2>2. PICK sn \in {snap, Stale(snap)} : Retry(w, sn) \/ (snap' = [sn EXCEPT ![w] = NoSnap] /\ Ends(w))
      BY <1>10 DEF Present, Refresh
    <2>3. sn \in [Readers -> Snap] /\ \A v \in User : sn[v].pc = snap[v].pc
      BY <1>0, <1>4, Operators
    <2>4. \A v \in User : v # w => snap'[v].pc = snap[v].pc
      BY <2>2, <2>3, <1>a DEF Retry
    <2>5. op' = op \/ (Ends(w) /\ snap'[w].pc = "none")
      BY <2>2, <2>3 DEF Retry, NoSnap
    <2> QED
      BY <2>1, <2>4, <2>5, <1>0 DEF Publishes, Ends
  <1>11. ASSUME NEW r \in Passes, Settled(r) \/ PassSaved(r) PROVE Publishes'
    <2>1. op' = op /\ (snap' = snap \/ snap' = Wanted({r})) /\ r \in Readers /\ r \notin User
      BY <1>11, <1>a DEF Settled, PassSaved, Readers
    <2> QED
      BY <2>1, <1>2, <1>3
  <1>12. CASE AcceptChanges \/ AcceptRebuild
    BY <1>12, <1>2, <1>4 DEF AcceptChanges, AcceptRebuild, Batch
  <1>13. ASSUME NEW w \in Readers, Capture(w) PROVE Publishes'
    <2>1. op' = op /\ snap[w].pc = "wanted" /\ snap' = [snap EXCEPT ![w].pc = "taken", ![w].tabs = tabs, ![w].current = TRUE]
      BY <1>13 DEF Capture
    <2>2. \A v \in User : v # w => snap'[v] = snap[v]
      BY <2>1, <1>0, <1>a
    <2> QED
      BY <2>1, <2>2, <1>2
  <1>14. CASE Restart
    BY <1>14, <1>a DEF Restart, Publishes, NoSnap
  <1>15. CASE UNCHANGED <<op, snap>>
    BY <1>15, <1>2
  <1>16. \/ UNCHANGED <<op, snap>> \/ AcceptChanges \/ AcceptRebuild \/ Restart
         \/ \E u \in User : \/ CloseTab(u) \/ Arrange(u) \/ OpenTab(u) \/ Select(u) \/ MoveNote(u) \/ TrashNote(u) \/ WriteNote(u)
                            \/ OpenUnread(u) \/ UserSaved(u) \/ UserRefused(u) \/ Repaired(u)
                            \/ FinishMove(u) \/ FinishWrite(u) \/ NoteUnread(u) \/ Reconciled(u)
         \/ \E r \in Passes : Settled(r) \/ PassSaved(r)
         \/ \E w \in Readers : Present(w) \/ Refresh(w) \/ Capture(w)
    <2> DEFINE Rest2 == UNCHANGED <<op, snap>>
    <2>1. Land \/ SaveFails \/ TailRun \/ TailAnswered \/ WakeFires \/ Elapse => Rest2
      BY DEF Land, SaveFails, TailRun, TailAnswered, WakeFires, Elapse
    <2>2. \A r \in Passes : Consider(r) \/ Look(r) \/ Decide(r) => Rest2
      BY DEF Consider, Look, Decide
    <2>3. ExtRemove \/ ExtCreate \/ ExtMove \/ Hold \/ Release => Rest2
      BY DEF ExtRemove, ExtCreate, ExtMove, Hold, Release, Outside
    <2>4. UNCHANGED vars => Rest2
      BY DEF vars
    <2> QED
      BY <2>1, <2>2, <2>3, <2>4
      DEF Next, Operations, Continuations, Settling, Publishing, Accepting, Others
  <1> QED
    BY <1>6, <1>7, <1>8, <1>9, <1>10, <1>11, <1>12, <1>13, <1>14, <1>15, <1>16

\* The types and their strengthening hold at the start, and every step keeps
\* them.
LEMMA Soundness == Spec => []Sound
  <1>1. Init => Sound
    <2> SUFFICES ASSUME Init PROVE Sound
      OBVIOUS
    <2> USE Apart
    <2>1. PICK s \in Stories : /\ files = s.files /\ tabs = [open |-> s.tabs, look |-> FALSE]
                               /\ ghost = [owed |-> s.tabs \cap s.files, gone |-> {}, blind |-> FALSE, failed |-> FALSE,
                                            blink |-> FALSE, missed |-> FALSE]
      BY DEF Init
    <2>2. s.files \subseteq Path /\ s.tabs \subseteq Path
      BY Bounds DEF Story
    <2>3. tabs \in Layout /\ ghost \in Ghost /\ files \subseteq Path
      BY <2>1, <2>2 DEF Layout, Ghost
    <2>4. [p \in Path |-> NoAbsence] \in [Path -> Absence] /\ tabs.open \ files \in SUBSET Path
      BY <2>3, Operators DEF Layout
    <2>5. absences \in [Path -> Absence]
      BY <2>4, Operators DEF Init
    <2>6. \A r \in Passes : pass[r] = NoPass /\ NoPass.todo = {} /\ NoPass.at = NoPath /\ NoPass.saw = "none"
      BY DEF Init, NoPass
    <2>7. \A w \in Savers : save[w].phase = "none"
      BY DEF Init, NoSave
    <2>8. \A w \in Readers : snap[w].pc = "none"
      BY DEF Init, NoSnap
    <2>9. /\ pass \in [Passes -> Pass] /\ op \in [User -> Op] /\ snap \in [Readers -> Snap] /\ save \in [Savers -> Save]
      BY Operators DEF Init
    <2>10. TypeOK
      <3>1. wake \in BOOLEAN /\ lock = Free /\ removed = {} /\ held = {} /\ index = files /\ moved = NoMove
        BY DEF Init
      <3>2. persisted = tabs /\ stored = tabs /\ shown = tabs /\ tail = << >> /\ queue = << >>
        BY DEF Init
      <3>3. tail \in Seq(Readers) /\ queue \in Seq(Savers)
        BY <3>2
      <3>4. \A r \in Passes : pass[r].todo \subseteq Missing
        BY <2>6
      <3> QED
        BY <2>3, <2>5, <2>9, <3>1, <3>2, <3>3, <3>4 DEF TypeOK
    <2>11. \A p \in Path : absences[p].tries = 0
      BY <2>4 DEF Init, Recorded, NewAbsence, NoAbsence
    <2>12. Resting /\ Tried /\ Queued /\ Publishes
      <3>1. Resting
        BY <2>6 DEF Resting
      <3>2. Tried
        <4>1. \A p \in Path : Reading(p) \in SUBSET Passes
          BY DEF Reading
        <4> QED
          BY <4>1, <2>11, Counted DEF Tried, MaxAttempts
      <3>3. Queued
        BY <2>7 DEF Queued, Init, Savers
      <3>4. Publishes
        BY <2>8 DEF Publishes, Readers
      <3> QED
        BY <3>1, <3>2, <3>3, <3>4
    <2> QED
      BY <2>10, <2>12 DEF Sound
  <1> QED
    BY <1>1, TypeKept, RestingKept, TriedKept, QueuedKept, PublishesKept, PTL DEF Spec, Sound

\* At any time every variable has its type, a pass has only absences before
\* it that are known (todo), no absence is read more often than
\* maximumAbsenceConfirmationAttempts, and each caller of the store has one
\* call at most, which waits in the queue until it is answered.
THEOREM TypeCorrect == Spec => []TypeOK
  <1>1. Sound => TypeOK
    BY DEF Sound
  <1> QED
    BY <1>1, Soundness, PTL
-----------------------------------------------------------------------------
\* Who compares with a document that has changed meanwhile is refused; who
\* does not is the only one unheard of.
LEMMA ComparedKept == Sound /\ Compared /\ [Next]_vars => Compared'
  <1> SUFFICES ASSUME Sound, Compared, [Next]_vars PROVE Compared'
    OBVIOUS
  <1> USE Apart
  <1>0. Queued /\ queue \in Seq(Savers) /\ save \in [Savers -> Save] /\ ghost \in Ghost
    BY DEF Sound, TypeOK
  <1>a. User \subseteq Savers /\ "tail" \in Savers /\ "tail" \notin User
    BY DEF Savers
  <1>b. \A i \in DOMAIN queue : queue[i] \in Savers /\ save[queue[i]].phase = "queued"
    BY <1>0 DEF Queued
  <1>1. ASSUME NEW w \in Savers, NEW s, Call(w, s), save[w].phase = "none", UNCHANGED <<persisted, stored>>,
               ghost'.blind = ghost.blind
        PROVE  Compared'
    <2>1. /\ save'[w].phase = "queued" /\ save'[w].expected = persisted
          /\ \A v \in Savers : v # w => save'[v] = save[v]
      BY <1>1, <1>0 DEF Call
    <2>2. Answered' = Answered /\ w \notin Answered
      BY <1>1, <2>1 DEF Answered
    <2>n. PICK n \in Nat : n = Len(queue)
      BY <1>0
    <2>3. /\ DOMAIN queue = 1..n /\ DOMAIN queue' = 1..n + 1 /\ queue'[n + 1] = w
          /\ \A i \in DOMAIN queue : queue'[i] = queue[i]
      BY <1>0, <1>1, <2>n DEF Call
    <2>4. Expects(n + 1)' = persisted
      BY <2>1, <2>3 DEF Expects
    <2>5. \A i \in DOMAIN queue : Expects(i)' = Expects(i)
      BY <2>1, <2>3, <1>b, <1>1 DEF Expects
    <2>6. \A i \in DOMAIN queue' : i = n + 1 \/ (i \in DOMAIN queue /\ i < n + 1)
      BY <2>3
    <2>7. ASSUME ~ghost.blind, Answered = {}
          PROVE  persisted' = stored' /\ \A i, j \in DOMAIN queue' : i <= j /\ Expects(i)' = stored' => Expects(j)' = stored'
      <3>1. persisted = stored /\ \A i, j \in DOMAIN queue : i <= j /\ Expects(i) = stored => Expects(j) = stored
        BY <2>7 DEF Compared
      <3>2. ASSUME NEW i \in DOMAIN queue', NEW j \in DOMAIN queue', i <= j, Expects(i)' = stored PROVE Expects(j)' = stored
        <4>1. CASE j = n + 1
          BY <4>1, <2>4, <3>1
        <4>2. CASE j \in DOMAIN queue
          <5>1. i \in DOMAIN queue
            BY <3>2, <4>2, <2>3, <2>6
          <5> QED
            BY <3>1, <3>2, <4>2, <5>1, <2>5
        <4> QED
          BY <4>1, <4>2, <2>6
      <3> QED
        BY <3>1, <3>2, <1>1
    <2>8. ASSUME ~ghost.blind, NEW v \in Answered
          PROVE  /\ Answered = {v} /\ stored' = save'[v].state /\ persisted' # stored'
                 /\ \A i \in DOMAIN queue' : Expects(i)' # stored'
      <3>1. /\ Answered = {v} /\ stored = save[v].state /\ persisted # stored
            /\ \A i \in DOMAIN queue : Expects(i) # stored
        BY <2>8 DEF Compared
      <3>2. save'[v] = save[v]
        BY <2>1, <2>2 DEF Answered
      <3>3. \A i \in DOMAIN queue' : Expects(i)' # stored
        BY <3>1, <2>4, <2>5, <2>6
      <3> QED
        BY <3>1, <3>2, <3>3, <1>1
    <2> QED
      BY <2>2, <2>7, <2>8, <1>1 DEF Compared
  <1>2. ASSUME NEW w \in Savers, save[w].phase \in {"ok", "no"}, save' = [save EXCEPT ![w] = NoSave],
               persisted' = (IF save[w].phase = "ok" THEN save[w].state ELSE persisted),
               UNCHANGED <<queue, stored>>, ghost'.blind = ghost.blind
        PROVE  Compared'
    <2>1. save'[w].phase = "none" /\ \A v \in Savers : v # w => save'[v] = save[v]
      BY <1>2, <1>0 DEF NoSave
    <2>2. \A i \in DOMAIN queue : Expects(i)' = Expects(i)
      BY <2>1, <1>2, <1>b DEF Expects
    <2>3. Answered' = Answered \ {w}
      BY <2>1 DEF Answered
    <2>4. CASE save[w].phase = "ok"
      <3>1. w \in Answered /\ persisted' = save[w].state
        BY <1>2, <2>4 DEF Answered
      <3>2. ~ghost.blind => Answered' = {} /\ persisted' = stored /\ \A i \in DOMAIN queue : Expects(i)' # stored
        BY <3>1, <2>2, <2>3 DEF Compared
      <3> QED
        BY <3>2, <1>2 DEF Compared
    <2>5. CASE save[w].phase = "no"
      <3>1. Answered' = Answered /\ persisted' = persisted /\ \A v \in Answered : save'[v] = save[v]
        BY <1>2, <2>1, <2>3, <2>5 DEF Answered
      <3> QED
        BY <3>1, <2>2, <1>2 DEF Compared
    <2> QED
      BY <1>2, <2>4, <2>5
  <1>3. CASE Land
    <2> DEFINE w == queue[1]
    <2>1. /\ DOMAIN queue = 1..Len(queue) /\ Len(queue) \in Nat /\ 1 \in DOMAIN queue /\ Head(queue) = w
          /\ DOMAIN queue' = 1..Len(queue) - 1
          /\ \A i \in DOMAIN queue' : queue'[i] = queue[i + 1] /\ i + 1 \in DOMAIN queue /\ 1 <= i + 1 /\ i + 1 # 1
      BY <1>3, <1>0 DEF Land
    <2> DEFINE agrees == stored = save[w].expected
    <2>2. /\ stored' = (IF agrees THEN save[w].state ELSE stored)
          /\ save' = [save EXCEPT ![w].phase = IF agrees THEN "ok" ELSE "no"]
          /\ ghost' = [ghost EXCEPT !.blind = @ \/ save[w].state = stored]
          /\ persisted' = persisted
      BY <1>3, <2>1 DEF Land
    <2>3. SUFFICES ASSUME ~ghost'.blind
                   PROVE  /\ Answered' = {} =>
                               /\ persisted' = stored'
                               /\ \A i, j \in DOMAIN queue' : i <= j /\ Expects(i)' = stored' => Expects(j)' = stored'
                          /\ \A v \in Answered' :
                               /\ Answered' = {v} /\ stored' = save'[v].state /\ persisted' # stored'
                               /\ \A i \in DOMAIN queue' : Expects(i)' # stored'
      BY DEF Compared
    <2>4. ~ghost.blind /\ save[w].state # stored
      BY <2>2, <2>3, <1>0 DEF Ghost
    <2> HIDE DEF agrees
    <2>5. /\ w \in Savers /\ save[w].phase = "queued" /\ save'[w].phase = (IF agrees THEN "ok" ELSE "no")
          /\ save'[w].state = save[w].state /\ \A v \in Savers : v # w => save'[v] = save[v]
      BY <1>0, <1>b, <2>1, <2>2 DEF Save
    <2>6. \A i \in DOMAIN queue' : queue'[i] \in Savers /\ queue'[i] # w
      BY <2>1, <1>b, <1>0 DEF Queued
    <2>7. \A i \in DOMAIN queue' : Expects(i)' = Expects(i + 1)
      BY <2>1, <2>5, <2>6 DEF Expects
    <2>8. CASE agrees
      <3>1. Expects(1) = stored
        BY <2>8 DEF agrees, Expects
      <3>2. Answered = {}
        BY <3>1, <2>1, <2>4 DEF Compared
      <3>3. persisted = stored /\ \A j \in DOMAIN queue : 1 <= j => Expects(j) = stored
        BY <3>1, <3>2, <2>1, <2>4 DEF Compared
      <3>4. Answered' = {w}
        BY <3>2, <2>5, <2>8 DEF Answered
      <3>5. \A i \in DOMAIN queue' : Expects(i)' = stored
        BY <3>3, <2>1, <2>7
      <3>6. stored' = save'[w].state /\ stored' # stored
        BY <2>2, <2>4, <2>5, <2>8
      <3> HIDE DEF w
      <3> QED
        BY <3>3, <3>4, <3>5, <3>6, <2>2
    <2>9. CASE ~agrees
      <3>1. stored' = stored /\ Answered' = Answered /\ \A v \in Answered : save'[v] = save[v]
        BY <2>2, <2>5, <2>9 DEF Answered
      <3>2. ASSUME Answered = {}, NEW i \in DOMAIN queue', NEW j \in DOMAIN queue', i <= j, Expects(i)' = stored
            PROVE  Expects(j)' = stored
        <4>1. i + 1 \in DOMAIN queue /\ j + 1 \in DOMAIN queue /\ i + 1 <= j + 1
          BY <3>2, <2>1
        <4>2. Expects(i + 1) = stored
          BY <3>2, <2>7
        <4> QED
          BY <3>2, <4>1, <4>2, <2>4, <2>7 DEF Compared
      <3>3. ASSUME NEW v \in Answered
            PROVE  /\ Answered = {v} /\ stored = save[v].state /\ persisted # stored
                   /\ \A i \in DOMAIN queue' : Expects(i)' # stored
        BY <3>3, <2>1, <2>4, <2>7 DEF Compared
      <3>4. Answered = {} => persisted = stored
        BY <2>4 DEF Compared
      <3> QED
        BY <3>1, <3>2, <3>3, <3>4, <2>2
    <2> QED
      BY <2>8, <2>9
  <1>4. CASE SaveFails
    <2> DEFINE w == queue[1]
    <2>1. /\ DOMAIN queue = 1..Len(queue) /\ Len(queue) \in Nat /\ 1 \in DOMAIN queue /\ Head(queue) = w
          /\ DOMAIN queue' = 1..Len(queue) - 1
          /\ \A i \in DOMAIN queue' : queue'[i] = queue[i + 1] /\ i + 1 \in DOMAIN queue
      BY <1>4, <1>0 DEF SaveFails
    <2>2. save' = [save EXCEPT ![w].phase = "no"] /\ UNCHANGED <<stored, persisted>> /\ ghost'.blind = ghost.blind
      BY <1>4, <1>0, <2>1 DEF SaveFails, Ghost
    <2>3. /\ w \in Savers /\ save[w].phase = "queued" /\ save'[w].phase = "no"
          /\ \A v \in Savers : v # w => save'[v] = save[v]
      BY <1>0, <1>b, <2>1, <2>2 DEF Save
    <2>4. \A i \in DOMAIN queue' : queue'[i] \in Savers /\ queue'[i] # w
      BY <2>1, <1>b, <1>0 DEF Queued
    <2>5. \A i \in DOMAIN queue' : Expects(i)' = Expects(i + 1)
      BY <2>1, <2>3, <2>4 DEF Expects
    <2>6. Answered' = Answered /\ \A v \in Answered : save'[v] = save[v]
      BY <2>3 DEF Answered
    <2>7. ASSUME ~ghost.blind, Answered = {}, NEW i \in DOMAIN queue', NEW j \in DOMAIN queue', i <= j,
                 Expects(i)' = stored
          PROVE  Expects(j)' = stored
      <3>1. i + 1 \in DOMAIN queue /\ j + 1 \in DOMAIN queue /\ i + 1 <= j + 1
        BY <2>7, <2>1
      <3>2. Expects(i + 1) = stored
        BY <2>7, <2>5
      <3> QED
        BY <2>7, <3>1, <3>2, <2>5 DEF Compared
    <2>8. ASSUME ~ghost.blind, NEW v \in Answered
          PROVE  /\ Answered = {v} /\ stored = save[v].state /\ persisted # stored
                 /\ \A i \in DOMAIN queue' : Expects(i)' # stored
      BY <2>8, <2>1, <2>5 DEF Compared
    <2>9. ~ghost.blind /\ Answered = {} => persisted = stored
      BY DEF Compared
    <2> QED
      BY <2>2, <2>6, <2>7, <2>8, <2>9 DEF Compared
  <1>5. CASE TailRun
    <2>1. CASE UNCHANGED <<queue, save>>
      BY <2>1, <1>5 DEF TailRun, Compared, Answered, Expects, rest
    <2>2. CASE Call("tail", tabs)
      BY <2>2, <1>5, <1>1, <1>a DEF TailRun, rest
    <2> QED
      BY <2>1, <2>2, <1>5 DEF TailRun
  <1>6. CASE TailAnswered
    <2>1. /\ save["tail"].phase \in {"ok", "no"} /\ save' = [save EXCEPT !["tail"] = NoSave]
          /\ persisted' = (IF save["tail"].phase = "ok" THEN save["tail"].state ELSE persisted)
          /\ UNCHANGED <<queue, stored, ghost>>
      BY <1>6 DEF TailAnswered, rest
    <2> QED
      BY <2>1, <1>2, <1>a
  <1>7. ASSUME NEW u \in User, UserSaved(u) \/ UserRefused(u) PROVE Compared'
    <2>1. /\ save[u].phase \in {"ok", "no"} /\ save' = [save EXCEPT ![u] = NoSave]
          /\ persisted' = (IF save[u].phase = "ok" THEN save[u].state ELSE persisted)
          /\ UNCHANGED <<queue, stored>>
      BY <1>7 DEF UserSaved, UserRefused
    <2>2. ghost'.blind = ghost.blind
      BY <1>7, <1>0 DEF UserSaved, UserRefused, Ghost
    <2> QED
      BY <2>1, <2>2, <1>2, <1>a
  <1>8. ASSUME NEW u \in User, CloseTab(u) \/ Arrange(u) \/ OpenTab(u) PROVE Compared'
    <2>1. save[u].phase = "none" /\ UNCHANGED <<persisted, stored>>
      BY <1>8, <1>0 DEF CloseTab, Arrange, OpenTab, Starts, Unmoved, Queued
    <2>2. ghost'.blind = ghost.blind
      BY <1>8, <1>0 DEF CloseTab, Arrange, OpenTab, Keep, rest, Ghost
    <2>3. \E s, p : Adopt(u, s, p)
      BY <1>8 DEF CloseTab, Arrange, OpenTab
    <2>4. UNCHANGED <<queue, save>> \/ \E s : Call(u, s)
      BY <2>3 DEF Adopt
    <2>5. CASE UNCHANGED <<queue, save>>
      BY <2>1, <2>2, <2>5 DEF Compared, Answered, Expects
    <2> QED
      BY <2>1, <2>2, <2>4, <2>5, <1>1, <1>a
  <1>9. CASE Restart
    <2>1. persisted' = stored' /\ queue' = << >> /\ \A w \in Savers : save'[w].phase = "none"
      BY <1>9 DEF Restart, NoSave
    <2> QED
      BY <2>1 DEF Compared, Answered
  <1>10. CASE UNCHANGED <<queue, save, persisted, stored>> /\ ghost'.blind = ghost.blind
    BY <1>10 DEF Compared, Answered, Expects
  <1>11. ASSUME NEW u \in User,
                \/ Select(u) \/ MoveNote(u) \/ TrashNote(u) \/ WriteNote(u) \/ OpenUnread(u) \/ Repaired(u)
                \/ FinishMove(u) \/ FinishWrite(u) \/ NoteUnread(u) \/ Reconciled(u)
         PROVE  Compared'
    <2>1. UNCHANGED store
      BY <1>11 DEF Select, MoveNote, TrashNote, WriteNote, OpenUnread, Repaired, FinishMove, Integrate, FinishWrite, NoteUnread,
        Reconciled,
        Unmoved, store
    <2>2. ghost'.blind = ghost.blind
      BY <1>11, <1>0 DEF Select, MoveNote, TrashNote, WriteNote, OpenUnread, Repaired, FinishMove, FinishWrite,
        NoteUnread, Reconciled, Renames, Keep, Follow, Owing, rest, Ghost
    <2> QED
      BY <2>1, <2>2, <1>10 DEF store
  <1>12. ASSUME NEW w \in Readers, Present(w) \/ Refresh(w) \/ Capture(w) PROVE Compared'
    <2>1. UNCHANGED store
      BY <1>12 DEF Present, Refresh, Capture, store
    <2>2. ghost'.blind = ghost.blind
      BY <1>12, <1>0 DEF Present, Refresh, Capture, Retry, rest, Ghost
    <2> QED
      BY <2>1, <2>2, <1>10 DEF store
  <1>13. ASSUME NEW r \in Passes, Consider(r) \/ Look(r) \/ Decide(r) \/ Settled(r) \/ PassSaved(r) PROVE Compared'
    <2>1. UNCHANGED store
      BY <1>13 DEF Consider, Look, Decide, Settled, PassSaved, store
    <2>2. ghost'.blind = ghost.blind
      BY <1>13, <1>0 DEF Consider, Look, Decide, Settled, PassSaved, rest, Ghost
    <2> QED
      BY <2>1, <2>2, <1>10 DEF store
  <1>14. CASE AcceptChanges \/ AcceptRebuild \/ WakeFires \/ Elapse
    <2>1. UNCHANGED store
      BY <1>14 DEF AcceptChanges, AcceptRebuild, Batch, WakeFires, Elapse, store
    <2>2. ghost'.blind = ghost.blind
      BY <1>14, <1>0 DEF AcceptChanges, AcceptRebuild, WakeFires, Elapse, Follow, Owing, rest, Ghost
    <2> QED
      BY <2>1, <2>2, <1>10 DEF store
  <1>15. CASE ExtRemove \/ ExtCreate \/ ExtMove \/ Hold \/ Release
    <2>1. UNCHANGED store
      BY <1>15 DEF ExtRemove, ExtCreate, ExtMove, Hold, Release, Outside, store
    <2>2. ghost'.blind = ghost.blind
      BY <1>15, <1>0 DEF ExtRemove, ExtCreate, ExtMove, Hold, Release, Renames, Keep, Ghost
    <2> QED
      BY <2>1, <2>2, <1>10 DEF store
  <1>16. CASE UNCHANGED vars
    BY <1>16, <1>10 DEF vars
  <1> QED
    BY <1>3, <1>4, <1>5, <1>6, <1>7, <1>8, <1>9, <1>11, <1>12, <1>13, <1>14, <1>15, <1>16
    DEF Next, Operations, Continuations, Settling, Publishing, Accepting, Others

\* No change of the layout is forgotten: it is in the document, or somebody
\* will still save it.
LEMMA PromisedKept == Sound /\ Compared /\ Promised /\ [Next]_vars => Promised'
  <1> SUFFICES ASSUME Sound, Compared, Promised, [Next]_vars PROVE Promised'
    OBVIOUS
  <1> USE Apart
  <1>0. /\ Resting /\ Queued /\ queue \in Seq(Savers) /\ save \in [Savers -> Save] /\ ghost \in Ghost
        /\ tail \in Seq(Readers) /\ pass \in [Passes -> Pass] /\ tabs \in Layout
    BY DEF Sound, TypeOK
  <1>a. User \subseteq Savers /\ "tail" \in Savers /\ "tail" \notin User /\ User \subseteq Readers /\ Passes \subseteq Readers
    BY DEF Savers, Readers
  <1>b. \A i \in DOMAIN queue : queue[i] \in Savers /\ save[queue[i]].phase = "queued"
    BY <1>0 DEF Queued
  <1> DEFINE Changed(r) == pass[r].pc = "running" /\ pass[r].changed
  <1>1. ASSUME NEW w \in Readers, tail' = Append(tail, w), save'["tail"] = save["tail"] PROVE Promised'
    <2>1. Len(tail') = Len(tail) + 1 /\ Len(tail) \in Nat
      BY <1>1, <1>0
    <2>2. save["tail"].phase # "none" => Len(tail) # 0
      BY <1>0 DEF Queued
    <2>3. Len(tail') > (IF save'["tail"].phase = "none" THEN 0 ELSE 1)
      BY <2>1, <2>2, <1>1
    <2> QED
      BY <2>3 DEF Promised, Due
  \* A step that keeps what is due, and what the tail's call will do.
  <1>2. ASSUME ghost'.blind = ghost.blind /\ ghost'.failed = ghost.failed, UNCHANGED <<tabs, persisted, stored, tail>>,
               save'["tail"] = save["tail"], Answered' = Answered,
               \A u \in User : save[u].phase = "ok" => save'[u].phase = "ok",
               \A r \in Passes : Changed(r) => Changed(r)'
        PROVE  Promised'
    <2>1. Due => Due'
      BY <1>2 DEF Due
    <2>2. Lands' <=> Lands
      BY <1>2 DEF Lands
    <2> QED
      BY <2>1, <2>2, <1>2 DEF Promised
  <1>3. ASSUME UNCHANGED <<tabs, store, tail>>, ghost'.blind = ghost.blind /\ ghost'.failed = ghost.failed,
               \A r \in Passes : Changed(r) => Changed(r)'
        PROVE  Promised'
    <2>1. Answered' = Answered
      BY <1>3 DEF Answered, store
    <2> QED
      BY <2>1, <1>2, <1>3 DEF store
  <1>4. ASSUME NEW u \in User, CloseTab(u) \/ Arrange(u) \/ OpenTab(u) PROVE Promised'
    <2>1. save[u].phase = "none" /\ u # "tail" /\ UNCHANGED <<tabs, persisted, stored, tail, pass>>
      BY <1>4, <1>0, <1>a DEF CloseTab, Arrange, OpenTab, Starts, Unmoved, Queued
    <2>2. ghost'.blind = ghost.blind /\ ghost'.failed = ghost.failed
      BY <1>4, <1>0 DEF CloseTab, Arrange, OpenTab, Keep, rest, Ghost
    <2>3. \E s, p : Adopt(u, s, p)
      BY <1>4 DEF CloseTab, Arrange, OpenTab
    <2>4. save' = save \/ \E d : d.phase = "queued" /\ save' = [save EXCEPT ![u] = d]
      BY <2>3 DEF Adopt, Call
    <2>5. Answered' = Answered /\ \A w \in Savers : w # u => save'[w] = save[w]
      BY <2>1, <2>4, <1>0, <1>a DEF Answered
    <2>6. \A v \in User : save[v].phase = "ok" => save'[v].phase = "ok"
      BY <2>1, <2>5, <1>a
    <2> QED
      BY <2>1, <2>2, <2>5, <2>6, <1>2, <1>a
  <1>5. ASSUME NEW u \in User, UserSaved(u) PROVE Promised'
    <2> DEFINE s == Scrub(save[u].state)
    <2>1. /\ save[u].phase = "ok" /\ save' = [save EXCEPT ![u] = NoSave] /\ tabs' = s
          /\ persisted' = save[u].state /\ UNCHANGED <<stored, queue>>
          /\ s = save[u].state \/ tail' = Append(tail, u)
      BY <1>5 DEF UserSaved
    <2>2. ghost'.blind = ghost.blind /\ ghost'.failed = ghost.failed
      BY <1>5, <1>0 DEF UserSaved, Ghost
    <2>3. save'["tail"] = save["tail"] /\ u \in Answered
      BY <2>1, <1>0, <1>a DEF Answered
    <2>4. CASE tail' = Append(tail, u)
      BY <2>3, <2>4, <1>1, <1>a
    <2>5. CASE s = save[u].state
      <3>1. ASSUME ~ghost.blind PROVE ~Lands'
        <4>1. Answered = {u} /\ \A i \in DOMAIN queue : Expects(i) # stored
          BY <3>1, <2>3 DEF Compared
        <4>2. save["tail"].phase # "ok"
          BY <4>1, <1>a DEF Answered
        <4>3. save["tail"].phase = "queued" => save["tail"].expected # stored
          BY <4>1, <1>0, <1>a DEF Queued, Expects
        <4> QED
          BY <4>2, <4>3, <2>1, <2>3 DEF Lands
      <3> HIDE DEF s
      <3> QED
        BY <3>1, <2>1, <2>2, <2>5 DEF Promised
    <2> QED
      BY <2>1, <2>4, <2>5
  <1>6. ASSUME NEW u \in User, UserRefused(u) PROVE Promised'
    <2>1. /\ save[u].phase = "no" /\ save' = [save EXCEPT ![u] = NoSave] /\ UNCHANGED <<stored, persisted, pass>>
          /\ UNCHANGED <<tabs, tail, ghost>> \/ tail' = Append(tail, u)
      BY <1>6 DEF UserRefused
    <2>2. save'[u].phase = "none" /\ \A w \in Savers : w # u => save'[w] = save[w]
      BY <2>1, <1>0, <1>a DEF NoSave
    <2>3. save'["tail"] = save["tail"]
      BY <2>2, <1>a
    <2>4. Answered' = Answered /\ \A v \in User : save[v].phase = "ok" => save'[v].phase = "ok"
      BY <2>1, <2>2, <1>a DEF Answered
    <2>5. CASE tail' = Append(tail, u)
      BY <2>3, <2>5, <1>1, <1>a
    <2>6. CASE UNCHANGED <<tabs, tail, ghost>>
      BY <2>1, <2>3, <2>4, <2>6, <1>2
    <2> QED
      BY <2>1, <2>5, <2>6
  <1>7. ASSUME NEW u \in User, FinishMove(u) \/ FinishWrite(u) PROVE Promised'
    <2>1. (UNCHANGED pass /\ tabs' = tabs /\ tail' = tail) \/ tail' = Append(tail, u)
      BY <1>7 DEF FinishMove, FinishWrite, Integrate
    <2>2. UNCHANGED store
      BY <1>7 DEF FinishMove, FinishWrite
    <2>3. ghost'.blind = ghost.blind /\ ghost'.failed = ghost.failed
      BY <1>7, <1>0 DEF FinishMove, FinishWrite, Follow, Owing, Ghost
    <2>4. CASE tail' = Append(tail, u)
      BY <2>2, <2>4, <1>1, <1>a DEF store
    <2> QED
      BY <2>1, <2>2, <2>3, <2>4, <1>3
  <1>8. CASE SaveFails
    BY <1>8, <1>0 DEF SaveFails, Promised, Ghost
  <1>9. CASE TailRun
    <2>1. save["tail"].phase = "none" /\ UNCHANGED <<persisted, stored, tabs, pass, ghost>>
      BY <1>9 DEF TailRun, rest
    <2>2. CASE persisted = tabs /\ UNCHANGED save
      BY <2>1, <2>2 DEF Promised, Lands
    <2>3. CASE Call("tail", tabs) /\ UNCHANGED tail
      <3>1. /\ save'["tail"].phase = "queued" /\ save'["tail"].state = tabs /\ save'["tail"].expected = persisted
            /\ \A w \in Savers : w # "tail" => save'[w] = save[w]
        BY <2>3, <1>0, <1>a DEF Call
      <3>2. CASE Answered = {}
        <4>1. Answered' = {}
          BY <3>1, <3>2 DEF Answered
        <4>2. ~ghost.blind => persisted = stored
          BY <3>2 DEF Compared
        <4> QED
          BY <3>1, <4>1, <4>2, <2>1 DEF Promised, Lands
      <3>3. CASE Answered # {}
        <4>1. PICK w \in Savers : save[w].phase = "ok"
          BY <3>3 DEF Answered
        <4>2. w \in User /\ save'[w].phase = "ok"
          BY <4>1, <3>1, <2>1 DEF Savers
        <4> QED
          BY <4>2 DEF Promised, Due
      <3> QED
        BY <3>2, <3>3
    <2> QED
      BY <1>9, <2>2, <2>3 DEF TailRun
  <1>10. CASE TailAnswered
    <2>1. /\ save["tail"].phase \in {"ok", "no"} /\ save' = [save EXCEPT !["tail"] = NoSave] /\ tail' = Tail(tail)
          /\ persisted' = (IF save["tail"].phase = "ok" THEN save["tail"].state ELSE persisted)
          /\ UNCHANGED <<stored, tabs, pass, ghost>>
      BY <1>10 DEF TailAnswered, rest
    <2>2. save'["tail"].phase = "none" /\ \A u \in User : save'[u] = save[u]
      BY <2>1, <1>0, <1>a DEF NoSave
    <2>3. Due => Due'
      <3>1. Len(tail) > 1 => Len(tail') > 0
        BY <2>1, <1>0
      <3> QED
        BY <3>1, <2>1, <2>2 DEF Due
    <2>4. ~Lands' /\ (Lands <=> save["tail"].phase = "ok")
      BY <2>1, <2>2 DEF Lands
    <2> QED
      BY <2>1, <2>3, <2>4 DEF Promised
  <1>11. CASE Land
    <2> DEFINE w == queue[1]
               agrees == stored = save[w].expected
    <2>1. 1 \in DOMAIN queue /\ Head(queue) = w
      BY <1>11, <1>0 DEF Land
    <2>2. /\ stored' = (IF agrees THEN save[w].state ELSE stored)
          /\ save' = [save EXCEPT ![w].phase = IF agrees THEN "ok" ELSE "no"]
          /\ ghost' = [ghost EXCEPT !.blind = @ \/ save[w].state = stored]
          /\ UNCHANGED <<persisted, tabs, tail, pass>>
      BY <1>11, <2>1 DEF Land
    <2>3. SUFFICES ASSUME ~ghost'.blind, ~ghost'.failed PROVE Promised'
      BY DEF Promised
    <2>4. ~ghost.blind /\ ~ghost.failed
      BY <2>2, <2>3, <1>0 DEF Ghost
    <2>5. /\ w \in Savers /\ save[w].phase = "queued" /\ save'[w].phase = (IF agrees THEN "ok" ELSE "no")
          /\ save'[w].state = save[w].state /\ \A v \in Savers : v # w => save'[v] = save[v]
      <3> HIDE DEF agrees
      <3> QED
        BY <1>0, <1>b, <2>1, <2>2 DEF Save
    <2>6. CASE w # "tail" /\ agrees
      <3>1. w \in User /\ save'[w].phase = "ok"
        BY <2>5, <2>6 DEF Savers
      <3>2. \E u \in User : save'[u].phase = "ok"
        BY <3>1
      <3> QED
        BY <3>2 DEF Promised, Due
    <2>7. CASE ~agrees
      <3>1. stored' = stored /\ Answered' = Answered
        BY <2>2, <2>5, <2>7 DEF Answered
      <3>2. Due => Due'
        BY <2>2, <2>5, <1>a DEF Due
      <3>3. Lands' <=> Lands
        BY <3>1, <2>5, <2>7, <1>a DEF Lands
      <3>4. save'["tail"].state = save["tail"].state
        BY <2>5, <1>a
      <3> QED
        BY <3>2, <3>3, <3>4, <2>2, <2>4 DEF Promised
    <2>8. CASE w = "tail" /\ agrees
      <3>1. Expects(1) = stored
        BY <2>8 DEF Expects
      <3>2. Answered = {}
        BY <3>1, <2>1, <2>4 DEF Compared
      <3>3. Lands /\ Lands' /\ save'["tail"].state = save["tail"].state
        BY <3>2, <2>5, <2>8 DEF Lands
      <3>4. \A u \in User : save[u].phase # "ok"
        BY <3>2, <1>a DEF Answered
      <3>5. Due => Due'
        BY <3>4, <2>2, <2>5, <2>8 DEF Due
      <3> QED
        BY <3>3, <3>5, <2>2, <2>4 DEF Promised
    <2> QED
      BY <2>6, <2>7, <2>8
  <1>12. CASE AcceptChanges
    <2>1. UNCHANGED <<store, tail>> /\ pass["batch"].pc = "idle" /\ pass' = Start("batch", absences', tabs' # tabs)
      BY <1>12 DEF AcceptChanges, Batch
    <2>2. ghost'.blind = ghost.blind /\ ghost'.failed = ghost.failed
      BY <1>12, <1>0 DEF AcceptChanges, Follow, Owing, Ghost
    <2>3. /\ pass'["batch"].pc = "running" /\ pass'["batch"].changed <=> tabs' # tabs
          /\ \A r \in Passes : r # "batch" => pass'[r] = pass[r]
      BY <2>1, <1>0 DEF Start, NoPass, Passes
    <2>4. CASE tabs' # tabs
      BY <2>3, <2>4 DEF Promised, Due, Passes
    <2>5. CASE tabs' = tabs
      BY <2>1, <2>2, <2>3, <2>5, <1>3
    <2> QED
      BY <2>4, <2>5
  <1>13. CASE AcceptRebuild \/ WakeFires
    <2>1. UNCHANGED <<tabs, store, tail, ghost>>
      BY <1>13 DEF AcceptRebuild, WakeFires, Batch, rest
    <2>2. PICK r \in Passes : pass[r].pc = "idle" /\ pass' = Start(r, absences, FALSE)
      BY <1>13, TimerStarts DEF AcceptRebuild, Batch, Passes
    <2>3. \A q \in Passes : q # r => pass'[q] = pass[q]
      BY <2>2, <1>0 DEF Start
    <2> QED
      BY <2>1, <2>2, <2>3, <1>3
  <1>14. ASSUME NEW r \in Passes, Consider(r) PROVE Promised'
    <2>1. UNCHANGED <<tabs, store, tail, ghost>>
      BY <1>14 DEF Consider, rest
    <2>2. \A q \in Passes : pass'[q].pc = pass[q].pc /\ pass'[q].changed = pass[q].changed
      BY <1>14, PassSteps DEF Sound, Considered
    <2> QED
      BY <2>1, <2>2, <1>3
  <1>15. ASSUME NEW r \in Passes, Decide(r) PROVE Promised'
    <2>1. UNCHANGED <<store, tail>>
      BY <1>15 DEF Decide
    <2>2. ghost'.blind = ghost.blind /\ ghost'.failed = ghost.failed
      BY <1>15, <1>0 DEF Decide, Ghost
    <2>3. Decided(r)
      BY <1>15, PassSteps DEF Sound
    <2>4. pass'[r].pc = "running" /\ \A q \in Passes : pass'[q].pc = pass[q].pc
      BY <2>3 DEF Decided
    <2>5. \A q \in Passes : q # r => pass'[q].changed = pass[q].changed
      BY <2>3 DEF Decided
    <2>6. CASE pass'[r].changed = pass[r].changed /\ tabs' = tabs
      BY <2>1, <2>2, <2>4, <2>5, <2>6, <1>3
    <2>7. CASE /\ pass'[r].changed <=> (pass[r].changed \/ pass[r].at \in tabs.open)
               /\ tabs' = Without(tabs, {pass[r].at})
      <3>1. CASE pass[r].at \in tabs.open
        BY <2>4, <2>7, <3>1 DEF Promised, Due
      <3>2. CASE pass[r].at \notin tabs.open
        <4>1. tabs' = tabs
          BY <2>7, <3>2, <1>0 DEF Without, Layout
        <4>2. \A q \in Passes : Changed(q) => Changed(q)'
          BY <2>4, <2>5, <2>7
        <4> QED
          BY <4>1, <4>2, <2>1, <2>2, <1>3
      <3> QED
        BY <3>1, <3>2
    <2> QED
      BY <2>3, <2>6, <2>7 DEF Decided
  <1>16. ASSUME NEW r \in Passes, Settled(r) PROVE Promised'
    <2>1. UNCHANGED <<tabs, store, ghost>> /\ pass[r].pc = "running"
      BY <1>16 DEF Settled, rest
    <2>2. CASE pass[r].changed
      <3>1. tail' = Append(tail, r)
        BY <1>16, <2>2 DEF Settled
      <3> QED
        BY <3>1, <2>1, <1>1, <1>a DEF store
    <2>3. CASE ~pass[r].changed
      <3>1. UNCHANGED tail /\ pass' = [pass EXCEPT ![r] = NoPass]
        BY <1>16, <2>3 DEF Settled
      <3>2. \A q \in Passes : q # r => pass'[q] = pass[q]
        BY <3>1, <1>0
      <3> QED
        BY <3>1, <3>2, <2>1, <2>3, <1>3
    <2> QED
      BY <2>2, <2>3
  <1>17. ASSUME NEW r \in Passes, PassSaved(r) \/ Look(r) PROVE Promised'
    <2>1. UNCHANGED <<tabs, store, tail>>
      BY <1>17 DEF PassSaved, Look
    <2>2. ghost' = ghost
      BY <1>17 DEF PassSaved, Look, rest
    <2>3. CASE pass[r].pc = "saving" /\ pass' = [pass EXCEPT ![r] = NoPass]
      <3>1. \A q \in Passes : q # r => pass'[q] = pass[q]
        BY <2>3, <1>0
      <3> QED
        BY <3>1, <2>1, <2>2, <2>3, <1>3
    <2>4. CASE \E x : pass' = [pass EXCEPT ![r].saw = x]
      <3>1. \A q \in Passes : pass'[q].pc = pass[q].pc /\ pass'[q].changed = pass[q].changed
        BY <2>4, <1>0 DEF Pass
      <3> QED
        BY <3>1, <2>1, <2>2, <1>3
    <2> QED
      BY <1>17, <2>3, <2>4 DEF PassSaved, Look
  <1>18. ASSUME NEW w \in Readers, Capture(w) PROVE Promised'
    <2>1. UNCHANGED <<tabs, store, tail, ghost>>
      BY <1>18 DEF Capture, rest
    <2>2. \A q \in Passes : pass'[q] = Outdated(tabs.open \cap index, pass[q])
      BY <1>18 DEF Capture
    <2>3. tabs.open \cap index \in SUBSET Path
      BY <1>0 DEF Layout
    <2>4. \A q \in Passes : pass'[q].pc = pass[q].pc /\ pass'[q].changed = pass[q].changed
      BY <2>2, <2>3, <1>0, Operators
    <2> QED
      BY <2>1, <2>4, <1>3
  <1>19. CASE Restart
    <2>1. tabs' = persisted' /\ \A w \in Savers : save'[w].phase = "none"
      BY <1>19 DEF Restart, NoSave
    <2> QED
      BY <2>1, <1>a DEF Promised, Lands
  <1>20. ASSUME NEW u \in User,
                \/ Select(u) \/ MoveNote(u) \/ TrashNote(u) \/ WriteNote(u) \/ OpenUnread(u) \/ Repaired(u)
                \/ NoteUnread(u) \/ Reconciled(u)
         PROVE  Promised'
    <2>1. UNCHANGED <<tabs, store, tail, pass>>
      BY <1>20 DEF Select, MoveNote, TrashNote, WriteNote, OpenUnread, Repaired, NoteUnread, Reconciled,
        Unmoved, store
    <2>2. ghost'.blind = ghost.blind /\ ghost'.failed = ghost.failed
      BY <1>20, <1>0 DEF Select, MoveNote, TrashNote, WriteNote, OpenUnread, Repaired, NoteUnread,
        Reconciled,
        Renames, Keep, rest, Ghost
    <2> QED
      BY <2>1, <2>2, <1>3
  <1>21. ASSUME NEW w \in Readers, Present(w) \/ Refresh(w) PROVE Promised'
    <2>1. UNCHANGED <<tabs, store, tail, pass>>
      BY <1>21 DEF Present, Refresh
    <2>2. ghost'.blind = ghost.blind /\ ghost'.failed = ghost.failed
      BY <1>21, <1>0 DEF Present, Refresh, Retry, Ghost
    <2> QED
      BY <2>1, <2>2, <1>3
  <1>22. CASE ExtRemove \/ ExtCreate \/ ExtMove \/ Hold \/ Release \/ Elapse
    <2>1. UNCHANGED <<tabs, store, tail, pass>>
      BY <1>22 DEF ExtRemove, ExtCreate, ExtMove, Hold, Release, Outside, Elapse
    <2>2. ghost'.blind = ghost.blind /\ ghost'.failed = ghost.failed
      BY <1>22, <1>0 DEF ExtRemove, ExtCreate, ExtMove, Hold, Release, Renames, Keep, Elapse,
        rest, Ghost
    <2> QED
      BY <2>1, <2>2, <1>3
  <1>23. CASE UNCHANGED vars
    BY <1>23, <1>3 DEF vars, store
  <1> QED
    BY <1>4, <1>5, <1>6, <1>7, <1>8, <1>9, <1>10, <1>11, <1>12, <1>13, <1>14, <1>15, <1>16,
      <1>17, <1>18,
      <1>19, <1>20, <1>21, <1>22, <1>23
    DEF Next, Operations, Continuations, Settling, Publishing, Accepting, Others

\* At first no save is queued, and the layout is the stored one.
LEMMA ComparedAtFirst == Init => Compared /\ Promised
  <1> SUFFICES ASSUME Init PROVE Compared /\ Promised
    OBVIOUS
  <1>1. persisted = tabs /\ stored = tabs /\ queue = << >>
    BY DEF Init
  <1>2. \A w \in Savers : save[w].phase = "none"
    BY DEF Init, NoSave
  <1>3. Answered = {} /\ ~Lands
    BY <1>2 DEF Answered, Lands, Savers
  <1> QED
    BY <1>1, <1>3 DEF Compared, Promised

\* When nothing is being saved and no save has failed or changed nothing, the
\* document, what the runtime takes it to be and the layout in memory are the
\* same: the operations and the best-effort tail never leave them apart.
THEOREM NeverApart == Spec => []StoreAgrees
  <1>1. Compared /\ Promised => StoreAgrees
    <2> SUFFICES ASSUME Compared, Promised, Saved, ~ghost.blind, ~ghost.failed
                 PROVE  stored = tabs /\ persisted = stored
      BY DEF StoreAgrees
    <2>1. \A w \in Savers : save[w].phase = "none"
      BY DEF Saved
    <2>2. Answered = {} /\ ~Lands
      BY <2>1 DEF Answered, Lands, Savers
    <2>3. ~Due
      BY <2>1 DEF Due, Saved, Savers
    <2> QED
      BY <2>2, <2>3 DEF Compared, Promised
  <1> QED
    BY ComparedAtFirst, <1>1, Soundness, ComparedKept, PromisedKept, PTL DEF Spec
-----------------------------------------------------------------------------
\* Somebody will still publish a layout: a snapshot is wanted or taken, or an
\* operation or a pass that has changed the layout has not asked for one yet.
Upcoming ==
  \/ \E w \in Readers : snap[w].pc # "none"
  \/ \E u \in User : op[u].pc \in {"repairing", "reconciling"}
  \/ \E r \in Passes : pass[r].pc # "idle" /\ pass[r].changed

\* The layout published last is the current one, or another will be published,
\* or was given up.
Announced == shown = tabs \/ ghost.missed \/ Upcoming

\* No step forgets to publish what it has changed.
LEMMA AnnouncedKept == Sound /\ Announced /\ [Next]_vars => Announced'
  <1> SUFFICES ASSUME Sound, Announced, [Next]_vars PROVE Announced'
    OBVIOUS
  <1> USE Apart
  <1>0. /\ Queued /\ Resting /\ TypeOK
        /\ op \in [User -> Op] /\ snap \in [Readers -> Snap] /\ save \in [Savers -> Save]
        /\ pass \in [Passes -> Pass] /\ ghost \in Ghost /\ tabs \in Layout
    BY DEF Sound, TypeOK
  <1>a. User \subseteq Savers /\ User \subseteq Readers /\ Passes \subseteq Readers /\ User \cap Passes = {}
    BY DEF Savers, Readers, Passes
  <1>b. Upcoming' => Announced'
    BY DEF Announced
  <1>c. ASSUME UNCHANGED <<shown, tabs>>, ghost'.missed = ghost.missed,
               \A w \in Readers : snap[w].pc # "none" => snap'[w].pc # "none",
               \A u \in User : op[u].pc \in {"repairing", "reconciling"} => op'[u].pc = op[u].pc,
               \A r \in Passes : pass[r].pc # "idle" /\ pass[r].changed
                                   => pass'[r].pc # "idle" /\ pass'[r].changed
        PROVE  Announced'
    <2>1. Upcoming => Upcoming'
      BY <1>c DEF Upcoming
    <2> QED
      BY <2>1, <1>b, <1>c DEF Announced
  <1>d. ASSUME NEW w \in Readers, snap' = Wanted({w}) PROVE Announced'
    <2>1. snap'[w].pc = "wanted"
      BY <1>d DEF Wanted, NoSnap
    <2> QED
      BY <2>1, <1>b DEF Upcoming
  <1>e. ASSUME NEW u \in User, op'[u].pc \in {"repairing", "reconciling"} PROVE Announced'
    BY <1>b, <1>e DEF Upcoming
  <1>f. \A w \in Readers : Stale(snap)[w].pc = snap[w].pc
    BY <1>0 DEF Stale, Snap
  <1>g. ASSUME NEW u \in User, op[u].pc \notin {"repairing", "reconciling"},
               (\E x : op' = [op EXCEPT ![u] = x]) \/ (\E x : op' = [op EXCEPT ![u].pc = x]),
               UNCHANGED <<shown, tabs, snap, pass>>, ghost'.missed = ghost.missed
        PROVE  Announced'
    <2>1. \A v \in User : op[v].pc \in {"repairing", "reconciling"} => op'[v].pc = op[v].pc
      BY <1>g, <1>0
    <2> QED
      BY <2>1, <1>c, <1>g
  <1>1. ASSUME NEW u \in User, \/ Select(u) \/ MoveNote(u) \/ TrashNote(u) \/ WriteNote(u) \/ OpenUnread(u) \/ NoteUnread(u)
        PROVE  Announced'
    <2>1. op[u].pc \notin {"repairing", "reconciling"} /\ UNCHANGED <<shown, tabs, snap, pass>>
      BY <1>1 DEF Select, MoveNote, TrashNote, WriteNote, OpenUnread, NoteUnread, Starts, Unmoved
    <2>2. (\E x : op' = [op EXCEPT ![u] = x]) \/ (\E x : op' = [op EXCEPT ![u].pc = x])
      BY <1>1 DEF Select, MoveNote, TrashNote, WriteNote, OpenUnread, NoteUnread
    <2>3. ghost'.missed = ghost.missed
      <3>1. CASE Select(u) \/ OpenUnread(u) \/ NoteUnread(u)
        BY <3>1 DEF Select, OpenUnread, NoteUnread, rest
      <3>2. CASE MoveNote(u)
        BY <3>2, <1>0 DEF MoveNote, Renames, Ghost
      <3>3. CASE TrashNote(u) \/ WriteNote(u)
        BY <3>3, <1>0 DEF TrashNote, WriteNote, Keep, Ghost
      <3> QED
        BY <1>1, <3>1, <3>2, <3>3
    <2> QED
      BY <2>1, <2>2, <2>3, <1>g
  <1>2. ASSUME NEW u \in User, Repaired(u) \/ Reconciled(u) PROVE Announced'
    BY <1>2, <1>a, <1>d DEF Repaired, Reconciled
  <1>3. ASSUME NEW u \in User, CloseTab(u) \/ Arrange(u) \/ OpenTab(u) PROVE Announced'
    <2>1. op[u].pc \notin {"repairing", "reconciling"} /\ \E s, p : Adopt(u, s, p)
      BY <1>3 DEF CloseTab, Arrange, OpenTab, Starts
    <2>2. CASE snap' = Wanted({u})
      BY <2>2, <1>a, <1>d
    <2>3. CASE UNCHANGED snap /\ \E x : op' = [op EXCEPT ![u] = x]
      <3>1. UNCHANGED <<shown, tabs, pass>>
        BY <1>3 DEF CloseTab, Arrange, OpenTab, Unmoved
      <3>2. ghost'.missed = ghost.missed
        BY <1>3, <1>0 DEF CloseTab, Arrange, OpenTab, Keep, rest, Ghost
      <3> QED
        BY <2>1, <2>3, <3>1, <3>2, <1>g
    <2> QED
      BY <2>1, <2>2, <2>3 DEF Adopt
  <1>4. ASSUME NEW u \in User, UserSaved(u) PROVE Announced'
    <2>1. CASE snap' = Wanted({u})
      BY <2>1, <1>a, <1>d
    <2>2. CASE op' = [op EXCEPT ![u] = [NoOp EXCEPT !.pc = "repairing"]]
      <3>1. op'[u].pc = "repairing"
        BY <2>2, <1>0 DEF NoOp
      <3> QED
        BY <3>1, <1>e
    <2> QED
      BY <1>4, <2>1, <2>2 DEF UserSaved
  <1>5. ASSUME NEW u \in User, UserRefused(u) PROVE Announced'
    <2>1. op[u].pc = "saving" /\ UNCHANGED <<shown, snap, pass>>
      BY <1>5, <1>0 DEF UserRefused, Queued
    <2>2. CASE op' = [op EXCEPT ![u] = NoOp] /\ UNCHANGED <<tabs, ghost>>
      BY <2>1, <2>2, <1>g
    <2>3. CASE op' = [op EXCEPT ![u] = [NoOp EXCEPT !.pc = "repairing"]]
      <3>1. op'[u].pc = "repairing"
        BY <2>3, <1>0 DEF NoOp
      <3> QED
        BY <3>1, <1>e
    <2> QED
      BY <1>5, <2>2, <2>3 DEF UserRefused
  <1>6. ASSUME NEW u \in User, FinishMove(u) \/ FinishWrite(u) PROVE Announced'
    <2>1. CASE op' = [op EXCEPT ![u].pc = "reconciling"]
      <3>1. op'[u].pc = "reconciling"
        BY <2>1, <1>0 DEF Op
      <3> QED
        BY <3>1, <1>e
    <2>2. CASE snap' = Stale(Wanted({u}))
      <3>1. snap'[u].pc = "wanted"
        BY <2>2, <1>a DEF Stale, Wanted, NoSnap
      <3> QED
        BY <3>1, <1>a, <1>b DEF Upcoming
    <2> QED
      BY <1>6, <2>1, <2>2 DEF FinishMove, FinishWrite, Integrate
  <1>7. CASE AcceptChanges \/ AcceptRebuild
    <2>1. /\ pass["batch"].pc = "idle" /\ shown' = shown /\ op' = op
          /\ \A w \in Readers : snap'[w].pc = snap[w].pc
      BY <1>7, <1>f DEF AcceptChanges, AcceptRebuild, Batch
    <2>2. ghost'.missed = ghost.missed
      BY <1>7, <1>0 DEF AcceptChanges, AcceptRebuild, Follow, Owing, Ghost
    <2>3. PICK b, k : pass' = Start("batch", k, b) /\ b = (tabs' # tabs)
      <3>1. CASE AcceptChanges
        BY <3>1 DEF AcceptChanges
      <3>2. CASE AcceptRebuild
        <4>1. FALSE = (tabs' # tabs)
          BY <3>2 DEF AcceptRebuild
        <4> QED
          BY <3>2, <4>1 DEF AcceptRebuild
      <3> QED
        BY <1>7, <3>1, <3>2
    <2>4. "batch" \in Passes /\ \A q \in Passes : q # "batch" => pass'[q] = pass[q]
      BY <2>3, <1>0 DEF Start, Passes
    <2>5. pass'["batch"].pc = "running" /\ pass'["batch"].changed = b
      BY <2>3, <2>4, <1>0 DEF Start, NoPass
    <2>6. CASE tabs' = tabs
      BY <2>1, <2>2, <2>4, <2>6, <1>c
    <2>7. CASE tabs' # tabs
      <3>1. pass'["batch"].changed
        BY <2>3, <2>5, <2>7
      <3> QED
        BY <3>1, <2>4, <2>5, <1>b DEF Upcoming
    <2> QED
      BY <2>6, <2>7
  <1>8. CASE WakeFires
    <2>t. PICK r \in Timers : pass[r].pc = "idle" /\ pass' = Start(r, absences, FALSE)
      BY <1>8, TimerStarts
    <2>1. UNCHANGED <<shown, tabs, op, snap, ghost>>
      BY <1>8 DEF WakeFires
    <2>2. \A q \in Passes : q # r => pass'[q] = pass[q]
      BY <2>t, <1>0 DEF Start
    <2> QED
      BY <2>t, <2>1, <2>2, <1>c DEF Passes
  <1>9. ASSUME NEW r \in Passes, Consider(r) PROVE Announced'
    <2>1. \A q \in Passes : pass'[q].pc = pass[q].pc /\ pass'[q].changed = pass[q].changed
      BY <1>9, <1>0, PassSteps DEF Considered
    <2>2. UNCHANGED <<shown, tabs, op, snap, ghost>>
      BY <1>9 DEF Consider, rest
    <2> QED
      BY <2>1, <2>2, <1>c
  <1>10. ASSUME NEW r \in Passes, Look(r) PROVE Announced'
    <2>1. PICK x : pass' = [pass EXCEPT ![r].saw = x]
      BY <1>10 DEF Look
    <2>2. \A q \in Passes : pass'[q].pc = pass[q].pc /\ pass'[q].changed = pass[q].changed
      BY <2>1, <1>0 DEF Pass
    <2>3. UNCHANGED <<shown, tabs, op, snap, ghost>>
      BY <1>10 DEF Look
    <2> QED
      BY <2>2, <2>3, <1>c
  <1>11. ASSUME NEW r \in Passes, Decide(r) PROVE Announced'
    <2>1. Decided(r)
      BY <1>11, <1>0, PassSteps
    <2>2. UNCHANGED <<shown, op, snap>> /\ ghost'.missed = ghost.missed
      BY <1>11, <1>0 DEF Decide, Ghost
    <2>3. \A q \in Passes : pass'[q].pc = pass[q].pc /\ (pass[q].changed => pass'[q].changed)
      BY <2>1 DEF Decided
    <2>4. CASE tabs' = tabs
      BY <2>2, <2>3, <2>4, <1>c
    <2>5. CASE tabs' # tabs
      <3>1. /\ tabs' = Without(tabs, {pass[r].at})
            /\ (pass'[r].changed <=> (pass[r].changed \/ pass[r].at \in tabs.open))
        BY <2>1, <2>5 DEF Decided
      <3>2. pass[r].at \in tabs.open
        BY <3>1, <2>5, <1>0 DEF Without, Layout
      <3>3. pass'[r].changed /\ pass'[r].pc = "running"
        BY <2>1, <3>1, <3>2 DEF Decided
      <3> QED
        BY <3>3, <1>b DEF Upcoming
    <2> QED
      BY <2>4, <2>5
  <1>12. ASSUME NEW r \in Passes, Settled(r) PROVE Announced'
    <2>1. UNCHANGED <<shown, tabs, op, ghost>>
      BY <1>12 DEF Settled, rest
    <2>2. CASE pass[r].changed
      <3>1. pass' = [pass EXCEPT ![r].pc = "saving"]
        BY <1>12, <2>2 DEF Settled
      <3>2. pass'[r].pc # "idle" /\ pass'[r].changed
        BY <3>1, <2>2, <1>0 DEF Pass
      <3> QED
        BY <3>2, <1>b DEF Upcoming
    <2>3. CASE ~pass[r].changed
      <3>1. pass' = [pass EXCEPT ![r] = NoPass] /\ (snap' = Wanted({r}) \/ UNCHANGED snap)
        BY <1>12, <2>3 DEF Settled
      <3>2. \A q \in Passes : q # r => pass'[q] = pass[q]
        BY <3>1, <1>0
      <3> QED
        BY <3>1, <3>2, <2>1, <2>3, <1>a, <1>c, <1>d
    <2> QED
      BY <2>2, <2>3
  <1>13. ASSUME NEW r \in Passes, PassSaved(r) PROVE Announced'
    BY <1>13, <1>a, <1>d DEF PassSaved
  <1>14. ASSUME NEW w \in Readers, Capture(w) PROVE Announced'
    <2>1. snap'[w].pc # "none"
      BY <1>14, <1>0 DEF Capture, Snap
    <2> QED
      BY <2>1, <1>b DEF Upcoming
  <1>15. ASSUME NEW w \in Readers, NEW sn \in [Readers -> Snap], Retry(w, sn) PROVE Announced'
    <2>1. CASE snap' = [sn EXCEPT ![w] = [NoSnap EXCEPT !.pc = "wanted", !.tries = snap[w].tries + 1]]
      <3>1. snap'[w].pc = "wanted"
        BY <2>1 DEF NoSnap
      <3> QED
        BY <3>1, <1>b DEF Upcoming
    <2>2. CASE ghost' = [ghost EXCEPT !.missed = TRUE]
      BY <2>2, <1>0 DEF Ghost, Announced
    <2> QED
      BY <1>15, <2>1, <2>2 DEF Retry
  <1>16. ASSUME NEW w \in Readers, Present(w) PROVE Announced'
    <2>1. CASE Holds(w) /\ shown' = snap[w].tabs
      BY <1>16, <2>1 DEF Present, Holds, Announced
    <2>2. CASE Retry(w, snap)
      BY <2>2, <1>0, <1>15
    <2> QED
      BY <1>16, <2>1, <2>2 DEF Present
  <1>17. ASSUME NEW w \in Readers, Refresh(w) PROVE Announced'
    BY <1>17, <1>0, <1>15, Operators DEF Refresh
  <1>18. CASE Restart
    BY <1>18 DEF Restart, Announced
  <1>19. CASE Land \/ SaveFails \/ TailRun \/ TailAnswered
    <2>1. UNCHANGED <<shown, tabs, op, snap, pass>>
      BY <1>19 DEF Land, SaveFails, TailRun, TailAnswered
    <2>2. ghost'.missed = ghost.missed
      BY <1>19, <1>0 DEF Land, SaveFails, TailRun, TailAnswered, rest, Ghost
    <2> QED
      BY <2>1, <2>2, <1>c
  <1>20. CASE ExtRemove \/ ExtCreate \/ ExtMove \/ Hold \/ Release \/ Elapse
    <2>1. UNCHANGED <<shown, tabs, op, snap, pass>>
      BY <1>20 DEF ExtRemove, ExtCreate, ExtMove, Hold, Release, Outside, Elapse
    <2>2. ghost'.missed = ghost.missed
      <3>1. CASE ExtRemove
        BY <3>1, <1>0 DEF ExtRemove, Keep, Ghost
      <3>2. CASE ExtCreate \/ Release
        BY <3>2, <1>0 DEF ExtCreate, Release, Ghost
      <3>3. CASE ExtMove
        BY <3>3, <1>0 DEF ExtMove, Renames, Ghost
      <3>4. CASE Hold
        BY <3>4, <1>0 DEF Hold, Keep, Ghost
      <3>5. CASE Elapse
        BY <3>5 DEF Elapse, rest
      <3> QED
        BY <1>20, <3>1, <3>2, <3>3, <3>4, <3>5
    <2> QED
      BY <2>1, <2>2, <1>c
  <1>21. CASE UNCHANGED vars
    BY <1>21, <1>c DEF vars
  <1> QED
    BY <1>1, <1>2, <1>3, <1>4, <1>5, <1>6, <1>7, <1>8, <1>9, <1>10, <1>11, <1>12, <1>13, <1>14,
      <1>16, <1>17, <1>18, <1>19, <1>20, <1>21
    DEF Next, Operations, Continuations, Settling, Publishing, Accepting, Others

\* When everything is at rest, the layout published last is the current one,
\* unless the last snapshot was given up after too many attempts.
THEOREM ShownAlwaysCurrent == Spec => []ShownCurrent
  <1>1. Init => Announced
    BY DEF Init, Announced
  <1>2. Announced => ShownCurrent
    <2> SUFFICES ASSUME Announced, ~ghost.missed, \A u \in User : op[u].pc = "idle",
                        \A r \in Passes : /\ pass[r].pc = "idle"
                                         /\ \A w \in Readers : snap[w].pc = "none"
                 PROVE  shown = tabs
      BY DEF ShownCurrent
    <2>0. \A w \in Readers : snap[w].pc = "none"
      BY DEF Passes
    <2>1. ~Upcoming
      BY <2>0 DEF Upcoming
    <2> QED
      BY <2>1 DEF Announced
  <1> QED
    BY <1>1, <1>2, Soundness, AnnouncedKept, PTL DEF Spec
-----------------------------------------------------------------------------
\* A tab that is owed is open, its file is in the folder or held aside, and its
\* removal is not marked.
Standing ==
  /\ ghost.owed \subseteq tabs.open /\ ghost.owed \subseteq files \cup held
  /\ ghost.owed \cap removed = {}

\* Nothing that is still to be told says that an owed file has moved or gone.
Untold ==
  /\ moved.from \notin ghost.owed
  /\ \A u \in User : op[u].pc = "moving" => op[u].from \notin ghost.owed

\* No look at an owed file has missed it, nor will the one about to be made.
Sighted == \A r \in Passes : pass[r].at \in ghost.owed =>
  pass[r].saw # "absent" /\ (pass[r].saw = "none" => pass[r].at \in files)

\* Unless the compare is blind, a copy that the store has accepted, or would
\* accept, has every tab that is owed.
Copied == ~ghost.blind => \A u \in User :
  save[u].phase = "ok" \/ (save[u].phase = "queued" /\ save[u].expected = stored)
    => ghost.owed \subseteq save[u].state.open

\* A tab that is gone stays marked as removed, and its file is nowhere; the file
\* that a move named is still there.
Leaving ==
  /\ ghost.gone \subseteq removed
  /\ ghost.gone \cap (files \cup held \cup index \cup tabs.open) = {}
  /\ moved = NoMove \/ moved.to \in files \cup held

\* What an adopted layout becomes has no tab that is marked as removed.
LEMMA Scrubbing ==
  ASSUME TypeOK
  PROVE  /\ \A s \in Layout : Scrub(s).open = s.open \ removed
         /\ \A s \in Layout : \A P \in SUBSET Path : Without(s, P).open = s.open \ P
         /\ \A s \in Layout : \A p \in MaybePath, q \in MaybePath :
              Moved(s, p, q).open = IF p \in s.open THEN (s.open \ {p}) \cup {q} ELSE s.open
  <1>1. removed \subseteq Path
    BY DEF TypeOK
  <1>2. ASSUME NEW s \in Layout, NEW P \in SUBSET Path PROVE Without(s, P).open = s.open \ P
    BY DEF Without, Layout
  <1>3. ASSUME NEW s \in Layout, NEW p \in MaybePath, NEW q \in MaybePath
        PROVE  Moved(s, p, q).open = IF p \in s.open THEN (s.open \ {p}) \cup {q} ELSE s.open
    BY DEF Moved, Layout
  <1> QED
    BY <1>1, <1>2, <1>3 DEF Scrub

\* The steps after which no other tab is owed than before.
LEMMA OwedLess ==
  ASSUME TypeOK
  PROVE  /\ \A u \in User :
              \/ Select(u) \/ CloseTab(u) \/ Arrange(u) \/ MoveNote(u) \/ TrashNote(u) \/ WriteNote(u) \/ OpenTab(u)
              \/ OpenUnread(u) \/ UserRefused(u) \/ Repaired(u) \/ NoteUnread(u) \/ Reconciled(u)
              => ghost'.owed \subseteq ghost.owed
         /\ Land \/ SaveFails \/ TailRun \/ TailAnswered \/ AcceptRebuild \/ WakeFires \/ Elapse
              => ghost'.owed \subseteq ghost.owed
         /\ \A r \in Passes : Consider(r) \/ Look(r) \/ Decide(r) \/ Settled(r) \/ PassSaved(r)
              => ghost'.owed \subseteq ghost.owed
         /\ \A w \in Readers : Capture(w) \/ Present(w) \/ Refresh(w) => ghost'.owed \subseteq ghost.owed
         /\ ExtRemove \/ ExtCreate \/ ExtMove \/ Hold \/ Restart \/ Release => ghost'.owed \subseteq ghost.owed
  <1>0. ghost \in Ghost
    BY DEF TypeOK
  <1>k. \A P : Keep(P) => ghost'.owed \subseteq ghost.owed
    BY <1>0 DEF Keep, Ghost
  <1>r. \A p, q : Renames(p, q) => ghost'.owed \subseteq ghost.owed
    BY <1>0 DEF Renames, Ghost
  <1>g. ghost' = ghost => ghost'.owed \subseteq ghost.owed
    OBVIOUS
  <1>1. ASSUME NEW u \in User,
               \/ Select(u) \/ CloseTab(u) \/ Arrange(u) \/ MoveNote(u) \/ TrashNote(u) \/ WriteNote(u) \/ OpenTab(u)
               \/ OpenUnread(u) \/ UserRefused(u) \/ Repaired(u) \/ NoteUnread(u) \/ Reconciled(u)
        PROVE  ghost'.owed \subseteq ghost.owed
    <2>1. CASE CloseTab(u) \/ TrashNote(u)
      BY <2>1, <1>k DEF CloseTab, TrashNote
    <2>6. CASE WriteNote(u)
      BY <2>6, <1>0 DEF WriteNote, Ghost
    <2>2. CASE MoveNote(u)
      BY <2>2, <1>r DEF MoveNote
    <2>3. CASE UserRefused(u)
      BY <2>3, <1>0 DEF UserRefused, Ghost
    <2>4. CASE Select(u) \/ Arrange(u)
      BY <2>4, <1>g DEF Select, Arrange
    <2>5. CASE \/ OpenTab(u) \/ OpenUnread(u) \/ Repaired(u) \/ NoteUnread(u) \/ Reconciled(u)
      BY <2>5, <1>g DEF OpenTab, OpenUnread, Repaired, NoteUnread, Reconciled, rest
    <2> QED
      BY <1>1, <2>1, <2>2, <2>3, <2>4, <2>5, <2>6
  <1>2. CASE Land \/ SaveFails \/ TailRun \/ TailAnswered \/ AcceptRebuild \/ WakeFires \/ Elapse
    BY <1>0, <1>2 DEF Land, SaveFails, TailRun, TailAnswered, AcceptRebuild, WakeFires, Elapse, rest, Ghost
  <1>3. ASSUME NEW r \in Passes, Consider(r) \/ Look(r) \/ Settled(r) \/ PassSaved(r)
        PROVE  ghost'.owed \subseteq ghost.owed
    BY <1>3 DEF Consider, Look, Settled, PassSaved, rest
  <1>4. ASSUME NEW r \in Passes, Decide(r) PROVE ghost'.owed \subseteq ghost.owed
    BY <1>0, <1>4 DEF Decide, Ghost
  <1>5. ASSUME NEW w \in Readers, Capture(w) \/ Present(w) \/ Refresh(w)
        PROVE  ghost'.owed \subseteq ghost.owed
    BY <1>0, <1>5 DEF Capture, Present, Refresh, Retry, rest, Ghost
  <1>6. CASE ExtRemove \/ ExtCreate \/ ExtMove \/ Hold \/ Restart \/ Release
    <2>1. CASE ExtRemove \/ Hold
      BY <2>1, <1>k, <1>g DEF ExtRemove, Hold
    <2>2. CASE ExtMove
      BY <2>2, <1>r DEF ExtMove
    <2>3. CASE ExtCreate \/ Release
      BY <2>3, <1>0 DEF ExtCreate, Release, Ghost
    <2>4. CASE Restart
      BY <2>4 DEF Restart
    <2> QED
      BY <1>6, <2>1, <2>2, <2>3, <2>4
  <1> QED
    BY <1>1, <1>2, <1>3, <1>4, <1>5, <1>6

\* What the three other steps may add is certain to be there.
LEMMA OwedMore ==
  ASSUME TypeOK
  PROVE  /\ \A u \in User : UserSaved(u) =>
              \A p \in ghost'.owed : \/ p \in ghost.owed /\ (ghost.blind => p \in Scrub(save[u].state).open)
                                     \/ p = op[u].to /\ p \in Scrub(save[u].state).open /\ Certain(p)
         /\ \A u \in User : FinishMove(u) =>
              \A p \in ghost'.owed : \/ p \in ghost.owed
                                     \/ p = op[u].to /\ op[u].from \in tabs.open /\ Certain(p) /\ ~Saving
         /\ \A u \in User : FinishWrite(u) =>
              \A p \in ghost'.owed : \/ p \in ghost.owed
                                     \/ p = op[u].to /\ p \in tabs'.open /\ Certain(p) /\ ~Saving
         /\ AcceptChanges =>
              \A p \in ghost'.owed : \/ p \in ghost.owed
                                     \/ p = moved.to /\ moved.from \in tabs.open /\ Certain(p) /\ ~Saving
  <1>0. ghost \in Ghost
    BY DEF TypeOK
  <1>1. ASSUME NEW u \in User, UserSaved(u), NEW p \in ghost'.owed
        PROVE  \/ p \in ghost.owed /\ (ghost.blind => p \in Scrub(save[u].state).open)
               \/ p = op[u].to /\ p \in Scrub(save[u].state).open /\ Certain(p)
    <2> DEFINE s == Scrub(save[u].state)
               new == {q \in {op[u].to} \cap s.open : Certain(q)}
    <2>1. ghost' = [ghost EXCEPT !.owed = (IF ghost.blind THEN @ \cap s.open ELSE @) \cup new]
      BY <1>1 DEF UserSaved
    <2> HIDE DEF s, new
    <2>2. ghost'.owed = (IF ghost.blind THEN ghost.owed \cap s.open ELSE ghost.owed) \cup new
      BY <1>0, <2>1 DEF Ghost
    <2> QED
      BY <2>2, <1>1 DEF s, new
  <1>2. ASSUME NEW p, NEW q, ghost' = Follow(p, q), NEW n \in ghost'.owed
        PROVE  n \in ghost.owed \/ (n = q /\ p \in tabs.open /\ Certain(n) /\ ~Saving)
    <2> HIDE DEF Certain, Saving
    <2> QED
      BY <1>0, <1>2 DEF Follow, Owing, Ghost
  <1>3. ASSUME NEW u \in User, FinishMove(u), NEW p \in ghost'.owed
        PROVE  p \in ghost.owed \/ (p = op[u].to /\ op[u].from \in tabs.open /\ Certain(p) /\ ~Saving)
    <2>1. ghost' = ghost \/ ghost' = Follow(op[u].from, op[u].to)
      BY <1>3 DEF FinishMove, Integrate
    <2> QED
      BY <2>1, <1>2, <1>3
  <1>5. ASSUME NEW u \in User, FinishWrite(u), NEW p \in ghost'.owed
        PROVE  p \in ghost.owed \/ (p = op[u].to /\ p \in tabs'.open /\ Certain(p) /\ ~Saving)
    <2>1. ghost' = ghost \/ (ghost' = Owing(op[u].to) /\ op[u].to \in tabs'.open)
      BY <1>5 DEF FinishWrite
    <2> HIDE DEF Certain, Saving
    <2> QED
      BY <2>1, <1>0, <1>5 DEF Owing, Ghost
  <1>4. ASSUME AcceptChanges, NEW p \in ghost'.owed
        PROVE  p \in ghost.owed \/ (p = moved.to /\ moved.from \in tabs.open /\ Certain(p) /\ ~Saving)
    <2>1. ghost' = ghost \/ ghost' = Follow(moved.from, moved.to)
      BY <1>4 DEF AcceptChanges
    <2> QED
      BY <2>1, <1>2, <1>4
  <1> QED
    BY <1>1, <1>3, <1>4, <1>5

\* A written note is there, and its tab is all that may have been opened.
LEMMA Written ==
  ASSUME TypeOK, NEW u \in User, FinishWrite(u)
  PROVE  /\ op[u].to \in files /\ index' \subseteq index \cup files
         /\ UNCHANGED <<files, held, moved, removed, pass>>
         /\ tabs'.open \in {tabs.open, tabs.open \cup {op[u].to}}
         /\ ghost'.gone = ghost.gone
         /\ \E x \in {"publishing", "reconciling"} : op' = [op EXCEPT ![u].pc = x]
  <1>1. ghost \in Ghost
    BY DEF TypeOK
  <1>2. /\ op[u].to \in files /\ index' \subseteq index \cup files
        /\ UNCHANGED <<files, held, moved, removed, pass>>
    BY DEF FinishWrite
  <1>3. tabs' = tabs \/ tabs' \in [open : {tabs.open \cup {op[u].to}}, look : BOOLEAN]
    BY DEF FinishWrite
  <1>4. ghost' = ghost \/ ghost' = Owing(op[u].to)
    BY DEF FinishWrite
  <1>5. \E x \in {"publishing", "reconciling"} : op' = [op EXCEPT ![u].pc = x]
    BY DEF FinishWrite, Integrate
  <1>6. ghost'.gone = ghost.gone
    BY <1>1, <1>4 DEF Owing, Ghost
  <1> QED
    BY <1>2, <1>3, <1>5, <1>6

\* What is gone comes back with its file only.
LEMMA LeavingKept == Sound /\ Leaving /\ [Next]_vars => Leaving'
  <1> SUFFICES ASSUME Sound, Leaving, [Next]_vars PROVE Leaving'
    OBVIOUS
  <1> USE Apart
  <1>0. /\ TypeOK /\ ghost \in Ghost /\ tabs \in Layout /\ save \in [Savers -> Save] /\ op \in [User -> Op]
        /\ files \subseteq Path /\ held \subseteq Path \ files /\ Resting
        /\ pass \in [Passes -> Pass] /\ User \subseteq Savers
        /\ moved \in [from : Path, to : Path] \cup {NoMove}
    BY DEF Sound, TypeOK, Savers
  <1>g. ghost.gone \subseteq Path /\ tabs.open \subseteq Path /\ \A u \in User : save[u].state \in Layout
    BY <1>0 DEF Ghost, Layout, Save
  <1>1. ASSUME ghost'.gone \subseteq ghost.gone, removed \cap ghost'.gone \subseteq removed',
               (files' \cup held' \cup index' \cup tabs'.open) \cap ghost'.gone
                 \subseteq files \cup held \cup index \cup tabs.open,
               moved' = NoMove \/ (moved' = moved /\ files \cup held \subseteq files' \cup held')
                 \/ moved'.to \in files' \cup held'
        PROVE  Leaving'
    BY <1>1 DEF Leaving
  <1>2. ASSUME UNCHANGED <<files, held, index, moved, tabs, removed>>, ghost'.gone = ghost.gone PROVE Leaving'
    BY <1>2, <1>1
  <1>k. \A P : Keep(P) => ghost'.gone = ghost.gone
    BY <1>0 DEF Keep, Ghost
  <1>3. ASSUME NEW u \in User,
               \/ Select(u) \/ CloseTab(u) \/ Arrange(u)
               \/ OpenUnread(u) \/ Repaired(u) \/ NoteUnread(u) \/ Reconciled(u)
        PROVE  Leaving'
    <2>1. UNCHANGED <<files, held, index, moved, tabs, removed>>
      BY <1>3 DEF Select, CloseTab, Arrange, OpenUnread, Repaired, NoteUnread, Reconciled, Unmoved, folder
    <2>2. ghost'.gone = ghost.gone
      BY <1>3, <1>k DEF Select, CloseTab, Arrange, OpenUnread, Repaired, NoteUnread, Reconciled, rest
    <2> QED
      BY <2>1, <2>2, <1>2
  <1>4. CASE Land \/ SaveFails \/ TailRun \/ TailAnswered \/ WakeFires \/ Elapse
    <2>1. UNCHANGED <<files, held, index, moved, tabs, removed>>
      BY <1>4 DEF Land, SaveFails, TailRun, TailAnswered, WakeFires, Elapse, folder
    <2>2. ghost'.gone = ghost.gone
      BY <1>4, <1>0 DEF Land, SaveFails, TailRun, TailAnswered, WakeFires, Elapse, rest, Ghost
    <2> QED
      BY <2>1, <2>2, <1>2
  <1>5. ASSUME NEW r \in Passes, Consider(r) \/ Look(r) \/ Settled(r) \/ PassSaved(r) PROVE Leaving'
    BY <1>5, <1>2 DEF Consider, Look, Settled, PassSaved, folder, rest
  <1>6. ASSUME NEW w \in Readers, Present(w) \/ Refresh(w) PROVE Leaving'
    <2>1. UNCHANGED <<files, held, index, moved, tabs, removed>>
      BY <1>6 DEF Present, Refresh, folder
    <2>2. ghost'.gone = ghost.gone
      BY <1>6, <1>0 DEF Present, Refresh, Retry, Ghost
    <2> QED
      BY <2>1, <2>2, <1>2
  <1>7. ASSUME NEW u \in User, OpenTab(u) PROVE Leaving'
    <2>1. op[u].to \in files /\ removed' = removed \ {op[u].to} /\ UNCHANGED <<files, held, index, moved, tabs, ghost>>
      BY <1>7 DEF OpenTab, Unmoved, folder, rest
    <2> QED
      BY <2>1, <1>1 DEF Leaving
  <1>8. ASSUME NEW w \in Readers, Capture(w) PROVE Leaving'
    <2>1. removed' = removed \ index /\ UNCHANGED <<files, held, index, moved, tabs, ghost>>
      BY <1>8 DEF Capture, folder, rest
    <2> QED
      BY <2>1, <1>1 DEF Leaving
  <1>9. ASSUME NEW u \in User, UserSaved(u) \/ UserRefused(u) PROVE Leaving'
    <2>1. UNCHANGED <<files, held, index, moved, removed>> /\ (tabs' = tabs \/ tabs' = Scrub(save[u].state))
      BY <1>9 DEF UserSaved, UserRefused, folder
    <2>2. ghost'.gone = ghost.gone
      BY <1>9, <1>0 DEF UserSaved, UserRefused, Ghost
    <2>3. Scrub(save[u].state).open = save[u].state.open \ removed
      BY <1>0, <1>g, Scrubbing
    <2>4. tabs'.open \cap ghost.gone \subseteq tabs.open
      BY <2>1, <2>3 DEF Leaving
    <2> QED
      BY <2>1, <2>2, <2>4, <1>1
  <1>m. ASSUME NEW p \in MaybePath, NEW q \in files \cup held \cup {NoPath}
        PROVE  Moved(tabs, p, q).open \subseteq tabs.open \cup {q}
    <2>1. q \in MaybePath /\ tabs \in Layout
      BY <1>0, <1>m DEF MaybePath
    <2>2. Moved(tabs, p, q).open = IF p \in tabs.open THEN (tabs.open \ {p}) \cup {q} ELSE tabs.open
      BY <2>1, <1>0, Scrubbing
    <2> QED
      BY <2>2
  <1>10. ASSUME NEW u \in User, FinishMove(u) PROVE Leaving'
    <2> DEFINE p == op[u].from
               q == op[u].to
    <2>1. /\ q \in files \cup {NoPath} /\ index' = (index \ {p}) \cup ({q} \ {NoPath})
          /\ moved' = NoMove \/ moved' = moved
          /\ tabs' = (IF q = NoPath THEN Without(tabs, {p}) ELSE Moved(tabs, p, q))
          /\ ghost' = ghost \/ ghost' = Follow(p, q)
          /\ UNCHANGED <<files, held, removed>>
      BY <1>10 DEF FinishMove, Integrate
    <2>p. p \in MaybePath
      BY <1>0 DEF Op
    <2> HIDE DEF p, q
    <2>2. ghost'.gone = ghost.gone
      BY <2>1, <1>0 DEF Follow, Owing, Ghost
    <2>3. tabs'.open \subseteq tabs.open \cup files
      <3>1. CASE q = NoPath
        BY <2>1, <3>1, <1>0 DEF Without, Layout
      <3>2. CASE q # NoPath
        BY <2>1, <3>2, <2>p, <1>m
      <3> QED
        BY <3>1, <3>2
    <2> QED
      BY <2>1, <2>2, <2>3, <1>1
  <1>e. ASSUME NEW u \in User, FinishWrite(u) PROVE Leaving'
    BY <1>e, <1>0, <1>1, Written
  <1>w. ASSUME NEW u \in User, WriteNote(u) PROVE Leaving'
    <2>1. PICK p \in Path \ held :
            /\ files' = files \cup {p} /\ ghost' = [ghost EXCEPT !.gone = @ \ {p}]
            /\ moved' = IF p = moved.from THEN NoMove ELSE moved
      BY <1>w DEF WriteNote
    <2>2. UNCHANGED <<held, index, tabs, removed>> /\ ghost'.gone = ghost.gone \ {p}
      BY <1>w, <2>1, <1>0 DEF WriteNote, Ghost
    <2> QED
      BY <2>1, <2>2, <1>1
  <1>r. ASSUME NEW p \in files, NEW q \in Path \ (files \cup held), Renames(p, q), UNCHANGED <<tabs, removed>>
        PROVE  Leaving'
    <2>1. /\ files' = (files \ {p}) \cup {q} /\ moved'.to = q /\ UNCHANGED <<held, index>>
          /\ ghost'.gone = ghost.gone \ {q}
      BY <1>r, <1>0 DEF Renames, Ghost
    <2> QED
      BY <2>1, <1>r, <1>1
  <1>11. ASSUME NEW u \in User, MoveNote(u) PROVE Leaving'
    BY <1>11, <1>r DEF MoveNote
  <1>12. CASE ExtMove
    BY <1>12, <1>r DEF ExtMove, Outside
  <1>13. ASSUME NEW u \in User, TrashNote(u) PROVE Leaving'
    <2>1. moved = NoMove /\ UNCHANGED <<held, index, moved, tabs, removed>> /\ ghost'.gone = ghost.gone /\ files' \subseteq files
      BY <1>13, <1>k DEF TrashNote
    <2> QED
      BY <2>1, <1>1
  <1>14. CASE AcceptChanges
    <2>1. /\ UNCHANGED <<files, held, removed>> /\ index' = files /\ moved' = NoMove
          /\ tabs' = Moved(tabs, moved.from, moved.to)
          /\ ghost' = ghost \/ ghost' = Follow(moved.from, moved.to)
      BY <1>14 DEF AcceptChanges, Batch
    <2>2. ghost'.gone = ghost.gone
      BY <2>1, <1>0 DEF Follow, Owing, Ghost
    <2>3. tabs'.open \subseteq tabs.open \cup files \cup held
      <3>1. CASE moved = NoMove
        BY <3>1, <2>1, <1>0, <1>g DEF NoMove, Moved
      <3>2. CASE moved # NoMove
        <4>1. moved.from \in MaybePath /\ moved.to \in files \cup held
          BY <3>2, <1>0 DEF Leaving, MaybePath
        <4> QED
          BY <4>1, <2>1, <1>m
      <3> QED
        BY <3>1, <3>2
    <2> QED
      BY <2>1, <2>2, <2>3, <1>1
  <1>15. CASE AcceptRebuild
    <2>1. /\ UNCHANGED <<files, held, removed, tabs, ghost>> /\ index' = files /\ moved' = NoMove
      BY <1>15 DEF AcceptRebuild, Batch
    <2> QED
      BY <2>1, <1>1
  <1>16. ASSUME NEW r \in Passes, Decide(r) PROVE Leaving'
    <2> DEFINE p == pass[r].at
               seen == absences[p].seen + (IF pass[r].saw = "absent" THEN 1 ELSE 0)
    <2>1. /\ UNCHANGED <<files, held, index, moved>>
          /\ \/ UNCHANGED <<tabs, removed, ghost>>
             \/ UNCHANGED <<tabs, removed>> /\ ghost' = [ghost EXCEPT !.blink = @ \/ p \notin index]
             \/ /\ removed' = removed \cup {p} /\ tabs' = Without(tabs, {p})
                /\ ghost' = [ghost EXCEPT !.gone = @ \cup ({p} \ (files \cup held \cup index)),
                                          !.owed = IF seen < Confirmed THEN @ \ {p} ELSE @]
      BY <1>16 DEF Decide, folder
    <2> HIDE DEF p, seen
    <2>2. CASE UNCHANGED <<tabs, removed>> /\ ghost'.gone = ghost.gone
      BY <2>1, <2>2, <1>2
    <2>3. CASE /\ removed' = removed \cup {p} /\ tabs' = Without(tabs, {p})
               /\ ghost' = [ghost EXCEPT !.gone = @ \cup ({p} \ (files \cup held \cup index)),
                                         !.owed = IF seen < Confirmed THEN @ \ {p} ELSE @]
      <3>1. ghost'.gone = ghost.gone \cup ({p} \ (files \cup held \cup index))
        BY <2>3, <1>0 DEF Ghost
      <3>2. tabs'.open = tabs.open \ {p}
        BY <2>3, <1>0 DEF Without, Layout
      <3> QED
        BY <2>1, <2>3, <3>1, <3>2 DEF Leaving
    <2> QED
      BY <2>1, <2>2, <2>3, <1>0 DEF Ghost
  <1>17. CASE ExtRemove
    <2>1. PICK p \in files : files' = files \ {p} /\ moved' = (IF p = moved.to THEN NoMove ELSE moved) /\ Keep({p})
      BY <1>17 DEF ExtRemove
    <2>2. UNCHANGED <<held, index, tabs, removed>> /\ ghost'.gone = ghost.gone
      BY <1>17, <2>1, <1>k DEF ExtRemove, Outside
    <2> QED
      BY <2>1, <2>2 DEF Leaving
  <1>18. CASE ExtCreate
    <2>1. PICK p \in Path \ (files \cup held) :
             /\ files' = files \cup {p} /\ ghost' = [ghost EXCEPT !.gone = @ \ {p}]
             /\ moved' = IF p = moved.from THEN NoMove ELSE moved
      BY <1>18 DEF ExtCreate
    <2>2. UNCHANGED <<held, index, tabs, removed>> /\ ghost'.gone = ghost.gone \ {p}
      BY <1>18, <2>1, <1>0 DEF ExtCreate, Outside, Ghost
    <2> QED
      BY <2>1, <2>2, <1>1
  <1>19. CASE Hold
    <2>1. PICK p \in files : files' = files \ {p} /\ held' = held \cup {p}
      BY <1>19 DEF Hold
    <2>2. UNCHANGED <<index, tabs, removed, moved>> /\ ghost'.gone = ghost.gone
      BY <1>19, <1>k DEF Hold, Outside
    <2> QED
      BY <2>1, <2>2, <1>1
  <1>20. CASE Release
    <2>1. PICK p \in held : held' = held \ {p} /\ files' = files \cup {p} /\ ghost' = [ghost EXCEPT !.gone = @ \ {p}]
      BY <1>20 DEF Release
    <2>2. UNCHANGED <<index, tabs, removed, moved>> /\ ghost'.gone = ghost.gone \ {p}
      BY <1>20, <2>1, <1>0 DEF Release, Outside, Ghost
    <2> QED
      BY <2>1, <2>2, <1>1
  <1>21. CASE Restart
    BY <1>21 DEF Restart, Leaving
  <1>22. CASE UNCHANGED vars
    BY <1>22, <1>2 DEF vars
  <1> QED
    BY <1>3, <1>4, <1>5, <1>6, <1>7, <1>8, <1>9, <1>10, <1>11, <1>12, <1>13, <1>14, <1>15, <1>16,
      <1>17, <1>18, <1>19, <1>20, <1>21, <1>22, <1>e, <1>w
    DEF Next, Operations, Continuations, Settling, Publishing, Accepting, Others

\* An owed tab stays open, its file stays, and its removal is not marked.
LEMMA StandingKept ==
  Sound /\ StoreAgrees /\ Standing /\ Untold /\ Sighted /\ Copied /\ [Next]_vars => Standing'
  <1> SUFFICES ASSUME Sound, StoreAgrees, Standing, Untold, Sighted, Copied, [Next]_vars PROVE Standing'
    OBVIOUS
  <1> USE Apart
  <1>0. /\ TypeOK /\ ghost \in Ghost /\ tabs \in Layout /\ save \in [Savers -> Save] /\ op \in [User -> Op]
        /\ files \subseteq Path /\ held \subseteq Path \ files /\ Resting
        /\ pass \in [Passes -> Pass] /\ User \subseteq Savers /\ absences \in [Path -> Absence]
        /\ moved \in [from : Path, to : Path] \cup {NoMove}
    BY DEF Sound, TypeOK, Savers
  <1>g. /\ ghost.owed \subseteq Path /\ tabs.open \subseteq Path /\ \A u \in User : save[u].state \in Layout
        /\ ghost.blind \in BOOLEAN
    BY <1>0 DEF Ghost, Layout, Save
  <1>1. ASSUME UNCHANGED <<tabs, files, held>>, removed' \subseteq removed, ghost'.owed \subseteq ghost.owed PROVE Standing'
    BY <1>1 DEF Standing
  <1>k. \A P : Keep(P) => ghost'.owed = ghost.owed \ P
    BY <1>0 DEF Keep, Ghost
  <1>3. ASSUME NEW u \in User,
               \/ Select(u) \/ CloseTab(u) \/ Arrange(u) \/ OpenTab(u)
               \/ OpenUnread(u) \/ Repaired(u) \/ NoteUnread(u) \/ Reconciled(u)
        PROVE  Standing'
    <2>1. UNCHANGED <<tabs, files, held>> /\ removed' \subseteq removed
      BY <1>3 DEF Select, CloseTab, Arrange, OpenTab, OpenUnread, Repaired, NoteUnread, Reconciled, Unmoved, folder
    <2>2. ghost'.owed \subseteq ghost.owed
      BY <1>0, <1>3, OwedLess
    <2> QED
      BY <2>1, <2>2, <1>1
  <1>4. CASE Land \/ SaveFails \/ TailRun \/ TailAnswered \/ AcceptRebuild \/ WakeFires \/ Elapse
    <2>1. UNCHANGED <<tabs, files, held, removed>>
      BY <1>4 DEF Land, SaveFails, TailRun, TailAnswered, AcceptRebuild, Batch, WakeFires, Elapse, folder
    <2>2. ghost'.owed \subseteq ghost.owed
      BY <1>0, <1>4, OwedLess
    <2> QED
      BY <2>1, <2>2, <1>1
  <1>5. ASSUME NEW r \in Passes, Consider(r) \/ Look(r) \/ Settled(r) \/ PassSaved(r) PROVE Standing'
    BY <1>5, <1>1 DEF Consider, Look, Settled, PassSaved, folder, rest
  <1>6. ASSUME NEW w \in Readers, Capture(w) \/ Present(w) \/ Refresh(w) PROVE Standing'
    <2>1. UNCHANGED <<tabs, files, held>> /\ removed' \subseteq removed
      BY <1>6 DEF Capture, Present, Refresh, folder
    <2>2. ghost'.owed \subseteq ghost.owed
      BY <1>0, <1>6, OwedLess
    <2> QED
      BY <2>1, <2>2, <1>1
  <1>7. ASSUME NEW u \in User, UserSaved(u) PROVE Standing'
    <2> DEFINE s == Scrub(save[u].state)
    <2>1. save[u].phase = "ok" /\ UNCHANGED <<files, held, removed>> /\ tabs' = s
      BY <1>7 DEF UserSaved, folder
    <2>2. s.open = save[u].state.open \ removed
      BY <1>0, <1>g, Scrubbing
    <2>3. ASSUME NEW p \in ghost'.owed PROVE p \in s.open /\ p \in files \cup held /\ p \notin removed
      <3>1. CASE p = op[u].to /\ p \in s.open /\ Certain(p)
        BY <3>1 DEF Certain
      <3>2. CASE p \in ghost.owed /\ (ghost.blind => p \in s.open)
        <4>1. ~ghost.blind => p \in save[u].state.open
          BY <3>2, <2>1 DEF Copied
        <4> QED
          BY <4>1, <3>2, <2>2 DEF Standing
      <3> QED
        BY <3>1, <3>2, <1>7, <1>0, OwedMore
    <2> QED
      BY <2>1, <2>3 DEF Standing
  <1>8. ASSUME NEW u \in User, UserRefused(u) PROVE Standing'
    <2>1. /\ UNCHANGED <<files, held, removed>>
          /\ \/ UNCHANGED <<tabs, ghost>>
             \/ ghost' = [ghost EXCEPT !.owed = @ \cap tabs'.open]
      BY <1>8 DEF UserRefused, folder
    <2>2. UNCHANGED <<tabs, ghost>> \/ ghost'.owed = ghost.owed \cap tabs'.open
      BY <2>1, <1>0 DEF Ghost
    <2> QED
      BY <2>1, <2>2 DEF Standing
  <1>m. ASSUME NEW p \in MaybePath, NEW q \in MaybePath
        PROVE  /\ tabs.open \ {p} \subseteq Moved(tabs, p, q).open
               /\ p \in tabs.open => q \in Moved(tabs, p, q).open
    <2>1. Moved(tabs, p, q).open = IF p \in tabs.open THEN (tabs.open \ {p}) \cup {q} ELSE tabs.open
      BY <1>0, Scrubbing
    <2> QED
      BY <2>1
  <1>9. ASSUME NEW u \in User, FinishMove(u) PROVE Standing'
    <2> DEFINE p == op[u].from
               q == op[u].to
    <2>1. /\ op[u].pc = "moving" /\ UNCHANGED <<files, held, removed>>
          /\ tabs' = (IF q = NoPath THEN Without(tabs, {p}) ELSE Moved(tabs, p, q))
      BY <1>9 DEF FinishMove, Integrate
    <2>2. p \in MaybePath /\ q \in MaybePath
      BY <1>0 DEF Op
    <2>3. p \notin ghost.owed
      BY <2>1 DEF Untold
    <2>4. \A n \in ghost'.owed : n \in ghost.owed \/ (n = q /\ p \in tabs.open /\ Certain(n))
      BY <1>9, <1>0, OwedMore
    <2>5. ASSUME NEW n \in ghost'.owed PROVE n \in tabs'.open /\ n \in files \cup held /\ n \notin removed
      <3> HIDE DEF p, q
      <3>1. CASE n \in ghost.owed
        <4>1. n \in tabs.open \ {p}
          BY <3>1, <2>3 DEF Standing
        <4>2. tabs.open \ {p} \subseteq tabs'.open
          BY <2>1, <2>2, <1>m, <1>0 DEF Without, Layout
        <4> QED
          BY <4>1, <4>2, <3>1 DEF Standing
      <3>2. CASE n = q /\ p \in tabs.open /\ Certain(n)
        <4>1. n \in files /\ n \notin removed
          BY <3>2 DEF Certain
        <4>2. q # NoPath
          BY <4>1, <3>2, <1>0
        <4> QED
          BY <4>1, <4>2, <3>2, <2>1, <2>2, <1>m
      <3> QED
        BY <3>1, <3>2, <2>4
    <2> QED
      BY <2>1, <2>5 DEF Standing
  <1>e. ASSUME NEW u \in User, FinishWrite(u) PROVE Standing'
    <2>1. UNCHANGED <<files, held, removed>> /\ tabs.open \subseteq tabs'.open
      BY <1>e, <1>0, Written
    <2>2. \A p \in ghost'.owed : p \in ghost.owed \/ (p \in tabs'.open /\ Certain(p))
      BY <1>e, <1>0, OwedMore
    <2>3. \A p \in ghost'.owed : p \in tabs'.open /\ p \in files \cup held /\ p \notin removed
      BY <2>1, <2>2 DEF Standing, Certain
    <2> QED
      BY <2>1, <2>3 DEF Standing
  <1>w. ASSUME NEW u \in User, WriteNote(u) PROVE Standing'
    <2>1. files \subseteq files' /\ UNCHANGED <<held, tabs, removed>>
      BY <1>w DEF WriteNote
    <2>2. ghost'.owed \subseteq ghost.owed
      BY <1>w, <1>0, OwedLess
    <2> QED
      BY <2>1, <2>2 DEF Standing
  <1>10. CASE AcceptChanges
    <2>1. UNCHANGED <<files, held, removed>> /\ tabs' = Moved(tabs, moved.from, moved.to)
      BY <1>10 DEF AcceptChanges, Batch
    <2>2. moved.from \in MaybePath /\ moved.to \in MaybePath
      BY <1>0 DEF MaybePath, NoMove
    <2>3. \A n \in ghost'.owed : n \in ghost.owed \/ (n = moved.to /\ moved.from \in tabs.open /\ Certain(n))
      BY <1>10, <1>0, OwedMore
    <2>4. ASSUME NEW n \in ghost'.owed PROVE n \in tabs'.open /\ n \in files \cup held /\ n \notin removed
      <3>1. CASE n \in ghost.owed
        <4>1. n \in tabs.open \ {moved.from}
          BY <3>1 DEF Standing, Untold
        <4> QED
          BY <4>1, <3>1, <2>1, <2>2, <1>m DEF Standing
      <3>2. CASE n = moved.to /\ moved.from \in tabs.open /\ Certain(n)
        <4>1. n \in files /\ n \notin removed
          BY <3>2 DEF Certain
        <4> QED
          BY <4>1, <3>2, <2>1, <2>2, <1>m
      <3> QED
        BY <3>1, <3>2, <2>3
    <2> QED
      BY <2>1, <2>4 DEF Standing
  <1>11. ASSUME NEW r \in Passes, Decide(r) PROVE Standing'
    <2> DEFINE p == pass[r].at
               seen == absences[p].seen + (IF pass[r].saw = "absent" THEN 1 ELSE 0)
    <2>1. /\ UNCHANGED <<files, held>> /\ pass[r].saw # "none"
          /\ \/ UNCHANGED <<tabs, removed, ghost>>
             \/ UNCHANGED <<tabs, removed>> /\ ghost' = [ghost EXCEPT !.blink = @ \/ p \notin index]
             \/ /\ removed' = removed \cup {p} /\ tabs' = Without(tabs, {p})
                /\ ghost' = [ghost EXCEPT !.gone = @ \cup ({p} \ (files \cup held \cup index)),
                                          !.owed = IF seen < Confirmed THEN @ \ {p} ELSE @]
      BY <1>11 DEF Decide, folder
    <2>p. p \in Path
      BY <2>1, <1>0 DEF Resting, Pass, MaybePath
    <2>s. p \in ghost.owed => seen < Confirmed
      <3>1. p \in ghost.owed => pass[r].saw # "absent"
        BY DEF Sighted
      <3>2. absences[p].seen \in 0..Confirmed - 1
        BY <2>p, <1>0 DEF Absence
      <3> QED
        BY <3>1, <3>2 DEF Confirmed
    <2> HIDE DEF p, seen
    <2>2. CASE UNCHANGED <<tabs, removed>> /\ ghost'.owed = ghost.owed
      BY <2>1, <2>2, <1>1
    <2>3. CASE /\ removed' = removed \cup {p} /\ tabs' = Without(tabs, {p})
               /\ ghost' = [ghost EXCEPT !.gone = @ \cup ({p} \ (files \cup held \cup index)),
                                         !.owed = IF seen < Confirmed THEN @ \ {p} ELSE @]
      <3>1. ghost'.owed = IF seen < Confirmed THEN ghost.owed \ {p} ELSE ghost.owed
        BY <2>3, <1>0 DEF Ghost
      <3>2. ghost'.owed = ghost.owed \ {p}
        BY <3>1, <2>s
      <3>3. tabs'.open = tabs.open \ {p}
        BY <2>3, <1>0 DEF Without, Layout
      <3> QED
        BY <2>1, <2>3, <3>2, <3>3 DEF Standing
    <2> QED
      BY <2>1, <2>2, <2>3, <1>0 DEF Ghost
  <1>r. ASSUME NEW p \in files, NEW q \in Path, Renames(p, q), UNCHANGED <<tabs, removed>> PROVE Standing'
    <2>1. files' = (files \ {p}) \cup {q} /\ held' = held /\ ghost'.owed = ghost.owed \ {p}
      BY <1>r, <1>0 DEF Renames, Ghost
    <2> QED
      BY <2>1, <1>r DEF Standing
  <1>12. ASSUME NEW u \in User, MoveNote(u) PROVE Standing'
    BY <1>12, <1>r DEF MoveNote
  <1>13. CASE ExtMove
    BY <1>13, <1>r DEF ExtMove, Outside
  <1>14. ASSUME NEW p \in files, files' = files \ {p}, Keep({p}), UNCHANGED <<tabs, removed, held>> PROVE Standing'
    BY <1>14, <1>k DEF Standing
  <1>15. ASSUME NEW u \in User, TrashNote(u) PROVE Standing'
    BY <1>15, <1>14 DEF TrashNote
  <1>16. CASE ExtRemove
    BY <1>16, <1>14 DEF ExtRemove, Outside
  <1>17. CASE ExtCreate \/ Release \/ Hold
    <2>1. files \cup held \subseteq files' \cup held' /\ UNCHANGED <<tabs, removed>>
      BY <1>17 DEF ExtCreate, Release, Hold, Outside
    <2>2. ghost'.owed \subseteq ghost.owed
      BY <1>0, <1>17, OwedLess
    <2> QED
      BY <2>1, <2>2 DEF Standing
  <1>18. CASE Restart
    <2>1. /\ files' = files \cup held /\ removed' = {} /\ tabs' = stored
          /\ ghost'.owed = IF Saved /\ ~ghost.blind /\ ~ghost.failed THEN ghost.owed ELSE {}
      BY <1>18 DEF Restart
    <2> QED
      BY <2>1 DEF Standing, StoreAgrees
  <1>19. CASE UNCHANGED vars
    BY <1>19, <1>1 DEF vars
  <1> QED
    BY <1>3, <1>4, <1>5, <1>6, <1>7, <1>8, <1>9, <1>10, <1>11, <1>12, <1>13, <1>15, <1>16,
      <1>17, <1>18, <1>19, <1>e, <1>w
    DEF Next, Operations, Continuations, Settling, Publishing, Accepting, Others

\* An owed file has not moved, and no operation is moving it.
LEMMA UntoldKept == Sound /\ Standing /\ Untold /\ [Next]_vars => Untold'
  <1> SUFFICES ASSUME Sound, Standing, Untold, [Next]_vars PROVE Untold'
    OBVIOUS
  <1> USE Apart
  <1>0. /\ TypeOK /\ ghost \in Ghost /\ op \in [User -> Op] /\ files \subseteq Path /\ held \subseteq Path \ files
        /\ moved \in [from : Path, to : Path] \cup {NoMove}
    BY DEF Sound, TypeOK
  <1>g. ghost.owed \subseteq Path /\ NoPath \notin ghost.owed
    BY <1>0 DEF Ghost
  <1> DEFINE Idler == \A u \in User : op'[u].pc = "moving" => op[u].pc = "moving" /\ op'[u].from = op[u].from
  <1>1. ASSUME ghost'.owed \subseteq ghost.owed, moved' = moved \/ moved' = NoMove, Idler PROVE Untold'
    BY <1>1, <1>g DEF Untold, NoMove
  <1>e. ASSUME NEW u \in User,
               \/ \E x : op' = [op EXCEPT ![u] = x] /\ x.pc # "moving"
               \/ \E x : op' = [op EXCEPT ![u].pc = x] /\ x # "moving"
        PROVE  Idler
    <2>1. CASE \E x : op' = [op EXCEPT ![u] = x] /\ x.pc # "moving"
      BY <2>1, <1>0
    <2>2. CASE \E x : op' = [op EXCEPT ![u].pc = x] /\ x # "moving"
      <3>1. PICK x : op' = [op EXCEPT ![u].pc = x] /\ x # "moving"
        BY <2>2
      <3>2. op'[u].pc = x
        BY <3>1, <1>0 DEF Op
      <3>3. \A v \in User : v # u => op'[v] = op[v]
        BY <3>1, <1>0
      <3> QED
        BY <3>1, <3>2, <3>3
    <2> QED
      BY <1>e, <2>1, <2>2
  <1>i. op' = op => Idler
    OBVIOUS
  <1> HIDE DEF Idler
  <1>3. ASSUME NEW u \in User,
               \/ Select(u) \/ CloseTab(u) \/ Arrange(u) \/ OpenTab(u) \/ UserRefused(u)
               \/ OpenUnread(u) \/ Repaired(u) \/ NoteUnread(u) \/ Reconciled(u)
        PROVE  Untold'
    <2>1. ghost'.owed \subseteq ghost.owed
      BY <1>0, <1>3, OwedLess
    <2>2. moved' = moved
      BY <1>3 DEF Select, CloseTab, Arrange, OpenTab, UserRefused, OpenUnread, Repaired, NoteUnread, Reconciled,
        Unmoved, folder
    <2>3. Idler
      <3>1. CASE CloseTab(u) \/ Arrange(u) \/ OpenTab(u)
        <4>1. \E s, p : Adopt(u, s, p)
          BY <3>1 DEF CloseTab, Arrange, OpenTab
        <4>2. \/ op' = [op EXCEPT ![u].pc = "publishing"]
              \/ \E p : op' = [op EXCEPT ![u] = [pc |-> "saving", from |-> NoPath, to |-> p]]
          BY <4>1 DEF Adopt
        <4>3. "publishing" # "moving" /\ \A p : [pc |-> "saving", from |-> NoPath, to |-> p].pc # "moving"
          OBVIOUS
        <4> QED
          BY <4>2, <4>3, <1>e, Zenon
      <3>2. CASE Select(u)
        <4>1. \E p : op' = [op EXCEPT ![u] = [pc |-> "opening", from |-> NoPath, to |-> p]]
          BY <3>2 DEF Select
        <4>2. \A p : [pc |-> "opening", from |-> NoPath, to |-> p].pc # "moving"
          OBVIOUS
        <4> QED
          BY <4>1, <4>2, <1>e, Zenon
      <3>3. CASE UserRefused(u)
        <4>1. op' = [op EXCEPT ![u] = NoOp] \/ op' = [op EXCEPT ![u] = [NoOp EXCEPT !.pc = "repairing"]]
          BY <3>3 DEF UserRefused
        <4>2. NoOp.pc # "moving" /\ [NoOp EXCEPT !.pc = "repairing"].pc # "moving"
          BY DEF NoOp
        <4> QED
          BY <4>1, <4>2, <1>e, Zenon
      <3>4. CASE OpenUnread(u) \/ NoteUnread(u)
        <4>1. op' = [op EXCEPT ![u] = NoOp] /\ NoOp.pc = "idle"
          BY <3>4 DEF OpenUnread, NoteUnread, NoOp
        <4> QED
          BY <4>1, <1>e
      <3>5. CASE Repaired(u) \/ Reconciled(u)
        <4>1. op' = [op EXCEPT ![u].pc = "publishing"]
          BY <3>5 DEF Repaired, Reconciled
        <4>2. "publishing" # "moving"
          OBVIOUS
        <4> QED
          BY <4>1, <4>2, <1>e, Zenon
      <3> QED
        BY <1>3, <3>1, <3>2, <3>3, <3>4, <3>5
    <2> QED
      BY <2>1, <2>2, <2>3, <1>1
  <1>4. CASE Land \/ SaveFails \/ TailRun \/ TailAnswered \/ AcceptRebuild \/ WakeFires \/ Elapse
    <2>1. op' = op /\ (moved' = moved \/ moved' = NoMove)
      BY <1>4 DEF Land, SaveFails, TailRun, TailAnswered, AcceptRebuild, Batch, WakeFires, Elapse, folder
    <2>2. ghost'.owed \subseteq ghost.owed
      BY <1>0, <1>4, OwedLess
    <2> QED
      BY <2>1, <2>2, <1>i, <1>1
  <1>5. ASSUME NEW r \in Passes, Consider(r) \/ Look(r) \/ Decide(r) \/ Settled(r) \/ PassSaved(r) PROVE Untold'
    <2>1. op' = op /\ moved' = moved
      BY <1>5 DEF Consider, Look, Decide, Settled, PassSaved, folder
    <2>2. ghost'.owed \subseteq ghost.owed
      BY <1>0, <1>5, OwedLess
    <2> QED
      BY <2>1, <2>2, <1>i, <1>1
  <1>6. ASSUME NEW w \in Readers, Capture(w) \/ Present(w) \/ Refresh(w) PROVE Untold'
    <2>1. moved' = moved /\ (op' = op \/ Ends(w))
      BY <1>6 DEF Capture, Present, Refresh, Retry, folder
    <2>2. ghost'.owed \subseteq ghost.owed
      BY <1>0, <1>6, OwedLess
    <2>3. Idler
      <3>1. ASSUME Ends(w) PROVE Idler
        BY <3>1 DEF Ends, NoOp, Idler
      <3> QED
        BY <2>1, <3>1, <1>i
    <2> QED
      BY <2>1, <2>2, <2>3, <1>1
  \* Steps that make an owed tab of a certain file.
  <1>c. ASSUME NEW p, Certain(p)
        PROVE  p # moved.from /\ p # NoPath /\ \A u \in User : op[u].pc = "moving" => op[u].from # p
    BY <1>c, <1>0 DEF Certain
  <1>2. ASSUME \A p \in ghost'.owed : p \in ghost.owed \/ Certain(p), moved' = moved \/ moved' = NoMove, Idler
        PROVE  Untold'
    <2>1. \A p \in ghost'.owed : p # moved.from /\ p # NoPath
      BY <1>2, <1>c, <1>g DEF Untold
    <2>2. \A p \in ghost'.owed, u \in User : op[u].pc = "moving" => op[u].from # p
      BY <1>2, <1>c DEF Untold
    <2> QED
      BY <2>1, <2>2, <1>2 DEF Untold, Idler, NoMove
  <1>7. ASSUME NEW u \in User, UserSaved(u) PROVE Untold'
    <2>1. moved' = moved /\ \E x \in {"publishing", "repairing"} : op' = [op EXCEPT ![u] = [NoOp EXCEPT !.pc = x]]
      BY <1>7 DEF UserSaved, folder
    <2>2. \A x : [NoOp EXCEPT !.pc = x].pc = x
      BY DEF NoOp
    <2>3. Idler
      BY <2>1, <2>2, <1>e
    <2>4. \A p \in ghost'.owed : p \in ghost.owed \/ Certain(p)
      BY <1>7, <1>0, OwedMore
    <2> QED
      BY <2>1, <2>3, <2>4, <1>2
  <1>8. ASSUME NEW u \in User, FinishMove(u) PROVE Untold'
    <2>1. /\ moved' = moved \/ moved' = NoMove
          /\ \E x \in {"publishing", "reconciling"} : op' = [op EXCEPT ![u].pc = x]
      BY <1>8 DEF FinishMove, Integrate
    <2>2. Idler
      BY <2>1, <1>e
    <2>3. \A p \in ghost'.owed : p \in ghost.owed \/ Certain(p)
      BY <1>8, <1>0, OwedMore
    <2> QED
      BY <2>1, <2>2, <2>3, <1>2
  <1>f. ASSUME NEW u \in User, FinishWrite(u) PROVE Untold'
    <2>1. moved' = moved /\ \E x \in {"publishing", "reconciling"} : op' = [op EXCEPT ![u].pc = x]
      BY <1>f, <1>0, Written
    <2>2. Idler
      BY <2>1, <1>e
    <2>3. \A p \in ghost'.owed : p \in ghost.owed \/ Certain(p)
      BY <1>f, <1>0, OwedMore
    <2> QED
      BY <2>1, <2>2, <2>3, <1>2
  <1>w. ASSUME NEW u \in User, WriteNote(u) PROVE Untold'
    <2>1. PICK p, o : op' = [op EXCEPT ![u] = [pc |-> "writing", from |-> o, to |-> p]]
      BY <1>w DEF WriteNote
    <2>2. moved' = moved \/ moved' = NoMove
      BY <1>w DEF WriteNote
    <2>3. [pc |-> "writing", from |-> o, to |-> p].pc # "moving"
      OBVIOUS
    <2>4. Idler
      BY <2>1, <2>3, <1>e, Zenon
    <2>5. ghost'.owed \subseteq ghost.owed
      BY <1>w, <1>0, OwedLess
    <2> QED
      BY <2>2, <2>4, <2>5, <1>1
  <1>9. CASE AcceptChanges
    <2>1. moved' = NoMove /\ op' = op
      BY <1>9 DEF AcceptChanges, Batch
    <2>2. \A p \in ghost'.owed : p \in ghost.owed \/ Certain(p)
      BY <1>9, <1>0, OwedMore
    <2> QED
      BY <2>1, <2>2, <1>i, <1>2
  <1>10. ASSUME NEW u \in User, MoveNote(u) PROVE Untold'
    <2>1. PICK p \in files, q \in Path \ (files \cup held) :
            Renames(p, q) /\ op' = [op EXCEPT ![u] = [pc |-> "moving", from |-> p, to |-> q]]
      BY <1>10 DEF MoveNote
    <2>2. moved'.from = p /\ ghost'.owed = ghost.owed \ {p}
      BY <2>1, <1>0 DEF Renames, Ghost
    <2>3. op'[u].from = p /\ \A v \in User : v # u => op'[v] = op[v]
      BY <2>1, <1>0
    <2> QED
      BY <2>2, <2>3 DEF Untold
  <1>11. ASSUME NEW u \in User, TrashNote(u) PROVE Untold'
    <2>1. PICK p \in files : Keep({p}) /\ op' = [op EXCEPT ![u] = [pc |-> "moving", from |-> p, to |-> NoPath]]
      BY <1>11 DEF TrashNote
    <2>2. moved' = moved /\ ghost'.owed = ghost.owed \ {p}
      BY <1>11, <2>1, <1>0 DEF TrashNote, Keep, Ghost
    <2>3. op'[u].from = p /\ \A v \in User : v # u => op'[v] = op[v]
      BY <2>1, <1>0
    <2> QED
      BY <2>2, <2>3 DEF Untold
  <1>12. CASE ExtMove
    <2>1. PICK p \in files, q \in Path \ (files \cup held) : Renames(p, q)
      BY <1>12 DEF ExtMove
    <2>2. moved'.from = p /\ ghost'.owed = ghost.owed \ {p} /\ op' = op
      BY <1>12, <2>1, <1>0 DEF ExtMove, Outside, Renames, Ghost
    <2> QED
      BY <2>2 DEF Untold
  <1>13. CASE ExtRemove \/ ExtCreate \/ Hold \/ Release
    <2>1. op' = op /\ (moved' = moved \/ moved' = NoMove)
      BY <1>13 DEF ExtRemove, ExtCreate, Hold, Release, Outside
    <2>2. ghost'.owed \subseteq ghost.owed
      BY <1>0, <1>13, OwedLess
    <2> QED
      BY <2>1, <2>2, <1>i, <1>1
  <1>14. CASE Restart
    <2>1. moved' = NoMove /\ \A u \in User : op'[u].pc = "idle"
      BY <1>14 DEF Restart, NoOp
    <2>2. ghost'.owed \subseteq ghost.owed
      BY <1>0, <1>14, OwedLess
    <2> QED
      BY <2>1, <2>2, <1>1 DEF Idler
  <1>15. CASE UNCHANGED vars
    BY <1>15, <1>i, <1>1 DEF vars
  <1> QED
    BY <1>3, <1>4, <1>5, <1>6, <1>7, <1>8, <1>9, <1>10, <1>11, <1>12, <1>13, <1>14, <1>15, <1>f, <1>w
    DEF Next, Operations, Continuations, Settling, Publishing, Accepting, Others

\* No look at an owed file misses it.
LEMMA SightedKept == Sound /\ Standing /\ Sighted /\ [Next]_vars => Sighted'
  <1> SUFFICES ASSUME Sound, Standing, Sighted, [Next]_vars PROVE Sighted'
    OBVIOUS
  <1> USE Apart
  <1>0. /\ TypeOK /\ ghost \in Ghost /\ files \subseteq Path /\ held \subseteq Path \ files /\ Resting
        /\ pass \in [Passes -> Pass] /\ tabs \in Layout
    BY DEF Sound, TypeOK
  <1>g. ghost.owed \subseteq Path /\ NoPath \notin ghost.owed
    BY <1>0 DEF Ghost
  <1> DEFINE Same == \A r \in Passes :
               pass'[r].at = NoPath \/ (pass'[r].at = pass[r].at /\ pass'[r].saw = pass[r].saw)
  <1>1. ASSUME ghost'.owed \subseteq ghost.owed, files \cap ghost'.owed \subseteq files', Same PROVE Sighted'
    BY <1>1, <1>g DEF Sighted
  <1>2. pass' = pass => Same
    OBVIOUS
  <1>n. ASSUME NEW r \in Passes, NEW x, x.at = NoPath, pass' = [pass EXCEPT ![r] = x] PROVE Same
    BY <1>n, <1>0
  <1>p. NoPass.at = NoPath
    BY DEF NoPass
  <1>s. ASSUME NEW r \in Passes, NEW known, NEW changed, pass' = Start(r, known, changed) PROVE Same
    <2>1. pass' = [pass EXCEPT ![r] = Start(r, known, changed)[r]] /\ Start(r, known, changed)[r].at = NoPath
      BY <1>s, <1>0 DEF Start, NoPass
    <2> QED
      BY <2>1, <1>n
  <1>o. ASSUME NEW P \in SUBSET Path, pass' = [r \in Passes |-> Outdated(P, pass[r])] PROVE Same
    <2>1. \A r \in Passes : pass'[r].at = pass[r].at /\ pass'[r].saw = pass[r].saw
      BY <1>o, <1>0, Operators
    <2> QED
      BY <2>1
  <1>3. ASSUME NEW u \in User,
               \/ Select(u) \/ CloseTab(u) \/ Arrange(u) \/ OpenTab(u) \/ UserRefused(u)
               \/ OpenUnread(u) \/ Repaired(u) \/ NoteUnread(u) \/ Reconciled(u)
        PROVE  Sighted'
    <2>1. ghost'.owed \subseteq ghost.owed
      BY <1>0, <1>3, OwedLess
    <2>2. files' = files /\ pass' = pass
      BY <1>3 DEF Select, CloseTab, Arrange, OpenTab, UserRefused, OpenUnread, Repaired, NoteUnread, Reconciled,
        Unmoved, folder
    <2> QED
      BY <2>1, <2>2, <1>1, <1>2
  <1>4. CASE Land \/ SaveFails \/ TailRun \/ TailAnswered \/ Elapse
    <2>1. files' = files /\ pass' = pass
      BY <1>4 DEF Land, SaveFails, TailRun, TailAnswered, Elapse, folder
    <2>2. ghost'.owed \subseteq ghost.owed
      BY <1>0, <1>4, OwedLess
    <2> QED
      BY <2>1, <2>2, <1>1, <1>2
  <1>5. CASE AcceptRebuild \/ WakeFires
    <2>1. files' = files /\ \E r \in Passes : pass' = Start(r, absences, FALSE)
      <3>1. CASE AcceptRebuild
        BY <3>1 DEF AcceptRebuild, Batch, Passes
      <3>2. CASE WakeFires
        <4>1. \E r \in Timers : pass' = Start(r, absences, FALSE)
          BY <3>2, TimerStarts
        <4> QED
          BY <3>2, <4>1 DEF WakeFires, folder, Passes
      <3> QED
        BY <1>5, <3>1, <3>2
    <2>2. ghost'.owed \subseteq ghost.owed
      BY <1>0, <1>5, OwedLess
    <2>3. Same
      BY <2>1, <1>s
    <2> HIDE DEF Same
    <2> QED
      BY <2>1, <2>2, <2>3, <1>1
  <1>6. ASSUME NEW w \in Readers, Capture(w) \/ Present(w) \/ Refresh(w) PROVE Sighted'
    <2>1. files' = files /\ (pass' = pass \/ pass' = [r \in Passes |-> Outdated(tabs.open \cap index, pass[r])])
      BY <1>6 DEF Capture, Present, Refresh, folder
    <2>2. ghost'.owed \subseteq ghost.owed
      BY <1>0, <1>6, OwedLess
    <2>3. tabs.open \cap index \in SUBSET Path
      BY <1>0 DEF Layout
    <2> QED
      BY <2>1, <2>2, <2>3, <1>o, <1>1, <1>2
  <1>7. ASSUME NEW r \in Passes, Consider(r) PROVE Sighted'
    <2>1. UNCHANGED <<files, ghost>> /\ pass[r].pc = "running" /\ pass[r].at = NoPath
      BY <1>7 DEF Consider, folder, rest
    <2>2. PICK p \in pass[r].todo :
            \/ Forget({p})
            \/ pass' = [pass EXCEPT ![r].todo = @ \ {p}]
            \/ /\ p \notin held
               /\ pass' = [[pass EXCEPT ![r].todo = @ \ {p}] EXCEPT ![r].at = p, ![r].saw = "none", ![r].live = TRUE]
      BY <1>7, Zenon DEF Consider
    <2>p. p \in Path
      BY <1>0 DEF Pass
    <2>3. CASE Forget({p})
      <3>1. {p} \in SUBSET Path /\ pass' = [q \in Passes |-> Outdated({p}, pass[q])]
        BY <2>3, <2>p DEF Forget
      <3> QED
        BY <3>1, <2>1, <1>o, <1>1
    <2>4. CASE pass' = [pass EXCEPT ![r].todo = @ \ {p}]
      <3>1. Same
        BY <2>4, <1>0 DEF Pass
      <3> QED
        BY <3>1, <2>1, <1>1
    <2>5. CASE /\ p \notin held
               /\ pass' = [[pass EXCEPT ![r].todo = @ \ {p}] EXCEPT ![r].at = p, ![r].saw = "none", ![r].live = TRUE]
      <3>1. pass'[r].at = p /\ pass'[r].saw = "none" /\ \A q \in Passes : q # r => pass'[q] = pass[q]
        BY <2>5, <1>0 DEF Pass
      <3>2. p \in ghost.owed => p \in files
        BY <2>5 DEF Standing
      <3> QED
        BY <3>1, <3>2, <2>1 DEF Sighted
    <2> QED
      BY <2>2, <2>3, <2>4, <2>5
  <1>8. ASSUME NEW r \in Passes, Look(r) PROVE Sighted'
    <2>1. UNCHANGED <<files, ghost>> /\ pass[r].saw = "none"
      BY <1>8 DEF Look, folder
    <2>2. PICK x \in {"present", "absent", "unknown"} :
            pass' = [pass EXCEPT ![r].saw = x] /\ (x = "absent" => pass[r].at \notin files)
      BY <1>8 DEF Look
    <2>3. pass'[r].at = pass[r].at /\ pass'[r].saw = x /\ \A q \in Passes : q # r => pass'[q] = pass[q]
      BY <2>2, <1>0 DEF Pass
    <2> QED
      BY <2>1, <2>2, <2>3 DEF Sighted
  <1>9. ASSUME NEW r \in Passes, Decide(r) PROVE Sighted'
    <2>1. Decided(r)
      BY <1>9, PassSteps DEF Sound
    <2>2. files' = files
      BY <1>9 DEF Decide, folder
    <2>3. ghost'.owed \subseteq ghost.owed
      BY <1>0, <1>9, OwedLess
    <2>4. Same
      BY <2>1 DEF Decided
    <2> QED
      BY <2>2, <2>3, <2>4, <1>1
  <1>10. ASSUME NEW r \in Passes, Settled(r) \/ PassSaved(r) PROVE Sighted'
    <2>1. UNCHANGED <<files, ghost>>
      BY <1>10 DEF Settled, PassSaved, folder, rest
    <2>2. pass' = [pass EXCEPT ![r] = NoPass] \/ pass' = [pass EXCEPT ![r].pc = "saving"]
      BY <1>10 DEF Settled, PassSaved
    <2>3. CASE pass' = [pass EXCEPT ![r] = NoPass]
      BY <2>1, <2>3, <1>n, <1>p, <1>1
    <2>4. CASE pass' = [pass EXCEPT ![r].pc = "saving"]
      <3>1. Same
        BY <2>4, <1>0 DEF Pass
      <3> QED
        BY <3>1, <2>1, <1>1
    <2> QED
      BY <2>2, <2>3, <2>4
  <1>11. ASSUME \A p \in ghost'.owed : p \in ghost.owed \/ Certain(p), files' = files, Same PROVE Sighted'
    <2>1. \A p \in ghost'.owed, r \in Passes : p \in ghost.owed \/ pass[r].at # p
      BY <1>11 DEF Certain
    <2>2. \A p \in ghost'.owed : p # NoPath
      BY <1>11, <1>0, <1>g DEF Certain
    <2> QED
      BY <2>1, <2>2, <1>11 DEF Sighted
  <1>12. ASSUME NEW u \in User, UserSaved(u) \/ FinishMove(u) \/ FinishWrite(u) PROVE Sighted'
    <2>1. files' = files /\ pass' = pass
      BY <1>12 DEF UserSaved, FinishMove, FinishWrite, folder
    <2>2. \A p \in ghost'.owed : p \in ghost.owed \/ Certain(p)
      BY <1>12, <1>0, OwedMore
    <2> QED
      BY <2>1, <2>2, <1>2, <1>11
  <1>13. CASE AcceptChanges
    <2>1. files' = files /\ "batch" \in Passes /\ pass' = Start("batch", absences', tabs' # tabs)
      BY <1>13 DEF AcceptChanges, Batch, Passes
    <2>2. \A p \in ghost'.owed : p \in ghost.owed \/ Certain(p)
      BY <1>13, <1>0, OwedMore
    <2>3. Same
      BY <2>1, <1>s
    <2> HIDE DEF Same
    <2> QED
      BY <2>1, <2>2, <2>3, <1>11
  <1>r. \A p, q : Renames(p, q) => files \cap ghost'.owed \subseteq files' /\ ghost'.owed \subseteq ghost.owed
    BY <1>0 DEF Renames, Ghost
  <1>14. ASSUME NEW u \in User, MoveNote(u) \/ TrashNote(u) \/ WriteNote(u) PROVE Sighted'
    <2>1. pass' = pass
      BY <1>14 DEF MoveNote, TrashNote, WriteNote
    <2>2. files \cap ghost'.owed \subseteq files' /\ ghost'.owed \subseteq ghost.owed
      BY <1>14, <1>r, <1>0 DEF MoveNote, TrashNote, WriteNote, Keep, Ghost
    <2> QED
      BY <2>1, <2>2, <1>1, <1>2
  <1>15. CASE ExtRemove \/ ExtMove \/ ExtCreate \/ Release
    <2>1. pass' = pass
      BY <1>15 DEF ExtRemove, ExtMove, ExtCreate, Release, Outside
    <2>2. files \cap ghost'.owed \subseteq files'
      BY <1>15, <1>r, <1>0 DEF ExtRemove, ExtMove, ExtCreate, Release, Keep, Ghost
    <2>3. ghost'.owed \subseteq ghost.owed
      BY <1>0, <1>15, OwedLess
    <2> QED
      BY <2>1, <2>2, <2>3, <1>1, <1>2
  <1>16. CASE Hold
    <2>1. PICK p \in files : /\ files' = files \ {p}
                             /\ IF \E r \in Passes : pass[r].at = p /\ pass[r].saw = "none"
                                THEN Keep({p}) ELSE UNCHANGED ghost
      BY <1>16 DEF Hold
    <2>2. pass' = pass
      BY <1>16 DEF Hold, Outside
    <2>3. ghost'.owed \subseteq ghost.owed
      BY <1>0, <1>16, OwedLess
    <2>4. p \in ghost'.owed => ~ \E r \in Passes : pass[r].at = p /\ pass[r].saw = "none"
      BY <2>1, <1>0 DEF Keep, Ghost
    <2> QED
      BY <2>1, <2>2, <2>3, <2>4 DEF Sighted
  <1>17. CASE Restart
    <2>1. (\A r \in Passes : pass'[r].at = NoPath) /\ files \subseteq files'
      BY <1>17 DEF Restart, NoPass
    <2>2. ghost'.owed \subseteq ghost.owed
      BY <1>0, <1>17, OwedLess
    <2> QED
      BY <2>1, <2>2, <1>1
  <1>18. CASE UNCHANGED vars
    BY <1>18, <1>1, <1>2 DEF vars
  <1> QED
    BY <1>3, <1>4, <1>5, <1>6, <1>7, <1>8, <1>9, <1>10, <1>12, <1>13, <1>14, <1>15, <1>16, <1>17, <1>18
    DEF Next, Operations, Continuations, Settling, Publishing, Accepting, Others

\* Every copy that the store would accept has the tabs that are owed.
LEMMA CopiedKept ==
  Sound /\ Compared /\ Compared' /\ Standing /\ Copied /\ [Next]_vars => Copied'
  <1> SUFFICES ASSUME Sound, Compared, Compared', Standing, Copied, [Next]_vars PROVE Copied'
    OBVIOUS
  <1> USE Apart
  <1>0. /\ TypeOK /\ Queued /\ ghost \in Ghost /\ queue \in Seq(Savers) /\ save \in [Savers -> Save] /\ tabs \in Layout
    BY DEF Sound, TypeOK
  <1>a. User \subseteq Savers /\ "tail" \in Savers /\ "tail" \notin User
    BY DEF Savers
  <1>b. \A i \in DOMAIN queue : queue[i] \in Savers /\ save[queue[i]].phase = "queued"
    BY <1>0 DEF Queued
  <1>1. ASSUME ghost'.owed \subseteq ghost.owed, ghost.blind => ghost'.blind, stored' = stored,
               \A u \in User : \/ save'[u] = save[u]
                               \/ ghost'.owed \subseteq save'[u].state.open
                               \/ save'[u].phase \notin {"queued", "ok"}
        PROVE  Copied'
    BY <1>1, <1>0 DEF Copied
  <1>2. ASSUME ghost'.owed \subseteq ghost.owed, ghost'.blind = ghost.blind, UNCHANGED <<stored, save>> PROVE Copied'
    BY <1>2, <1>1
  <1>3. ASSUME NEW u \in User,
               \/ Select(u) \/ MoveNote(u) \/ TrashNote(u) \/ WriteNote(u) \/ OpenUnread(u) \/ Repaired(u)
               \/ NoteUnread(u) \/ Reconciled(u)
         PROVE  Copied'
    <2>1. UNCHANGED <<stored, save>>
      BY <1>3 DEF Select, MoveNote, TrashNote, WriteNote, OpenUnread, Repaired, NoteUnread, Reconciled, Unmoved, store
    <2>2. ghost'.blind = ghost.blind
      BY <1>3, <1>0 DEF Select, MoveNote, TrashNote, WriteNote, OpenUnread, Repaired, NoteUnread, Reconciled,
        Renames, Keep, rest, Ghost
    <2>3. ghost'.owed \subseteq ghost.owed
      BY <1>0, <1>3, OwedLess
    <2> QED
      BY <2>1, <2>2, <2>3, <1>2
  <1>4. ASSUME NEW w \in Readers, Capture(w) \/ Present(w) \/ Refresh(w) PROVE Copied'
    <2>1. UNCHANGED <<stored, save>>
      BY <1>4 DEF Present, Refresh, Capture, store
    <2>2. ghost'.blind = ghost.blind
      BY <1>4, <1>0 DEF Present, Refresh, Capture, Retry, rest, Ghost
    <2>3. ghost'.owed \subseteq ghost.owed
      BY <1>0, <1>4, OwedLess
    <2> QED
      BY <2>1, <2>2, <2>3, <1>2
  <1>5. ASSUME NEW r \in Passes, Consider(r) \/ Look(r) \/ Decide(r) \/ Settled(r) \/ PassSaved(r) PROVE Copied'
    <2>1. UNCHANGED <<stored, save>>
      BY <1>5 DEF Consider, Look, Decide, Settled, PassSaved, store
    <2>2. ghost'.blind = ghost.blind
      BY <1>5, <1>0 DEF Consider, Look, Decide, Settled, PassSaved, rest, Ghost
    <2>3. ghost'.owed \subseteq ghost.owed
      BY <1>0, <1>5, OwedLess
    <2> QED
      BY <2>1, <2>2, <2>3, <1>2
  <1>6. CASE AcceptRebuild \/ WakeFires \/ Elapse
    <2>1. UNCHANGED <<stored, save, ghost>>
      BY <1>6 DEF AcceptRebuild, Batch, WakeFires, Elapse, store, rest
    <2> QED
      BY <2>1, <1>2
  <1>7. CASE ExtRemove \/ ExtCreate \/ ExtMove \/ Hold \/ Release
    <2>1. UNCHANGED <<stored, save>>
      BY <1>7 DEF ExtRemove, ExtCreate, ExtMove, Hold, Release, Outside, store
    <2>2. ghost'.blind = ghost.blind
      BY <1>7, <1>0 DEF ExtRemove, ExtCreate, ExtMove, Hold, Release, Renames, Keep, Ghost
    <2>3. ghost'.owed \subseteq ghost.owed
      BY <1>0, <1>7, OwedLess
    <2> QED
      BY <2>1, <2>2, <2>3, <1>2
  <1>8. CASE Restart
    BY <1>8 DEF Restart, Copied, NoSave, Savers
  \* A call copies the layout; only the tab that is being closed is not in it.
  <1>9. ASSUME NEW u \in User, CloseTab(u) \/ Arrange(u) \/ OpenTab(u) PROVE Copied'
    <2>1. stored' = stored
      BY <1>9 DEF CloseTab, Arrange, OpenTab, Unmoved
    <2>2. ghost'.blind = ghost.blind
      BY <1>9, <1>0 DEF CloseTab, Arrange, OpenTab, Keep, rest, Ghost
    <2>3. ghost'.owed \subseteq ghost.owed
      BY <1>0, <1>9, OwedLess
    <2>4. \E s : /\ ghost'.owed \subseteq s.open
                 /\ UNCHANGED save \/ Call(u, s)
      <3>1. CASE CloseTab(u)
        <4>1. PICK p \in tabs.open : Adopt(u, Without(tabs, {p}), NoPath) /\ Keep({p})
          BY <3>1 DEF CloseTab
        <4>2. ghost'.owed = ghost.owed \ {p} /\ Without(tabs, {p}).open = tabs.open \ {p}
          BY <4>1, <1>0 DEF Keep, Ghost, Without, Layout
        <4>3. ghost'.owed \subseteq Without(tabs, {p}).open
          BY <4>2 DEF Standing
        <4>4. UNCHANGED save \/ Call(u, Without(tabs, {p}))
          BY <4>1 DEF Adopt
        <4> QED
          BY <4>3, <4>4, Zenon
      <3>2. CASE Arrange(u)
        <4> DEFINE s == [tabs EXCEPT !.look = ~@]
        <4>1. s.open = tabs.open /\ (UNCHANGED save \/ Call(u, s))
          BY <3>2, <1>0 DEF Arrange, Adopt, Layout
        <4>2. ghost'.owed \subseteq s.open
          BY <4>1, <2>3 DEF Standing
        <4> HIDE DEF s
        <4> QED
          BY <4>1, <4>2, Zenon
      <3>3. CASE OpenTab(u)
        <4>1. PICK look \in BOOLEAN : Adopt(u, [open |-> tabs.open \cup {op[u].to}, look |-> look], op[u].to)
          BY <3>3 DEF OpenTab
        <4> DEFINE s == [open |-> tabs.open \cup {op[u].to}, look |-> look]
        <4>2. UNCHANGED save \/ Call(u, s)
          BY <4>1 DEF Adopt
        <4>3. ghost'.owed \subseteq s.open
          BY <2>3 DEF Standing
        <4> HIDE DEF s
        <4> QED
          BY <4>2, <4>3, Zenon
      <3> QED
        BY <1>9, <3>1, <3>2, <3>3
    <2>5. PICK s : ghost'.owed \subseteq s.open /\ (UNCHANGED save \/ Call(u, s))
      BY <2>4
    <2>6. CASE Call(u, s)
      <3>1. save'[u].state = s /\ \A v \in Savers : v # u => save'[v] = save[v]
        BY <2>6, <1>0, <1>a DEF Call
      <3> QED
        BY <3>1, <2>1, <2>2, <2>3, <2>5, <1>1, <1>a
    <2> QED
      BY <2>1, <2>2, <2>3, <2>5, <2>6, <1>2
  \* A layout that lands makes all other copies differ from what they expect.
  <1>10. CASE Land
    <2> DEFINE w == queue[1]
               agrees == stored = save[w].expected
    <2>1. /\ 1 \in DOMAIN queue /\ Head(queue) = w /\ DOMAIN queue' = 1..Len(queue) - 1 /\ Len(queue) \in Nat
          /\ \A i \in DOMAIN queue' : queue'[i] = queue[i + 1]
          /\ DOMAIN queue = 1..Len(queue)
      BY <1>10, <1>0 DEF Land
    <2>2. /\ stored' = (IF agrees THEN save[w].state ELSE stored)
          /\ save' = [save EXCEPT ![w].phase = IF agrees THEN "ok" ELSE "no"]
          /\ ghost' = [ghost EXCEPT !.blind = @ \/ save[w].state = stored]
      BY <1>10, <2>1 DEF Land
    <2>3. ghost'.owed = ghost.owed /\ (~ghost'.blind => ~ghost.blind)
      BY <2>2, <1>0 DEF Ghost
    <2>4. /\ w \in Savers /\ save[w].phase = "queued" /\ save'[w].phase = (IF agrees THEN "ok" ELSE "no")
          /\ save'[w].state = save[w].state /\ \A v \in Savers : v # w => save'[v] = save[v]
      <3> HIDE DEF agrees
      <3> QED
        BY <1>0, <1>b, <2>1, <2>2 DEF Save
    <2>5. SUFFICES ASSUME ~ghost'.blind, NEW u \in User,
                          save'[u].phase = "ok" \/ (save'[u].phase = "queued" /\ save'[u].expected = stored')
                   PROVE  ghost.owed \subseteq save'[u].state.open
      BY <2>3 DEF Copied
    <2>6. CASE ~agrees
      BY <2>2, <2>3, <2>4, <2>5, <2>6, <1>a DEF Copied
    <2>7. CASE agrees /\ u = w
      BY <2>2, <2>3, <2>4, <2>5, <2>7 DEF Copied
    <2>8. CASE agrees /\ u # w
      <3>1. w \in Answered'
        BY <2>4, <2>8 DEF Answered
      <3>2. Answered' = {w} /\ \A i \in DOMAIN queue' : Expects(i)' # stored'
        BY <3>1, <2>5 DEF Compared
      <3>3. save'[u].phase # "ok"
        BY <3>2, <2>8, <1>a DEF Answered
      <3>4. save[u].phase = "queued" /\ save'[u] = save[u]
        BY <3>3, <2>4, <2>5, <2>8, <1>a
      <3>5. PICK i \in DOMAIN queue : queue[i] = u
        BY <3>4, <1>0, <1>a DEF Queued
      <3>6. i - 1 \in DOMAIN queue' /\ queue'[i - 1] = u
        <4>1. i # 1 /\ i \in 1..Len(queue)
          BY <3>5, <2>8, <2>1
        <4>2. i - 1 \in DOMAIN queue' /\ (i - 1) + 1 = i
          BY <4>1, <2>1
        <4> QED
          BY <4>2, <3>5, <2>1
      <3> QED
        BY <3>2, <3>3, <3>6, <2>5 DEF Expects
    <2> QED
      BY <2>6, <2>7, <2>8
  <1>11. CASE SaveFails
    <2> DEFINE w == queue[1]
    <2>1. 1 \in DOMAIN queue /\ Head(queue) = w
      BY <1>11, <1>0 DEF SaveFails
    <2>2. /\ save' = [save EXCEPT ![w].phase = "no"] /\ stored' = stored
          /\ ghost'.owed = ghost.owed /\ ghost'.blind = ghost.blind
      BY <1>11, <2>1, <1>0 DEF SaveFails, Ghost
    <2>3. \A u \in Savers : save'[u] = save[u] \/ save'[u].phase = "no"
      BY <2>2, <2>1, <1>b, <1>0 DEF Save
    <2> QED
      BY <2>2, <2>3, <1>1, <1>a
  <1>12. CASE TailRun \/ TailAnswered
    <2>1. UNCHANGED <<stored, ghost>>
      BY <1>12 DEF TailRun, TailAnswered, rest
    <2>2. save' = save \/ \E x : save' = [save EXCEPT !["tail"] = x]
      BY <1>12 DEF TailRun, TailAnswered, Call
    <2>3. \A u \in User : save'[u] = save[u]
      BY <2>2, <1>0, <1>a
    <2> QED
      BY <2>1, <2>3, <1>1
  <1>13. ASSUME NEW u \in User, UserRefused(u) PROVE Copied'
    <2>1. save' = [save EXCEPT ![u] = NoSave] /\ stored' = stored
      BY <1>13 DEF UserRefused
    <2>2. ghost'.blind = ghost.blind
      BY <1>13, <1>0 DEF UserRefused, Ghost
    <2>3. ghost'.owed \subseteq ghost.owed
      BY <1>0, <1>13, OwedLess
    <2>4. \A v \in User : save'[v] = save[v] \/ save'[v].phase = "none"
      BY <2>1, <1>0, <1>a DEF NoSave
    <2> QED
      BY <2>1, <2>2, <2>3, <2>4, <1>1
  \* The tab that is opened is in the document, and in no other copy that passes.
  <1>14. ASSUME NEW u \in User, UserSaved(u) PROVE Copied'
    <2>1. save[u].phase = "ok" /\ save' = [save EXCEPT ![u] = NoSave] /\ stored' = stored
      BY <1>14 DEF UserSaved
    <2>2. ghost'.blind = ghost.blind
      BY <1>14, <1>0 DEF UserSaved, Ghost
    <2>3. ASSUME ~ghost.blind, NEW v \in User
          PROVE  ~(save[v].phase = "ok" \/ (save[v].phase = "queued" /\ save[v].expected = stored))'
      <3>1. u \in Answered
        BY <2>1, <1>a DEF Answered
      <3>2. Answered = {u} /\ \A i \in DOMAIN queue : Expects(i) # stored
        BY <3>1, <2>3 DEF Compared
      <3>3. save'[u].phase = "none" /\ (v # u => save'[v] = save[v])
        BY <2>1, <1>0, <1>a DEF NoSave
      <3>4. v # u => save[v].phase # "ok"
        BY <3>2, <1>a DEF Answered
      <3>5. save[v].phase = "queued" => save[v].expected # stored
        BY <3>2, <1>0, <1>a DEF Queued, Expects
      <3> QED
        BY <3>3, <3>4, <3>5, <2>1
    <2> QED
      BY <2>2, <2>3 DEF Copied
  \* A tab that follows its file while no copy is out, or none is owed anew.
  <1>15. ASSUME NEW q, \A p \in ghost'.owed : p \in ghost.owed \/ (p = q /\ ~Saving),
                UNCHANGED <<stored, save>>, ghost'.blind = ghost.blind
         PROVE  Copied'
    <2>1. CASE Saving
      BY <2>1, <1>15, <1>2
    <2>2. CASE ~Saving
      BY <2>2, <1>15 DEF Saving, Copied
    <2> QED
      BY <2>1, <2>2
  <1>16. ASSUME NEW u \in User, FinishMove(u) PROVE Copied'
    <2>1. UNCHANGED <<stored, save>>
      BY <1>16 DEF FinishMove, Integrate, store
    <2>2. ghost'.blind = ghost.blind
      BY <1>16, <1>0 DEF FinishMove, Integrate, Follow, Owing, Ghost
    <2>3. \A p \in ghost'.owed : p \in ghost.owed \/ (p = op[u].to /\ ~Saving)
      BY <1>16, <1>0, OwedMore
    <2> QED
      BY <2>1, <2>2, <2>3, <1>15
  <1>e. ASSUME NEW u \in User, FinishWrite(u) PROVE Copied'
    <2>1. UNCHANGED <<stored, save>>
      BY <1>e DEF FinishWrite, store
    <2>2. ghost'.blind = ghost.blind
      BY <1>e, <1>0 DEF FinishWrite, Owing, Ghost
    <2>3. \A p \in ghost'.owed : p \in ghost.owed \/ (p = op[u].to /\ ~Saving)
      BY <1>e, <1>0, OwedMore
    <2> QED
      BY <2>1, <2>2, <2>3, <1>15
  <1>17. CASE AcceptChanges
    <2>1. UNCHANGED <<stored, save>>
      BY <1>17 DEF AcceptChanges, Batch, store
    <2>2. ghost'.blind = ghost.blind
      BY <1>17, <1>0 DEF AcceptChanges, Follow, Owing, Ghost
    <2>3. \A p \in ghost'.owed : p \in ghost.owed \/ (p = moved.to /\ ~Saving)
      BY <1>17, <1>0, OwedMore
    <2> QED
      BY <2>1, <2>2, <2>3, <1>15
  <1>18. CASE UNCHANGED vars
    BY <1>18, <1>2 DEF vars
  <1> QED
    BY <1>3, <1>4, <1>5, <1>6, <1>7, <1>8, <1>9, <1>10, <1>11, <1>12, <1>13, <1>14, <1>16, <1>17, <1>18, <1>e
    DEF Next, Operations, Continuations, Settling, Publishing, Accepting, Others

\* For any notes and users, and any number of operations, batches, moves,
\* transactions, failing saves and restarts: a tab that is owed stays open, and
\* one that is gone does not come back before its file (TabsFollow).
THEOREM TabsAlwaysFollow == Spec => []TabsFollow
  <1>1. Init => Standing /\ Untold /\ Sighted /\ Copied /\ Leaving
    <2> SUFFICES ASSUME Init PROVE Standing /\ Untold /\ Sighted /\ Copied /\ Leaving
      OBVIOUS
    <2>1. PICK s \in Stories :
             /\ files = s.files /\ left = [what \in DOMAIN s \ {"tabs", "files"} |-> s[what]]
             /\ tabs = [open |-> s.tabs, look |-> FALSE]
             /\ ghost = [owed |-> s.tabs \cap s.files, gone |-> {}, blind |-> FALSE, failed |-> FALSE,
                         blink |-> FALSE, missed |-> FALSE]
      BY DEF Init
    <2>2. ghost.owed \subseteq Path /\ ghost.owed \subseteq files \cap tabs.open /\ ghost.gone = {}
      BY <2>1, Bounds DEF Story
    <2>3. /\ removed = {} /\ moved = NoMove /\ \A u \in User : op[u].pc = "idle" /\ save[u].phase = "none"
          /\ \A r \in Passes : pass[r].at = NoPath
      BY DEF Init, NoOp, NoSave, NoPass, Savers
    <2> QED
      BY <2>1, <2>2, <2>3, Apart DEF Standing, Untold, Sighted, Copied, Leaving, NoMove
  <1>2. Standing /\ Leaving => TabsFollow
    BY DEF Standing, Leaving, TabsFollow, TabKept, NotResurrected
  <1> QED
    BY ComparedAtFirst, <1>1, <1>2, Soundness, NeverApart, ComparedKept, LeavingKept, StandingKept, UntoldKept,
      SightedKept, CopiedKept, PTL DEF Spec
=============================================================================
