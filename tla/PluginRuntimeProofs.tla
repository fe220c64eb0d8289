------------------------- MODULE PluginRuntimeProofs -------------------------
(***************************************************************************)
(* Proofs about PluginRuntime: who owns the renderer processes, and what a *)
(* failing plugin can do to the others.  A renderer belongs to a runtime   *)
(* by its process id alone; the runtime moves from place to place and      *)
(* recovers while the isolated runtime works on its calls.  And what the   *)
(* runtimes know of their renderers: a renderer can be lost at every step, *)
(* and the one that replaces it has neither environment nor plugin until   *)
(* the recovery has gone through.                                          *)
(***************************************************************************)
EXTENDS PluginRuntime, TLAPS, SequenceTheorems
-----------------------------------------------------------------------------
(* Which runtime a renderer belongs to.                                    *)

\* No two runtimes have the same one, each has one that runs, and none is lost.
OnePlace == \A x, y \in Place :
  Alive(child[x]) /\ Alive(child[y]) /\ child[x].pid = child[y].pid => x = y
Housed == \A x \in Place : Alive(child[x]) => child[x].there /\ child[x].pid \in DOMAIN process
Kept == \A r \in DOMAIN process : \E x \in Place : child[x].pid = r /\ Alive(child[x])
Owned == OnePlace /\ Housed /\ Kept

\* What a recovering runtime knows of its renderer at each of its steps.
Working == {"spawnFirst", "opening", "asked", "spawn", "initialize", "environment", "snapshot",
            "reload", "discard"}
Sound(c) ==
  /\ c.at \in Working => c.open
  /\ c.at \in {"spawnFirst", "spawn", "shut"} => ~Alive(c)
  /\ Alive(c) => c.open \/ c.at = "closing"
  /\ c.open => c.there

\* Which of its runtimes the isolated runtime waits for, and for what.
OpeningFresh == {"open", "look", "dress", "drop"}
Starts(c) == c.at \in {"spawnFirst", "opening", "ok"} \/ (c.at = "error" /\ ~Alive(c))
Queued ==
  /\ iso.at # "rest" => queue # <<>>
  /\ \A j \in DOMAIN queue : queue[j].kind \in Targeted => queue[j].target \in Plugin
Ended ==
  /\ ~iso.open => iso.at \in {"rest", "close"}
  /\ ~iso.open /\ iso.at = "rest" => \A x \in Place : child[x] = NoChild
Served ==
  /\ iso.at \in {"retire", "shut", "load", "ready", "salvage"} \cup OpeningFresh => iso.on \in Plugin
  /\ iso.at \in {"retire", "shut"} =>
       \/ Running.kind = "unloadAll"
       \/ Running.kind \in {"load", "reload", "unload"} /\ Target = iso.on /\ iso.todo = {}
  /\ iso.at = "spare" => Running.kind \in {"snapshot", "env"}
Renewed ==
  /\ iso.at \in OpeningFresh => ~child[iso.on].there
  /\ child[Fresh].there => iso.at \in OpeningFresh
  /\ iso.at = "open" => Starts(child[Fresh])
Closings == \A x \in Place : child[x].at = "closing" =>
  \/ iso.at = "shut" /\ x = iso.on
  \/ iso.at = "drop" /\ x = Fresh
  \/ iso.at = "close"
Unloads == \A x \in Place : child[x].at = "asked" /\ child[x].op = "unload" =>
  iso.at = "retire" /\ x = iso.on
Stands == Queued /\ Ended /\ Served /\ Renewed /\ Closings /\ Unloads
Supervised == Owned /\ (\A x \in Place : Sound(child[x])) /\ Stands

(* The places of the runtimes.                                             *)
LEMMA Places ==
  /\ Spare \in Place /\ Fresh \in Place /\ Spare # Fresh
  /\ Plugin \subseteq Place /\ Spare \notin Plugin /\ Fresh \notin Plugin
  /\ Place \ {Spare, Fresh} = Plugin
  /\ Slots \subseteq Plugin
  /\ \A p \in Plugin : p \in Slots <=> child[p].there
BY Apart DEF Place, Slots, There

\* The runtime c goes on as d with the same renderer.
SameRenderer(c, d) == d.pid = c.pid /\ d.dead = c.dead /\ d.there = c.there

(* An empty place and a runtime that is opened have no renderer.           *)
LEMMA Unborn ==
  /\ NoChild \in Child /\ ~NoChild.there /\ ~NoChild.open /\ NoChild.at = "rest" /\ ~Alive(NoChild)
  /\ Opening \in Child /\ Opening.there /\ Opening.open /\ Opening.at = "spawnFirst"
  /\ ~Alive(Opening)
  /\ Sound(NoChild) /\ Sound(Opening)
BY Apart DEF NoChild, Opening, Child, Stage, Failure, Kinds, Alive, Sound, Working

(* Setting the flags of a runtime.                                         *)
LEMMA Flags ==
  ASSUME NEW c \in Child, NEW a \in BOOLEAN
  PROVE  /\ [c EXCEPT !.active = FALSE, !.missed = a, !.replaced = TRUE] \in Child
         /\ LET d == [c EXCEPT !.active = a, !.env = 1] IN
            /\ d \in Child /\ d.there = c.there /\ d.open = c.open /\ d.pid = c.pid
            /\ d.dead = c.dead /\ d.at = c.at
<1>1. [c EXCEPT !.active = FALSE, !.missed = a, !.replaced = TRUE] \in Child
  BY DEF Child
<1>2. [c EXCEPT !.active = a, !.env = 1] \in Child
  BY DEF Child
<1>3. LET d == [c EXCEPT !.active = a, !.env = 1] IN
      /\ d.there = c.there /\ d.open = c.open /\ d.pid = c.pid
      /\ d.dead = c.dead /\ d.at = c.at
  BY DEF Child
<1>4. QED
  BY <1>1, <1>2, <1>3

(* What a recovery, a request, a close, a loss and an answer change.       *)
LEMMA RecoveringFacts ==
  ASSUME NEW c \in Child, NEW why \in Failure \cup {"no"}
  PROVE  LET d == Recovering(c, why) IN
         d \in Child /\ SameRenderer(c, d) /\ d.open = c.open /\ d.at = "spawn"
<1> DEFINE f == c.failed \/ c.active \/ c.op = "load"
           g == c.active /\ why # "exit"
           m == c.missed \/ c.op = "env"
<1>1. f \in BOOLEAN /\ g \in BOOLEAN /\ m \in BOOLEAN
  BY DEF Child
<1>2. Recovering(c, why) = [c EXCEPT !.at = "spawn", !.failed = f, !.again = g, !.active = FALSE,
                                     !.missed = m, !.replaced = TRUE]
  BY DEF Recovering
<1> DEFINE d == Recovering(c, why)
<1> HIDE DEF f, g, m, d
<1>3. d \in Child
  <2> DEFINE e == [c EXCEPT !.at = "spawn", !.failed = f, !.again = g]
  <2>1. e \in Child
    BY <1>1 DEF Child, Stage
  <2>2. d = [e EXCEPT !.active = FALSE, !.missed = m, !.replaced = TRUE]
    BY <1>2 DEF Child, d
  <2> HIDE DEF e
  <2>3. QED
    BY <1>1, <2>1, <2>2, Flags
<1>4. d.pid = c.pid /\ d.dead = c.dead /\ d.there = c.there /\ d.open = c.open /\ d.at = "spawn"
  BY <1>2 DEF Child, d
<1>5. QED
  BY <1>3, <1>4 DEF SameRenderer, d

\* What a request makes of a runtime.
LEMMA AskFacts ==
  ASSUME NEW c \in Child, NEW kind \in Kinds, NEW env \in Nat, Sound(c), c.at # "closing"
  PROVE  LET d == Ask(c, kind, env) IN
         /\ d \in Child /\ SameRenderer(c, d) /\ d.open = c.open /\ Sound(d)
         /\ d.at \in {"error", "asked", "spawn"} /\ (d.at = "asked" => d.op = kind)
<1> DEFINE asked == [c EXCEPT !.at = "asked", !.op = kind, !.want = env,
                              !.failed = c.failed /\ ~(kind = "unload" /\ ~c.active)]
           d == Ask(c, kind, env)
<1>1. asked \in Child /\ SameRenderer(c, asked) /\ asked.open = c.open /\ asked.at = "asked"
      /\ asked.op = kind
  BY DEF Child, SameRenderer, Stage
<1>2. CASE ~c.open
  <2>1. d = [c EXCEPT !.at = "error"]
    BY <1>2 DEF Ask
  <2>2. d \in Child /\ SameRenderer(c, d) /\ d.open = c.open /\ d.at = "error"
    BY <2>1 DEF Child, SameRenderer, Stage
  <2>3. QED
    BY <1>2, <2>2 DEF Sound, Working, Alive, SameRenderer
<1>3. CASE c.open /\ c.dead # "no"
  <2>1. d = Recovering(asked, c.dead)
    BY <1>3 DEF Ask
  <2>2. c.dead \in Failure \cup {"no"}
    BY DEF Child
  <2> HIDE DEF asked, d
  <2>3. d \in Child /\ SameRenderer(asked, d) /\ d.open = asked.open /\ d.at = "spawn"
    BY <1>1, <2>1, <2>2, RecoveringFacts
  <2>4. QED
    BY <1>1, <1>3, <2>3 DEF Sound, Working, Alive, SameRenderer, d, asked
<1>4. CASE c.open /\ c.dead = "no"
  <2>1. d = asked
    BY <1>4 DEF Ask
  <2>2. QED
    BY <1>1, <1>4, <2>1 DEF Sound, Working, Alive, SameRenderer
<1>5. QED
  BY <1>2, <1>3, <1>4

\* What a close makes of a runtime.
LEMMA CloseFacts ==
  ASSUME NEW c \in Child
  PROVE  LET d == Close(c) IN
         /\ d \in Child /\ SameRenderer(c, d) /\ ~d.open /\ Sound(d)
         /\ d.at \in {"closing", "shut"}
<1> DEFINE d == Close(c)
<1>1. d \in Child /\ SameRenderer(c, d) /\ ~d.open
  BY DEF Close, Child, SameRenderer, Stage
<1>2. d.at = IF Alive(c) THEN "closing" ELSE "shut"
  BY DEF Close, Child
<1>3. QED
  BY <1>1, <1>2 DEF Sound, Working, Alive, SameRenderer

\* What the loss of its renderer makes of a runtime.
LEMMA LostFacts ==
  ASSUME NEW c \in Child, NEW why \in Failure, Sound(c)
  PROVE  LET d == Lost(c, why) IN
         /\ d \in Child /\ d.pid = c.pid /\ d.there = c.there /\ d.dead = why /\ ~Alive(d) /\ Sound(d)
         /\ d.at \in {c.at, "spawn", "error", "shut"} /\ d.at \notin {"closing", "asked"}
         /\ c.at \in {"spawnFirst", "opening", "ok", "error"}
              => d.at \in {"spawnFirst", "ok", "error"}
<1> DEFINE b == [c EXCEPT !.dead = why]
           d == Lost(c, why)
<1>1. b \in Child /\ b.pid = c.pid /\ b.there = c.there /\ b.dead = why /\ b.open = c.open
      /\ b.at = c.at /\ why # "no"
  BY DEF Child, Failure
<1>2. CASE c.at = "asked"
  <2>1. d = Recovering(b, why) /\ why \in Failure \cup {"no"}
    BY <1>2 DEF Lost
  <2> HIDE DEF b, d
  <2>2. d \in Child /\ SameRenderer(b, d) /\ d.open = b.open /\ d.at = "spawn"
    BY <1>1, <2>1, RecoveringFacts
  <2>3. QED
    BY <1>1, <1>2, <2>2 DEF Sound, Working, Alive, SameRenderer, d
<1>3. CASE c.at \in {"opening", "initialize", "environment", "snapshot", "reload", "discard"}
  <2>1. d = [b EXCEPT !.open = FALSE, !.at = "error"]
    BY <1>3 DEF Lost
  <2> HIDE DEF b, d
  <2>2. d \in Child /\ SameRenderer(b, d) /\ d.at = "error"
    BY <1>1, <2>1 DEF Child, Stage, SameRenderer
  <2>3. QED
    BY <1>1, <1>3, <2>2 DEF Sound, Working, Alive, SameRenderer, d
<1>4. CASE c.at = "closing"
  <2>1. d = [b EXCEPT !.at = "shut"]
    BY <1>4 DEF Lost
  <2>2. d \in Child /\ SameRenderer(b, d) /\ d.at = "shut" /\ d.open = b.open
    BY <1>1, <2>1 DEF Child, Stage, SameRenderer
  <2>3. QED
    BY <1>1, <1>4, <2>2 DEF Sound, Working, Alive, SameRenderer
<1>5. CASE c.at \notin {"asked", "opening", "initialize", "environment", "snapshot", "reload",
                       "discard", "closing"}
  <2>1. d = b
    BY <1>5 DEF Lost
  <2>2. QED
    BY <1>1, <1>5, <2>1 DEF Sound, Working, Alive
<1>6. QED
  BY <1>2, <1>3, <1>4, <1>5

\* What taking its answer makes of a runtime.
LEMMA RestFacts ==
  ASSUME NEW ch \in [Place -> Child], NEW x \in Place, Sound(ch[x])
  PROVE  LET d == AtRest(ch)[x] IN
         /\ d \in Child /\ SameRenderer(ch[x], d) /\ d.open = ch[x].open /\ Sound(d)
         /\ d.at \notin {"ok", "error"}
         /\ ch[x].at \notin {"ok", "error"} => d = ch[x]
         /\ ch[x].at \in {"ok", "error"} => d.at = "rest"
<1> DEFINE d == AtRest(ch)[x]
<1>1. CASE ch[x].at \notin {"ok", "error"}
  BY <1>1 DEF AtRest, SameRenderer
<1>2. CASE ch[x].at \in {"ok", "error"}
  <2> DEFINE c == ch[x]
  <2>1. d = [c EXCEPT !.at = "rest", !.op = "snapshot", !.want = 0, !.again = FALSE, !.ack = 0]
    BY <1>2 DEF AtRest
  <2>0. c \in Child
    OBVIOUS
  <2> HIDE DEF c, d
  <2>2. d \in Child /\ SameRenderer(c, d) /\ d.open = c.open /\ d.at = "rest"
    BY <2>0, <2>1 DEF Child, Stage, SameRenderer, Kinds
  <2>3. QED
    BY <1>2, <2>2 DEF Sound, Working, Alive, SameRenderer, c, d
<1>3. QED
  BY <1>1, <1>2
-----------------------------------------------------------------------------
(* How the ownership of the renderers is passed on.                        *)

\* A place goes on with its renderer, or had none and has none.
Continues(x) ==
  \/ SameRenderer(child[x], child'[x])
  \/ ~Alive(child[x]) /\ ~Alive(child'[x])

\* Every place goes on with its renderer.
LEMMA OwnedStays ==
  ASSUME Owned, DOMAIN process' = DOMAIN process, \A x \in Place : Continues(x)
  PROVE  Owned'
<1>1. \A x \in Place : /\ Alive(child'[x]) <=> Alive(child[x])
                       /\ Alive(child[x]) => /\ child'[x].pid = child[x].pid
                                             /\ child'[x].there = child[x].there
  BY DEF Continues, SameRenderer, Alive
<1>2. OnePlace' /\ Housed' /\ Kept'
  BY <1>1 DEF Owned, OnePlace, Housed, Kept, Alive
<1>3. QED
  BY <1>2 DEF Owned

\* The runtime at a becomes the one at b.
LEMMA OwnedMoves ==
  ASSUME Owned, DOMAIN process' = DOMAIN process, NEW a \in Place, NEW b \in Place, a # b,
         ~Alive(child[b]), SameRenderer(child[a], child'[b]), ~Alive(child'[a]),
         \A x \in Place \ {a, b} : Continues(x)
  PROVE  Owned'
<1>1. /\ \A x \in Place \ {a, b} :
           /\ Alive(child'[x]) <=> Alive(child[x])
           /\ Alive(child[x]) => /\ child'[x].pid = child[x].pid
                                 /\ child'[x].there = child[x].there
      /\ Alive(child'[b]) <=> Alive(child[a])
      /\ child'[b].pid = child[a].pid /\ child'[b].there = child[a].there
  BY DEF Continues, SameRenderer, Alive
<1>2. OnePlace'
  BY <1>1 DEF Owned, OnePlace, Alive
<1>3. Housed'
  BY <1>1 DEF Owned, Housed, Alive
<1>4. Kept'
  <2> SUFFICES ASSUME NEW r \in DOMAIN process
               PROVE  \E x \in Place : child'[x].pid = r /\ Alive(child'[x])
    BY DEF Kept, Alive
  <2>1. PICK x \in Place : child[x].pid = r /\ Alive(child[x])
    BY DEF Owned, Kept
  <2>2. QED
    BY <1>1, <2>1
<1>5. QED
  BY <1>2, <1>3, <1>4 DEF Owned

\* A renderer ends, and its runtime knows.
LEMMA OwnedEnds ==
  ASSUME Owned, NEW x \in Place, Alive(child[x]), process' = Without(child[x].pid),
         ~Alive(child'[x]), \A y \in Place \ {x} : child'[y] = child[y]
  PROVE  Owned'
<1>1. DOMAIN process' = DOMAIN process \ {child[x].pid}
  BY DEF Without
<1>2. OnePlace'
  BY DEF Owned, OnePlace, Alive
<1>3. Housed'
  BY <1>1 DEF Owned, OnePlace, Housed, Alive
<1>4. Kept'
  <2> SUFFICES ASSUME NEW r \in DOMAIN process \ {child[x].pid}
               PROVE  \E y \in Place : child'[y].pid = r /\ Alive(child'[y])
    BY <1>1 DEF Kept, Alive
  <2>1. PICK y \in Place : child[y].pid = r /\ Alive(child[y])
    BY DEF Owned, Kept
  <2>2. QED
    BY <2>1
<1>5. QED
  BY <1>2, <1>3, <1>4 DEF Owned

\* The owner of a renderer.
LEMMA OwnerFacts ==
  ASSUME Owned, NEW r \in DOMAIN process
  PROVE  /\ OwnerOf(r) \in Place /\ child[OwnerOf(r)].pid = r /\ Alive(child[OwnerOf(r)])
         /\ \A x \in Place : child[x].pid = r /\ Alive(child[x]) => x = OwnerOf(r)
<1>1. \E x \in Place : child[x].pid = r /\ Alive(child[x])
  BY DEF Owned, Kept
<1>2. OwnerOf(r) \in Place /\ child[OwnerOf(r)].pid = r /\ Alive(child[OwnerOf(r)])
  BY <1>1 DEF OwnerOf
<1>3. QED
  BY <1>2 DEF Owned, OnePlace
-----------------------------------------------------------------------------
(* The pieces the steps are made of.                                       *)

\* A place whose runtime neither closes nor unloads.
Calm(c) == c.at # "closing" /\ ~(c.at = "asked" /\ c.op = "unload")
Fine(c) == c \in Child /\ Sound(c) /\ Calm(c)

\* The same facts, for runtimes that neither close nor unload.
LEMMA FineFacts ==
  /\ Fine(NoChild) /\ Fine(Opening) /\ Starts(Opening)
  /\ \A c \in Child, kind \in Kinds, env \in Nat :
       Fine(c) => LET d == Ask(c, kind, env) IN
                  /\ d \in Child /\ SameRenderer(c, d) /\ Sound(d) /\ d.at # "closing"
                  /\ kind # "unload" => Fine(d)
  /\ \A c \in Child :
       LET d == Close(c) IN
       /\ d \in Child /\ SameRenderer(c, d) /\ Sound(d) /\ ~(d.at = "asked" /\ d.op = "unload")
<1>1. Fine(NoChild) /\ Fine(Opening) /\ Starts(Opening)
  BY Unborn DEF Fine, Calm, Starts
<1>2. ASSUME NEW c \in Child, NEW kind \in Kinds, NEW env \in Nat, Fine(c)
      PROVE  LET d == Ask(c, kind, env) IN
             /\ d \in Child /\ SameRenderer(c, d) /\ Sound(d) /\ d.at # "closing"
             /\ kind # "unload" => Fine(d)
  <2>1. Sound(c) /\ c.at # "closing"
    BY <1>2 DEF Fine, Calm
  <2>2. QED
    BY <2>1, AskFacts DEF Fine, Calm
<1>3. ASSUME NEW c \in Child
      PROVE  LET d == Close(c) IN
             /\ d \in Child /\ SameRenderer(c, d) /\ Sound(d)
             /\ ~(d.at = "asked" /\ d.op = "unload")
  BY CloseFacts
<1>4. QED
  BY <1>1, <1>2, <1>3

\* The isolated runtime does nothing while a runtime closes or unloads.
LEMMA CalmSteps ==
  ASSUME TypeOK, Supervised,
         \/ iso.at \notin {"shut", "drop", "close", "retire"}
         \/ iso.at = "retire" /\ Settled(iso.on)
         \/ iso.at = "shut" /\ child[iso.on].at = "shut"
         \/ iso.at = "drop" /\ child[Fresh].at = "shut"
  PROVE  \A x \in Place : Fine(child[x])
<1> SUFFICES ASSUME NEW x \in Place
             PROVE  Fine(child[x])
  OBVIOUS
<1>1. child[x] \in Child /\ Sound(child[x])
  BY DEF TypeOK, Supervised
<1>2. child[x].at # "closing"
  BY DEF Supervised, Stands, Closings, Settled
<1>3. ~(child[x].at = "asked" /\ child[x].op = "unload")
  BY DEF Supervised, Stands, Unloads, Settled
<1>4. QED
  BY <1>1, <1>2, <1>3 DEF Fine, Calm

\* What the running call is.
LEMMA RunningFacts ==
  ASSUME TypeOK, Supervised, queue # <<>>
  PROVE  /\ Running \in Op /\ Running.kind \in Kinds /\ Running.env \in Nat
         /\ Target = Running.target
         /\ Running.kind \in Targeted => Target \in Plugin
         /\ 1 \in DOMAIN queue
<1>1. queue \in Seq(Op) /\ Len(queue) \in Nat \ {0}
  BY DEF TypeOK
<1>2. 1 \in DOMAIN queue /\ queue[1] \in Op
  BY <1>1
<1>3. QED
  BY <1>2 DEF Running, Target, Op, Supervised, Stands, Queued

\* An answer.
LEMMA AnsweredFacts ==
  ASSUME TypeOK, Supervised, queue # <<>>, NEW ok \in BOOLEAN, NEW ack \in Nat, NEW i \in Iso,
         Answered(ok, ack, i)
  PROVE  /\ queue' \in Seq(Op) /\ iso' \in Iso /\ bridge' \in [env : Nat, acked : Nat, busy : BOOLEAN]
         /\ iso'.at = "rest" /\ iso'.open = i.open /\ Queued'
<1>1. queue' = Tail(queue) /\ queue \in Seq(Op) /\ Len(queue) \in Nat \ {0}
  BY DEF Answered, TypeOK
<1>2. /\ queue' \in Seq(Op) /\ Len(queue') = Len(queue) - 1
      /\ \A j \in 1 .. Len(queue') : queue'[j] = queue[j + 1] /\ j + 1 \in 1 .. Len(queue)
  BY <1>1
<1>3. DOMAIN queue' = 1 .. Len(queue') /\ DOMAIN queue = 1 .. Len(queue)
  BY <1>1, <1>2
<1>4. \A j \in DOMAIN queue' : queue'[j].kind \in Targeted => queue'[j].target \in Plugin
  BY <1>2, <1>3 DEF Supervised, Stands, Queued
<1>5. Running.kind \in Kinds /\ Running.env \in Nat
  BY RunningFacts
<1>6. iso' = [i EXCEPT !.at = "rest", !.err = FALSE, !.on = None, !.todo = {}, !.ack = 0,
                       !.last = Running.kind, !.ok = ok]
  BY DEF Answered
<1>7. iso' \in Iso /\ iso'.at = "rest" /\ iso'.open = i.open
  BY <1>5, <1>6 DEF Iso, Wait
<1>8. CASE Running.kind # "env"
  BY <1>2, <1>4, <1>7, <1>8 DEF Answered, TypeOK, Queued
<1>9. CASE Running.kind = "env"
  <2>1. bridge' = [bridge EXCEPT !.busy = FALSE,
                     !.acked = IF ok /\ ack = Running.env THEN Running.env ELSE @]
    BY <1>9 DEF Answered
  <2>2. bridge' \in [env : Nat, acked : Nat, busy : BOOLEAN]
    BY <1>5, <2>1 DEF TypeOK
  <2>3. QED
    BY <1>2, <1>4, <1>7, <2>2 DEF Queued
<1>10. QED
  BY <1>8, <1>9

\* A step that keeps the types of what the isolated runtime may change.
LEMMA TypedSteps ==
  ASSUME TypeOK, Rest, queue' \in Seq(Op), iso' \in Iso, child' \in [Place -> Child],
         bridge' \in [env : Nat, acked : Nat, busy : BOOLEAN]
  PROVE  TypeOK'
BY DEF TypeOK, Rest
-----------------------------------------------------------------------------
(* The steps of the isolated runtime, by what they do to the runtimes.     *)

\* A plugin's runtime keeps its renderer, if it has one.
Homely == \A p \in Plugin : \/ SameRenderer(child[p], child'[p])
                            \/ ~(child[p].there /\ Alive(child[p]))

\* The running call is answered, and every runtime is at rest.
LEMMA ReplySteps ==
  ASSUME TypeOK, Supervised, Rest, queue # <<>>, NEW ok \in BOOLEAN, NEW ack \in Nat, NEW i \in Iso,
         i.open = iso.open, Answered(ok, ack, i), child' = AtRest(child),
         iso.at \notin {"shut", "drop", "close", "retire"} \cup OpeningFresh
  PROVE  TypeOK' /\ Supervised' /\ Homely
<1>1. /\ queue' \in Seq(Op) /\ iso' \in Iso /\ bridge' \in [env : Nat, acked : Nat, busy : BOOLEAN]
      /\ iso'.at = "rest" /\ iso'.open = iso.open /\ Queued'
  BY AnsweredFacts
<1>2. \A x \in Place : Fine(child[x])
  BY CalmSteps
<1>3. child \in [Place -> Child]
  BY DEF TypeOK
<1>4. /\ child' = [x \in Place |-> child'[x]]
      /\ \A x \in Place :
           /\ child'[x] \in Child /\ SameRenderer(child[x], child'[x]) /\ Sound(child'[x])
           /\ child[x].at \notin {"ok", "error"} => child'[x] = child[x]
           /\ child[x].at \in {"ok", "error"} => child'[x].at = "rest"
  <2>1. child' = [x \in Place |-> child'[x]]
    BY DEF AtRest
  <2>2. ASSUME NEW x \in Place
        PROVE  /\ child'[x] \in Child /\ SameRenderer(child[x], child'[x]) /\ Sound(child'[x])
               /\ child[x].at \notin {"ok", "error"} => child'[x] = child[x]
               /\ child[x].at \in {"ok", "error"} => child'[x].at = "rest"
    <3>1. Sound(child[x])
      BY <1>2 DEF Fine
    <3>2. QED
      BY <1>3, <3>1, RestFacts
  <2>3. QED
    BY <2>1, <2>2
<1>5. TypeOK'
  BY <1>1, <1>4, TypedSteps
<1>6. Owned'
  BY <1>4, OwnedStays DEF Continues, Supervised, Rest
<1>7. \A x \in Place : Sound(child'[x]) /\ Calm(child'[x])
  BY <1>2, <1>4 DEF Fine, Calm
<1>8. Ended'
  <2>1. ~iso'.open => \A x \in Place : child[x] = NoChild
    BY <1>1 DEF Supervised, Stands, Ended
  <2>2. ~iso'.open => \A x \in Place : child'[x] = NoChild
    BY <1>4, <2>1, Unborn
  <2>3. QED
    BY <1>1, <2>2 DEF Ended
<1>9. Served' /\ Closings' /\ Unloads'
  BY <1>1, <1>7 DEF Served, Closings, Unloads, Calm, OpeningFresh
<1>10. Renewed'
  <2>1. ~child[Fresh].there
    BY DEF Supervised, Stands, Renewed
  <2>2. ~child'[Fresh].there
    BY <1>4, <2>1, Places DEF SameRenderer
  <2>3. QED
    BY <1>1, <2>2 DEF Renewed, OpeningFresh
<1>11. Homely
  BY <1>4, Places DEF Homely
<1>12. QED
  BY <1>1, <1>5, <1>6, <1>7, <1>8, <1>9, <1>10, <1>11 DEF Supervised, Stands

\* Some runtimes are asked for something, though not to unload.
AsksSome == \A x \in Place :
  \/ child'[x] = child[x]
  \/ \E kind \in Kinds \ {"unload"}, env \in Nat : child'[x] = Ask(child[x], kind, env)

\* Asking keeps the invariant.
LEMMA AskSteps ==
  ASSUME TypeOK, Supervised, Rest, queue # <<>>, \A x \in Place : Fine(child[x]),
         iso' \in Iso, iso'.open = iso.open, iso.open, UNCHANGED <<queue, bridge>>,
         iso'.on = iso.on, iso'.at \notin {"retire", "shut", "open", "rest"},
         iso'.at \in {"load", "ready", "salvage"} \cup OpeningFresh => iso.on \in Plugin,
         iso'.at \in OpeningFresh <=> iso.at \in OpeningFresh,
         iso'.at = "spare" => Running.kind \in {"snapshot", "env"},
         child' = [x \in Place |-> child'[x]], AsksSome
  PROVE  TypeOK' /\ Supervised' /\ Homely
<1>1. \A x \in Place : child[x] \in Child
  BY DEF TypeOK
<1>2. \A x \in Place : SameRenderer(child[x], child'[x]) /\ Fine(child'[x])
  <2> SUFFICES ASSUME NEW x \in Place
               PROVE  SameRenderer(child[x], child'[x]) /\ Fine(child'[x])
    OBVIOUS
  <2>1. CASE child'[x] = child[x]
    BY <2>1 DEF SameRenderer
  <2>2. CASE \E kind \in Kinds \ {"unload"}, env \in Nat : child'[x] = Ask(child[x], kind, env)
    <3>1. PICK kind \in Kinds \ {"unload"}, env \in Nat : child'[x] = Ask(child[x], kind, env)
      BY <2>2
    <3>2. QED
      BY <1>1, <3>1, FineFacts
  <2>3. QED
    BY <2>1, <2>2 DEF AsksSome
<1>3. child' \in [Place -> Child] /\ \A x \in Place : Sound(child'[x])
  BY <1>2 DEF Fine
<1>4. TypeOK'
  BY <1>3, TypedSteps DEF TypeOK
<1>5. Owned'
  BY <1>2, OwnedStays DEF Continues, Supervised, Rest
<1>6. Queued' /\ Ended' /\ Served'
  BY DEF Supervised, Stands, Queued, Ended, Served, OpeningFresh, Running
<1>7. Closings' /\ Unloads'
  BY <1>2 DEF Closings, Unloads, Fine, Calm
<1>8. Renewed'
  <2>1. /\ iso.at \in OpeningFresh => iso.on \in Plugin /\ ~child[iso.on].there
        /\ child[Fresh].there => iso.at \in OpeningFresh
    BY DEF Supervised, Stands, Renewed, Served
  <2>2. /\ iso.at \in OpeningFresh => ~child'[iso.on].there
        /\ child'[Fresh].there = child[Fresh].there
    BY <1>2, <2>1, Places DEF SameRenderer
  <2>3. QED
    BY <2>1, <2>2 DEF Renewed
<1>9. Homely
  BY <1>2, Places DEF Homely
<1>10. QED
  BY <1>3, <1>4, <1>5, <1>6, <1>7, <1>8, <1>9 DEF Supervised, Stands

\* The runtime at x, which has no renderer, is gone; the call is answered.
LEMMA EmptySteps ==
  ASSUME TypeOK, Supervised, Rest, queue # <<>>, \A x \in Place : Fine(child[x]), iso.open,
         NEW ok \in BOOLEAN, Answered(ok, 0, iso),
         NEW x \in Place, ~Alive(child[x]), child' = [child EXCEPT ![x] = NoChild],
         x = Fresh \/ ~child[Fresh].there
  PROVE  TypeOK' /\ Supervised' /\ Homely
<1>1. child \in [Place -> Child] /\ iso \in Iso
  BY DEF TypeOK
<1>2. /\ queue' \in Seq(Op) /\ iso' \in Iso /\ bridge' \in [env : Nat, acked : Nat, busy : BOOLEAN]
      /\ iso'.at = "rest" /\ iso'.open = iso.open /\ Queued'
  BY <1>1, AnsweredFacts
<1>3. child'[x] = NoChild /\ (\A y \in Place \ {x} : child'[y] = child[y])
      /\ child' \in [Place -> Child]
  BY <1>1, Unborn
<1>4. \A y \in Place : Continues(y) /\ Fine(child'[y])
  BY <1>3, Unborn, FineFacts DEF Continues, SameRenderer
<1>5. TypeOK'
  BY <1>2, <1>3, TypedSteps
<1>6. Owned'
  BY <1>4, OwnedStays DEF Supervised, Rest
<1>7. Ended' /\ Served'
  BY <1>2 DEF Ended, Served, OpeningFresh
<1>8. Closings' /\ Unloads' /\ \A y \in Place : Sound(child'[y])
  BY <1>4 DEF Closings, Unloads, Fine, Calm
<1>9. ~child'[Fresh].there
  BY <1>3, Unborn, Places
<1>10. Renewed'
  BY <1>2, <1>9 DEF Renewed, OpeningFresh
<1>11. Homely
  BY <1>3, Places DEF Homely, SameRenderer
<1>12. QED
  BY <1>2, <1>5, <1>6, <1>7, <1>8, <1>10, <1>11 DEF Supervised, Stands

\* The runtime at p is asked to unload its plugin.  A runtime that has shut
\* may have gone before.
Gone(ch, z) == /\ ch \in [Place -> Child]
               /\ \A y \in Place : ch[y] = child[y] \/ (ch[y] = NoChild /\ ~Alive(child[y]) /\ y # z)

\* A runtime that has gone, or is as before, is fine.
LEMMA GoneFacts ==
  ASSUME \A x \in Place : Fine(child[x]), NEW ch, Gone(ch, Fresh)
  PROVE  \A y \in Place : /\ ch[y] \in Child /\ Fine(ch[y])
                          /\ \/ SameRenderer(child[y], ch[y])
                             \/ ~Alive(child[y]) /\ ~Alive(ch[y])
<1> SUFFICES ASSUME NEW y \in Place
             PROVE  /\ Fine(ch[y])
                    /\ \/ SameRenderer(child[y], ch[y])
                       \/ ~Alive(child[y]) /\ ~Alive(ch[y])
  BY DEF Fine
<1>1. CASE ch[y] = child[y]
  BY <1>1 DEF SameRenderer
<1>2. CASE ch[y] = NoChild /\ ~Alive(child[y])
  BY <1>2, FineFacts, Unborn
<1>3. QED
  BY <1>1, <1>2 DEF Gone

\* Asking a runtime to unload its plugin keeps the invariant.
LEMMA RetireSteps ==
  ASSUME TypeOK, Supervised, Rest, queue # <<>>, \A x \in Place : Fine(child[x]), iso.open,
         NEW p \in Plugin, NEW env \in Nat, NEW ch, Gone(ch, Fresh),
         child' = [ch EXCEPT ![p] = Ask(@, "unload", env)],
         iso' \in Iso, iso'.open = iso.open, iso'.at = "retire", iso'.on = p,
         UNCHANGED <<queue, bridge>>, ~child[Fresh].there,
         \/ Running.kind = "unloadAll"
         \/ Running.kind \in {"load", "reload", "unload"} /\ Target = p /\ iso'.todo = {}
  PROVE  TypeOK' /\ Supervised' /\ Homely
<1>1. \A y \in Place : /\ ch[y] \in Child /\ Fine(ch[y])
                       /\ \/ SameRenderer(child[y], ch[y])
                          \/ ~Alive(child[y]) /\ ~Alive(ch[y])
  BY GoneFacts
<1>2. ch[Fresh] = child[Fresh]
  BY Places DEF Gone
<1>3. /\ p \in Place /\ p # Fresh
      /\ child'[p] = Ask(ch[p], "unload", env) /\ \A y \in Place \ {p} : child'[y] = ch[y]
      /\ child' = [y \in Place |-> child'[y]]
  BY Places DEF Gone
<1>4. child'[p] \in Child /\ SameRenderer(ch[p], child'[p]) /\ Sound(child'[p])
      /\ child'[p].at # "closing"
  <2>1. "unload" \in Kinds
    BY DEF Kinds
  <2>2. QED
    BY <1>1, <1>3, <2>1, FineFacts
<1>5. child' \in [Place -> Child] /\ \A y \in Place : Sound(child'[y])
  BY <1>1, <1>3, <1>4 DEF Fine
<1>6. \A y \in Place : Continues(y)
  BY <1>1, <1>3, <1>4 DEF Continues, SameRenderer, Alive
<1>7. TypeOK'
  BY <1>5, TypedSteps DEF TypeOK
<1>8. Owned'
  BY <1>6, OwnedStays DEF Supervised, Rest
<1>9. Queued' /\ Ended' /\ Served'
  BY DEF Supervised, Stands, Queued, Ended, Served, OpeningFresh, Running, Target
<1>10. Closings' /\ Unloads'
  BY <1>1, <1>3, <1>4 DEF Closings, Unloads, Fine, Calm
<1>11. Renewed'
  BY <1>2, <1>3, Places DEF Renewed, OpeningFresh
<1>12. Homely
  BY <1>6, Places DEF Homely, Continues
<1>13. QED
  BY <1>5, <1>7, <1>8, <1>9, <1>10, <1>11, <1>12 DEF Supervised, Stands

\* A runtime is taken for p: the idle one, or a new one is opened.
LEMMA TakeSteps ==
  ASSUME TypeOK, Supervised, Rest, queue # <<>>, \A x \in Place : Fine(child[x]), iso.open,
         NEW p \in Plugin, NEW ch, Gone(ch, Fresh), ~ch[p].there, ch[Spare] = child[Spare],
         Take(p, ch), ~child[Fresh].there
  PROVE  TypeOK' /\ Supervised' /\ Homely
<1>1. \A y \in Place : /\ ch[y] \in Child /\ Fine(ch[y])
                       /\ \/ SameRenderer(child[y], ch[y])
                          \/ ~Alive(child[y]) /\ ~Alive(ch[y])
  BY GoneFacts
<1>2. ch[Fresh] = child[Fresh] /\ ch \in [Place -> Child]
  BY Places DEF Gone
<1>3. /\ p \in Place /\ p # Fresh /\ p # Spare /\ Spare # Fresh /\ Spare \in Place
      /\ Fresh \in Place /\ Fresh \notin Plugin /\ Spare \notin Plugin
  BY Places
<1>4. ~Alive(child[p]) /\ ~Alive(child[Fresh])
  BY <1>1, <1>3 DEF Supervised, Owned, Housed, SameRenderer
<1>5. iso \in Iso /\ iso' = [iso EXCEPT !.on = p, !.at = iso'.at] /\ iso'.at \in {"load", "open"}
      /\ UNCHANGED <<queue, bridge>>
  BY DEF Take, Goes, TypeOK, Iso
<1>6. iso' \in Iso /\ iso'.open = iso.open /\ iso'.on = p
  BY <1>5 DEF Iso, Wait
<1>7. CASE child[Spare].there
  <2>1. /\ child' = [ch EXCEPT ![p] = Ask(ch[Spare], "load", 0), ![Spare] = NoChild]
        /\ iso'.at = "load"
    BY <1>5, <1>7 DEF Take, Goes, Iso
  <2>2. /\ child'[p] = Ask(child[Spare], "load", 0) /\ child'[Spare] = NoChild
        /\ \A y \in Place \ {p, Spare} : child'[y] = ch[y]
        /\ child' = [y \in Place |-> child'[y]]
    BY <1>2, <1>3, <2>1
  <2>3. SameRenderer(child[Spare], child'[p]) /\ Fine(child'[p])
    <3>1. "load" \in Kinds /\ 0 \in Nat /\ child[Spare] \in Child /\ Fine(child[Spare])
      BY <1>1, <1>3 DEF Kinds
    <3>2. QED
      BY <2>2, <3>1, FineFacts
  <2>4. child' \in [Place -> Child] /\ \A y \in Place : Fine(child'[y])
    BY <1>1, <1>3, <2>2, <2>3, FineFacts DEF Fine
  <2>5. Owned'
    <3>1. \A y \in Place \ {Spare, p} : Continues(y)
      BY <1>1, <2>2 DEF Continues, SameRenderer, Alive
    <3>2. ~Alive(child'[Spare])
      BY <2>2, Unborn
    <3>3. QED
      BY <1>3, <1>4, <2>3, <3>1, <3>2, OwnedMoves DEF Supervised, Rest
  <2>6. TypeOK'
    BY <1>5, <1>6, <2>4, TypedSteps DEF TypeOK
  <2>7. Queued' /\ Ended' /\ Served'
    BY <1>5, <1>6, <2>1 DEF Supervised, Stands, Queued, Ended, Served, OpeningFresh
  <2>8. Closings' /\ Unloads' /\ \A y \in Place : Sound(child'[y])
    BY <2>4 DEF Closings, Unloads, Fine, Calm
  <2>9. Renewed'
    BY <1>2, <1>3, <2>1, <2>2 DEF Renewed, OpeningFresh
  <2>10. Homely
    BY <1>1, <1>3, <1>4, <2>2, Places DEF Homely
  <2>11. QED
    BY <2>4, <2>5, <2>6, <2>7, <2>8, <2>9, <2>10 DEF Supervised, Stands
<1>8. CASE ~child[Spare].there
  <2>1. child' = [ch EXCEPT ![Fresh] = Opening] /\ iso'.at = "open"
    BY <1>5, <1>8 DEF Take, Goes, Iso
  <2>2. /\ child'[Fresh] = Opening /\ (\A y \in Place \ {Fresh} : child'[y] = ch[y])
        /\ child' = [y \in Place |-> child'[y]]
    BY <1>2, <1>3, <2>1
  <2>3. child' \in [Place -> Child] /\ \A y \in Place : Fine(child'[y])
    BY <1>1, <2>2, FineFacts, Unborn
  <2>4. \A y \in Place : Continues(y)
    BY <1>1, <1>4, <2>2, Unborn DEF Continues
  <2>5. TypeOK' /\ Owned'
    BY <1>5, <1>6, <2>3, <2>4, TypedSteps, OwnedStays DEF TypeOK, Supervised, Rest
  <2>6. Queued' /\ Ended' /\ Served'
    BY <1>5, <1>6, <2>1 DEF Supervised, Stands, Queued, Ended, Served, OpeningFresh
  <2>7. Closings' /\ Unloads' /\ \A y \in Place : Sound(child'[y])
    BY <2>3 DEF Closings, Unloads, Fine, Calm
  <2>8. Renewed'
    BY <1>3, <1>6, <2>1, <2>2, FineFacts DEF Renewed, OpeningFresh
  <2>9. Homely
    BY <2>4, Places DEF Homely, Continues
  <2>10. QED
    BY <2>3, <2>5, <2>6, <2>7, <2>8, <2>9 DEF Supervised, Stands
<1>9. QED
  BY <1>7, <1>8

\* The new runtime becomes that of the plugin it was opened for.
LEMMA InstallSteps ==
  ASSUME TypeOK, Supervised, Rest, queue # <<>>, \A x \in Place : Fine(child[x]), iso.open,
         iso.at \in OpeningFresh, Installs
  PROVE  TypeOK' /\ Supervised' /\ Homely
<1>1. /\ iso.on \in Plugin /\ iso.on \in Place /\ iso.on # Fresh /\ Fresh \in Place
      /\ Fresh \notin Plugin /\ ~child[iso.on].there /\ ~Alive(child[iso.on])
  BY Places DEF Supervised, Stands, Served, Renewed, Owned, Housed
<1>2. child \in [Place -> Child] /\ iso \in Iso
  BY DEF TypeOK
<1>3. iso' \in Iso /\ iso'.open = iso.open /\ iso'.on = iso.on /\ iso'.at = "load"
      /\ UNCHANGED <<queue, bridge>>
  BY <1>2 DEF Installs, Goes, Iso, Wait
<1>4. /\ child'[iso.on] = Ask(child[Fresh], "load", 0) /\ child'[Fresh] = NoChild
      /\ \A y \in Place \ {iso.on, Fresh} : child'[y] = child[y]
      /\ child' = [y \in Place |-> child'[y]]
  BY <1>1, <1>2 DEF Installs
<1>5. SameRenderer(child[Fresh], child'[iso.on]) /\ Fine(child'[iso.on])
  <2>1. "load" \in Kinds /\ 0 \in Nat /\ child[Fresh] \in Child /\ Fine(child[Fresh])
    BY <1>1, <1>2 DEF Kinds
  <2>2. QED
    BY <1>4, <2>1, FineFacts
<1>6. child' \in [Place -> Child] /\ \A y \in Place : Fine(child'[y])
  BY <1>1, <1>4, <1>5, FineFacts DEF Fine
<1>7. Owned'
  <2>1. \A y \in Place \ {Fresh, iso.on} : Continues(y)
    BY <1>4 DEF Continues, SameRenderer
  <2>2. ~Alive(child'[Fresh])
    BY <1>4, Unborn
  <2>3. QED
    BY <1>1, <1>5, <2>1, <2>2, OwnedMoves DEF Supervised, Rest
<1>8. TypeOK'
  BY <1>3, <1>6, TypedSteps DEF TypeOK
<1>9. Queued' /\ Ended' /\ Served'
  BY <1>1, <1>3 DEF Supervised, Stands, Queued, Ended, Served, OpeningFresh
<1>10. Closings' /\ Unloads' /\ \A y \in Place : Sound(child'[y])
  BY <1>6 DEF Closings, Unloads, Fine, Calm
<1>11. Renewed'
  BY <1>3, <1>4, Unborn DEF Renewed, OpeningFresh
<1>12. Homely
  BY <1>1, <1>4, Places DEF Homely, SameRenderer
<1>13. QED
  BY <1>6, <1>7, <1>8, <1>9, <1>10, <1>11, <1>12 DEF Supervised, Stands

\* The new runtime is asked to close.
LEMMA DropSteps ==
  ASSUME TypeOK, Supervised, Rest, queue # <<>>, \A x \in Place : Fine(child[x]), iso.open,
         iso.at \in OpeningFresh, Drops
  PROVE  TypeOK' /\ Supervised' /\ Homely
<1>1. iso.on \in Plugin /\ iso.on # Fresh /\ ~child[iso.on].there /\ Fresh \in Place /\ iso.on \in Place
  BY Places DEF Supervised, Stands, Served, Renewed
<1>2. child \in [Place -> Child] /\ iso \in Iso
  BY DEF TypeOK
<1>3. iso' \in Iso /\ iso'.open = iso.open /\ iso'.on = iso.on /\ iso'.at = "drop"
      /\ UNCHANGED <<queue, bridge>>
  BY <1>2 DEF Drops, Goes, Iso, Wait
<1>4. /\ child'[Fresh] = Close(child[Fresh]) /\ \A y \in Place \ {Fresh} : child'[y] = child[y]
      /\ child' = [y \in Place |-> child'[y]]
  BY <1>1, <1>2 DEF Drops
<1>5. /\ child'[Fresh] \in Child /\ SameRenderer(child[Fresh], child'[Fresh]) /\ Sound(child'[Fresh])
      /\ ~(child'[Fresh].at = "asked" /\ child'[Fresh].op = "unload")
  BY <1>1, <1>2, <1>4, FineFacts
<1>6. child' \in [Place -> Child] /\ \A y \in Place : Sound(child'[y])
  BY <1>2, <1>4, <1>5 DEF Fine
<1>7. Owned'
  BY <1>4, <1>5, OwnedStays DEF Continues, SameRenderer, Supervised, Rest
<1>8. TypeOK'
  BY <1>3, <1>6, TypedSteps DEF TypeOK
<1>9. Queued' /\ Ended' /\ Served'
  BY <1>1, <1>3 DEF Supervised, Stands, Queued, Ended, Served, OpeningFresh
<1>10. Closings' /\ Unloads'
  BY <1>3, <1>4, <1>5 DEF Closings, Unloads, Fine, Calm
<1>11. Renewed'
  BY <1>1, <1>3, <1>4, <1>5 DEF Renewed, OpeningFresh, SameRenderer
<1>12. Homely
  BY <1>4, Places DEF Homely, SameRenderer
<1>13. QED
  BY <1>6, <1>7, <1>8, <1>9, <1>10, <1>11, <1>12 DEF Supervised, Stands
-----------------------------------------------------------------------------
(* Every action of the isolated runtime.                                   *)

\* What each of its actions is shown to keep.
Upheld == TypeOK' /\ Supervised' /\ Homely

\* What holds when a call starts.
LEMMA Started ==
  ASSUME TypeOK, Supervised, queue # <<>>, iso.at = "rest", iso.open
  PROVE  /\ \A x \in Place : Fine(child[x])
         /\ ~child[Fresh].there
         /\ Running.kind \in Kinds /\ Running.env \in Nat
         /\ Running.kind \in Targeted => Target \in Plugin
         /\ iso \in Iso /\ child \in [Place -> Child]
<1>1. ~child[Fresh].there
  BY DEF Supervised, Stands, Renewed, OpeningFresh
<1>2. QED
  BY <1>1, CalmSteps, RunningFacts DEF TypeOK

\* Unloading the plugin of a slot begins a call.
LEMMA RetireStarts ==
  ASSUME TypeOK, Supervised, Rest, Ready, NEW p \in Slots, NEW todo \in SUBSET Plugin, Retire(p, todo),
         \/ Running.kind = "unloadAll"
         \/ Running.kind \in {"load", "reload", "unload"} /\ Target = p /\ todo = {}
  PROVE  Upheld
<1>1. queue # <<>> /\ iso.at = "rest" /\ iso.open /\ p \in Plugin
  BY Places DEF Ready
<1>2. iso \in Iso /\ iso' = [iso EXCEPT !.on = p, !.todo = todo, !.at = "retire"]
      /\ UNCHANGED <<queue, bridge>>
  BY DEF Retire, Asks, Goes, TypeOK
<1>3. iso' \in Iso /\ iso'.open = iso.open /\ iso'.on = p /\ iso'.at = "retire" /\ iso'.todo = todo
  BY <1>1, <1>2 DEF Iso, Wait
<1>4. Gone(child, Fresh) /\ child' = [child EXCEPT ![p] = Ask(@, "unload", Running.env)]
  BY DEF Retire, Asks, TypeOK, Gone
<1>5. (\A x \in Place : Fine(child[x])) /\ ~child[Fresh].there /\ Running.env \in Nat
  BY <1>1, Started
<1>6. QED
  BY <1>1, <1>2, <1>3, <1>4, <1>5, RetireSteps DEF Upheld

\* A call is answered at once.
LEMMA ReplyStarts ==
  ASSUME TypeOK, Supervised, Rest, queue # <<>>, NEW ok \in BOOLEAN, Reply(ok),
         iso.at \notin {"shut", "drop", "close", "retire"} \cup OpeningFresh
  PROVE  Upheld
<1>1. iso \in Iso /\ iso.ack \in Nat
  BY DEF TypeOK, Iso
<1>2. Answered(ok, iso.ack, iso) /\ child' = AtRest(child)
  BY DEF Reply
<1>3. QED
  BY <1>1, <1>2, ReplySteps DEF Upheld

\* A runtime is taken for a plugin that has none.
LEMMA TakeStarts ==
  ASSUME TypeOK, Supervised, Rest, Ready, Target \in Plugin, Target \notin Slots, Take(Target, child)
  PROVE  Upheld
<1>1. queue # <<>> /\ iso.at = "rest" /\ iso.open
  BY DEF Ready
<1>2. Gone(child, Fresh) /\ ~child[Target].there
  BY Places DEF TypeOK, Gone
<1>3. (\A x \in Place : Fine(child[x])) /\ ~child[Fresh].there
  BY <1>1, Started
<1>4. QED
  BY <1>1, <1>2, <1>3, TakeSteps DEF Upheld

\* Runtimes are asked while a call runs.
LEMMA AskOne ==
  ASSUME TypeOK, Supervised, Rest, queue # <<>>, \A x \in Place : Fine(child[x]), iso.open,
         NEW x \in Place, NEW kind \in Kinds \ {"unload"}, NEW env \in Nat,
         child' = [child EXCEPT ![x] = Ask(@, kind, env)],
         iso' \in Iso, iso'.open = iso.open, iso'.on = iso.on, UNCHANGED <<queue, bridge>>,
         iso'.at \notin {"retire", "shut", "open", "rest"},
         iso'.at \in {"load", "ready", "salvage"} \cup OpeningFresh => iso.on \in Plugin,
         iso'.at \in OpeningFresh <=> iso.at \in OpeningFresh,
         iso'.at = "spare" => Running.kind \in {"snapshot", "env"}
  PROVE  Upheld
<1>1. child \in [Place -> Child]
  BY DEF TypeOK
<1>2. child' = [y \in Place |-> child'[y]] /\ child'[x] = Ask(child[x], kind, env)
      /\ \A y \in Place \ {x} : child'[y] = child[y]
  BY <1>1
<1>3. AsksSome
  BY <1>2 DEF AsksSome
<1>4. QED
  BY <1>2, <1>3, AskSteps DEF Upheld

\* Every slot is asked.
LEMMA AskEvery ==
  ASSUME TypeOK, Supervised, Rest, queue # <<>>, \A x \in Place : Fine(child[x]), iso.open,
         NEW kind \in Kinds \ {"unload"}, NEW i \in Iso, i.open = iso.open, i.on = iso.on,
         AsksAll(kind, i), iso.at \notin OpeningFresh
  PROVE  Upheld
<1>1. iso' = [i EXCEPT !.at = "every"] /\ UNCHANGED <<queue, bridge>>
  BY DEF AsksAll, Goes
<1>2. iso' \in Iso /\ iso'.at = "every" /\ iso'.open = iso.open /\ iso'.on = iso.on
  BY <1>1 DEF Iso, Wait
<1>3. Running.env \in Nat
  BY RunningFacts
<1>4. child' = [x \in Place |-> IF x \in Slots THEN Ask(child[x], kind, Running.env) ELSE child[x]]
  BY DEF AsksAll
<1>5. child' = [y \in Place |-> child'[y]] /\ AsksSome
  BY <1>3, <1>4 DEF AsksSome
<1>6. QED
  BY <1>1, <1>2, <1>5, AskSteps DEF Upheld, OpeningFresh

\* Each action keeps the invariant.  load: the old slot is retired first.
LEMMA StartLoadKeeps == TypeOK /\ Supervised /\ StartLoad => Upheld
<1> SUFFICES ASSUME TypeOK, Supervised, StartLoad PROVE Upheld
  OBVIOUS
<1>1. Ready /\ Running.kind = "load" /\ Rest
  BY DEF StartLoad, Runs
<1>2. Target \in Plugin
  BY <1>1, Started DEF Ready, Targeted
<1>3. CASE Target \in Slots
  BY <1>1, <1>3, RetireStarts DEF StartLoad
<1>4. CASE Target \notin Slots
  BY <1>1, <1>2, <1>4, TakeStarts DEF StartLoad
<1>5. QED
  BY <1>3, <1>4

\* reload, of a plugin that has a slot.
LEMMA StartReloadKeeps == TypeOK /\ Supervised /\ StartReload => Upheld
<1> SUFFICES ASSUME TypeOK, Supervised, StartReload PROVE Upheld
  OBVIOUS
<1>1. Ready /\ Running.kind = "reload" /\ Rest
  BY DEF StartReload, Runs
<1>2. CASE Target \in Slots
  BY <1>1, <1>2, RetireStarts DEF StartReload
<1>3. CASE Target \notin Slots
  BY <1>1, <1>3, ReplyStarts DEF StartReload, Ready, OpeningFresh
<1>4. QED
  BY <1>2, <1>3

\* unload, of a plugin that has a slot.
LEMMA StartUnloadKeeps == TypeOK /\ Supervised /\ StartUnload => Upheld
<1> SUFFICES ASSUME TypeOK, Supervised, StartUnload PROVE Upheld
  OBVIOUS
<1>1. Ready /\ Running.kind = "unload" /\ Rest
  BY DEF StartUnload, Runs
<1>2. CASE Target \in Slots
  BY <1>1, <1>2, RetireStarts DEF StartUnload
<1>3. CASE Target \notin Slots
  BY <1>1, <1>3, ReplyStarts DEF StartUnload, Ready, OpeningFresh
<1>4. QED
  BY <1>2, <1>3

\* unloadAll: the first slot is retired.
LEMMA StartUnloadAllKeeps == TypeOK /\ Supervised /\ StartUnloadAll => Upheld
<1> SUFFICES ASSUME TypeOK, Supervised, StartUnloadAll PROVE Upheld
  OBVIOUS
<1>1. Ready /\ Running.kind = "unloadAll" /\ Rest
  BY DEF StartUnloadAll, Runs
<1>2. CASE Slots = {}
  BY <1>1, <1>2, ReplyStarts DEF StartUnloadAll, Ready, OpeningFresh
<1>3. CASE Slots # {}
  <2>1. PICK p \in Slots : Retire(p, Slots \ {p})
    BY <1>3 DEF StartUnloadAll
  <2>2. Slots \ {p} \in SUBSET Plugin
    BY Places
  <2>3. QED
    BY <1>1, <2>1, <2>2, RetireStarts
<1>4. QED
  BY <1>2, <1>3

\* A request to one plugin.
LEMMA StartCallKeeps == TypeOK /\ Supervised /\ StartCall => Upheld
<1> SUFFICES ASSUME TypeOK, Supervised, StartCall PROVE Upheld
  OBVIOUS
<1>1. Ready /\ Running.kind \in {"call", "view"} /\ Rest
  BY DEF StartCall, Runs
<1>2. queue # <<>> /\ iso.at = "rest" /\ iso.open
  BY <1>1 DEF Ready
<1>3. (\A x \in Place : Fine(child[x])) /\ iso \in Iso /\ Target \in Plugin /\ Running.env \in Nat
  BY <1>1, <1>2, Started DEF Targeted
<1>4. CASE Target \notin Slots
  <2>1. Reply(FALSE)
    BY <1>4 DEF StartCall
  <2>2. QED
    BY <1>1, <1>2, <2>1, ReplyStarts DEF OpeningFresh
<1>5. CASE Target \in Slots /\ Running.kind = "view"
  <2>1. AsksAll("snapshot", iso) /\ "snapshot" \in Kinds \ {"unload"}
    BY <1>5 DEF StartCall, Kinds
  <2>2. QED
    BY <1>1, <1>2, <1>3, <2>1, AskEvery DEF OpeningFresh
<1>6. CASE Target \in Slots /\ Running.kind # "view"
  <2>1. Asks(Target, "call", [iso EXCEPT !.at = "one"]) /\ "call" \in Kinds \ {"unload"}
    BY <1>6 DEF StartCall, Kinds
  <2>2. /\ child' = [child EXCEPT ![Target] = Ask(@, "call", Running.env)]
        /\ iso' = [iso EXCEPT !.at = "one"] /\ UNCHANGED <<queue, bridge>>
    BY <2>1 DEF Asks, Goes
  <2>3. iso' \in Iso /\ iso'.open = iso.open /\ iso'.on = iso.on /\ iso'.at = "one" /\ Target \in Place
    BY <1>3, <2>2, Places DEF Iso, Wait
  <2>4. QED
    BY <1>1, <1>2, <1>3, <2>1, <2>2, <2>3, AskOne DEF OpeningFresh
<1>7. QED
  BY <1>4, <1>5, <1>6

\* A request to every runtime.
LEMMA StartEverywhereKeeps == TypeOK /\ Supervised /\ StartEverywhere => Upheld
<1> SUFFICES ASSUME TypeOK, Supervised, StartEverywhere PROVE Upheld
  OBVIOUS
<1>1. Ready /\ Running.kind \in {"snapshot", "notify", "layout", "env"} /\ Rest
  BY DEF StartEverywhere, Runs
<1>2. queue # <<>> /\ iso.at = "rest" /\ iso.open
  BY <1>1 DEF Ready
<1>3. (\A x \in Place : Fine(child[x])) /\ iso \in Iso /\ Running.env \in Nat
      /\ Running.kind \in Kinds \ {"unload"}
  BY <1>1, <1>2, Started
<1>4. CASE child[Spare].there /\ Running.kind \in {"snapshot", "env"}
  <2>1. /\ child' = [child EXCEPT ![Spare] = Ask(@, Running.kind, Running.env)]
        /\ iso' = [iso EXCEPT !.at = "spare"] /\ UNCHANGED <<queue, bridge>>
    BY <1>4 DEF StartEverywhere, Asks, Goes
  <2>2. iso' \in Iso /\ iso'.open = iso.open /\ iso'.on = iso.on /\ iso'.at = "spare" /\ Spare \in Place
    BY <1>3, <2>1, Places DEF Iso, Wait
  <2>3. QED
    BY <1>1, <1>2, <1>3, <1>4, <2>1, <2>2, AskOne DEF OpeningFresh
<1>5. CASE ~(child[Spare].there /\ Running.kind \in {"snapshot", "env"})
  <2> DEFINE i == [iso EXCEPT !.layout = @ \/ Running.kind = "layout"]
  <2>1. AsksAll(Running.kind, i)
    BY <1>5 DEF StartEverywhere
  <2>2. i \in Iso /\ i.open = iso.open /\ i.on = iso.on
    <3>1. (iso.layout \/ Running.kind = "layout") \in BOOLEAN
      BY <1>3 DEF Iso
    <3>2. QED
      BY <1>3, <3>1 DEF Iso
  <2>3. QED
    BY <1>1, <1>2, <1>3, <2>1, <2>2, AskEvery DEF OpeningFresh
<1>6. QED
  BY <1>4, <1>5

\* A call after the close.
LEMMA RefuseKeeps == TypeOK /\ Supervised /\ Refuse => Upheld
BY ReplyStarts DEF Refuse, OpeningFresh

\* What a call refused during the close leaves in the queue.
LEMMA RefusedFacts ==
  ASSUME queue \in Seq(Op), Len(queue) > 1, queue' = [Tail(queue) EXCEPT ![1] = Running]
  PROVE  /\ queue' \in Seq(Op) /\ queue' # <<>> /\ Running' = Running /\ Target' = Target
         /\ \A j \in DOMAIN queue' : queue'[j] = queue[IF j = 1 THEN 1 ELSE j + 1]
         /\ \A j \in DOMAIN queue' : (IF j = 1 THEN 1 ELSE j + 1) \in DOMAIN queue \ {2}
         /\ 2 \in DOMAIN queue
<1> DEFINE t == Tail(queue)
<1>1. /\ t \in Seq(Op) /\ Len(t) = Len(queue) - 1 /\ DOMAIN t = 1 .. Len(queue) - 1
      /\ \A j \in 1 .. Len(queue) - 1 : t[j] = queue[j + 1]
      /\ Len(queue) \in Nat /\ DOMAIN queue = 1 .. Len(queue) /\ Running \in Op
  BY DEF Running
<1> HIDE DEF t
<1>2. /\ DOMAIN queue' = 1 .. Len(queue) - 1
      /\ \A j \in DOMAIN queue' : queue'[j] = IF j = 1 THEN Running ELSE t[j]
  BY <1>1 DEF t
<1>3. queue' \in Seq(Op)
  <2>1. \A j \in DOMAIN queue' : queue'[j] \in Op
    BY <1>1, <1>2
  <2>2. queue' = [j \in 1 .. Len(queue) - 1 |-> queue'[j]]
    BY <1>2 DEF t
  <2>3. QED
    BY <1>1, <1>2, <2>1, <2>2
<1>4. \A j \in DOMAIN queue' : queue'[j] = queue[IF j = 1 THEN 1 ELSE j + 1]
  BY <1>1, <1>2 DEF Running
<1>5. 1 \in DOMAIN queue'
  BY <1>1, <1>2
<1>6. Running' = Running /\ Target' = Target
  BY <1>4, <1>5 DEF Running, Target
<1>7. QED
  BY <1>1, <1>2, <1>3, <1>4, <1>5, <1>6

\* A call during the close.
LEMMA RefuseClosingKeeps == TypeOK /\ Supervised /\ RefuseClosing => Upheld
<1> SUFFICES ASSUME TypeOK, Supervised, RefuseClosing PROVE Upheld
  OBVIOUS
<1>1. /\ iso.at = "close" /\ queue' = [Tail(queue) EXCEPT ![1] = Running] /\ Len(queue) > 1
      /\ bridge' = [bridge EXCEPT !.busy = @ /\ queue[2].kind # "env"]
      /\ UNCHANGED <<iso, child, process, notices, story, left>>
  BY DEF RefuseClosing, Rest
<1>2. /\ queue' \in Seq(Op) /\ queue' # <<>> /\ Running' = Running /\ Target' = Target
      /\ \A j \in DOMAIN queue' : \E k \in DOMAIN queue : queue'[j] = queue[k]
  <2>1. queue \in Seq(Op)
    BY DEF TypeOK
  <2>2. QED
    BY <1>1, <2>1, RefusedFacts
<1>3. bridge' \in [env : Nat, acked : Nat, busy : BOOLEAN]
  <2>1. (bridge.busy /\ queue[2].kind # "env") \in BOOLEAN
    BY DEF TypeOK
  <2>2. QED
    BY <1>1, <2>1 DEF TypeOK
<1>4. TypeOK'
  BY <1>1, <1>2, <1>3 DEF TypeOK
<1>5. Owned'
  BY <1>1, OwnedStays DEF Supervised, Continues, SameRenderer
<1>6. Queued'
  BY <1>1, <1>2 DEF Supervised, Stands, Queued
<1>7. Served'
  BY <1>1, <1>2 DEF Supervised, Stands, Served, OpeningFresh
<1>8. Ended' /\ Renewed' /\ Closings' /\ Unloads' /\ \A x \in Place : Sound(child'[x])
  BY <1>1 DEF Supervised, Stands, Ended, Renewed, Closings, Unloads
<1>9. Homely
  BY <1>1 DEF Homely, SameRenderer
<1>10. QED
  BY <1>4, <1>5, <1>6, <1>7, <1>8, <1>9 DEF Upheld, Supervised, Stands

\* close: every runtime is asked to close.
LEMMA StartCloseKeeps == TypeOK /\ Supervised /\ StartClose => Upheld
<1> SUFFICES ASSUME TypeOK, Supervised, StartClose PROVE Upheld
  OBVIOUS
<1>1. Ready /\ Rest /\ queue # <<>> /\ iso.at = "rest" /\ iso.open
  BY DEF StartClose, Runs, Ready
<1>2. (\A x \in Place : Fine(child[x])) /\ iso \in Iso /\ ~child[Fresh].there
  BY <1>1, Started
<1>3. iso' = [iso EXCEPT !.open = FALSE, !.at = "close"] /\ UNCHANGED <<queue, bridge>>
  BY DEF StartClose, Goes
<1>4. iso' \in Iso /\ ~iso'.open /\ iso'.at = "close"
  BY <1>2, <1>3 DEF Iso, Wait
<1>5. /\ child' = [x \in Place |-> child'[x]]
      /\ \A x \in Place : child'[x] = Close(child[x]) \/ child'[x] = child[x]
  BY DEF StartClose
<1>6. \A x \in Place : /\ child'[x] \in Child /\ SameRenderer(child[x], child'[x]) /\ Sound(child'[x])
                       /\ ~(child'[x].at = "asked" /\ child'[x].op = "unload")
  BY <1>2, <1>5, FineFacts DEF Fine, SameRenderer, Calm
<1>7. TypeOK'
  BY <1>1, <1>3, <1>4, <1>5, <1>6, TypedSteps DEF TypeOK
<1>8. Owned'
  BY <1>1, <1>6, OwnedStays DEF Continues, Supervised, Rest
<1>9. Queued' /\ Ended' /\ Served'
  BY <1>1, <1>3, <1>4 DEF Supervised, Stands, Queued, Ended, Served, OpeningFresh
<1>10. Renewed' /\ Closings' /\ Unloads'
  BY <1>2, <1>4, <1>6, Places DEF Renewed, Closings, Unloads, OpeningFresh, SameRenderer
<1>11. Homely
  BY <1>6, Places DEF Homely
<1>12. QED
  BY <1>6, <1>7, <1>8, <1>9, <1>10, <1>11 DEF Upheld, Supervised, Stands

\* What holds in the middle of a call.
LEMMA Midway ==
  ASSUME TypeOK, Supervised, iso.at \notin {"rest", "close"}
  PROVE  /\ queue # <<>> /\ iso.open /\ iso \in Iso /\ child \in [Place -> Child]
         /\ Running.kind \in Kinds /\ Running.env \in Nat
         /\ Running.kind \in Targeted => Target \in Plugin
<1>1. queue # <<>> /\ iso.open
  BY DEF Supervised, Stands, Queued, Ended, TypeOK, Iso
<1>2. QED
  BY <1>1, RunningFacts DEF TypeOK

\* The plugin is unloaded; its runtime is asked to close.
LEMMA RetiredKeeps == TypeOK /\ Supervised /\ Retired => Upheld
<1> SUFFICES ASSUME TypeOK, Supervised, Retired PROVE Upheld
  OBVIOUS
<1>1. Rest /\ iso.at = "retire" /\ Settled(iso.on)
  BY DEF Retired
<1>2. queue # <<>> /\ iso.open /\ iso \in Iso /\ child \in [Place -> Child]
  BY <1>1, Midway
<1>3. \A x \in Place : Fine(child[x])
  BY <1>1, CalmSteps
<1>4. iso.on \in Plugin /\ iso.on \in Place /\ iso.on # Fresh /\ Fresh \in Place /\ ~child[Fresh].there
  BY <1>1, Places DEF Supervised, Stands, Served, Renewed, OpeningFresh
<1>5. iso' = [iso EXCEPT !.at = "shut", !.err = ~Ok(iso.on)] /\ UNCHANGED <<queue, bridge>>
  BY DEF Retired, Goes
<1>6. /\ iso' \in Iso /\ iso'.at = "shut" /\ iso'.open = iso.open /\ iso'.on = iso.on
      /\ iso'.todo = iso.todo
  <2>1. Ok(iso.on) \in BOOLEAN
    BY DEF Ok
  <2>2. QED
    BY <1>2, <1>5, <2>1 DEF Iso, Wait
<1>7. /\ child'[iso.on] = Close(child[iso.on]) /\ \A y \in Place \ {iso.on} : child'[y] = child[y]
      /\ child' = [y \in Place |-> child'[y]]
  BY <1>2, <1>4 DEF Retired
<1>8. /\ child'[iso.on] \in Child /\ SameRenderer(child[iso.on], child'[iso.on])
      /\ Sound(child'[iso.on]) /\ ~(child'[iso.on].at = "asked" /\ child'[iso.on].op = "unload")
  BY <1>2, <1>4, <1>7, FineFacts
<1>9. child' \in [Place -> Child] /\ \A y \in Place : Sound(child'[y])
  BY <1>2, <1>3, <1>7, <1>8 DEF Fine
<1>10. TypeOK'
  BY <1>1, <1>5, <1>6, <1>9, TypedSteps DEF TypeOK
<1>11. \A y \in Place : SameRenderer(child[y], child'[y])
  BY <1>7, <1>8 DEF SameRenderer
<1>12. Owned'
  BY <1>1, <1>11, OwnedStays DEF Continues, Supervised, Rest
<1>13. Queued' /\ Ended' /\ Served'
  BY <1>1, <1>2, <1>5, <1>6 DEF Supervised, Stands, Queued, Ended, Served, OpeningFresh, Running, Target
<1>14. Renewed' /\ Closings' /\ Unloads'
  BY <1>3, <1>4, <1>6, <1>7, <1>8 DEF Renewed, Closings, Unloads, OpeningFresh, Fine, Calm
<1>15. Homely
  BY <1>11, Places DEF Homely
<1>16. QED
  BY <1>9, <1>10, <1>12, <1>13, <1>14, <1>15 DEF Upheld, Supervised, Stands

\* The runtime has closed: the next one, a new one, or the answer.
LEMMA ShutKeeps == TypeOK /\ Supervised /\ Shut => Upheld
<1> SUFFICES ASSUME TypeOK, Supervised, Shut PROVE Upheld
  OBVIOUS
<1> DEFINE ch == [child EXCEPT ![iso.on] = NoChild]
<1>1. Rest /\ iso.at = "shut" /\ child[iso.on].at = "shut"
  BY DEF Shut
<1>2. queue # <<>> /\ iso.open /\ iso \in Iso /\ child \in [Place -> Child]
  BY <1>1, Midway
<1>3. \A x \in Place : Fine(child[x])
  BY <1>1, CalmSteps
<1>4. /\ iso.on \in Plugin /\ iso.on \in Place /\ iso.on # Fresh /\ iso.on # Spare /\ Spare \in Place
      /\ ~child[Fresh].there
      /\ \/ Running.kind = "unloadAll"
         \/ Running.kind \in {"load", "reload", "unload"} /\ Target = iso.on /\ iso.todo = {}
  BY <1>1, Places DEF Supervised, Stands, Served, Renewed, OpeningFresh
<1>5. ~Alive(child[iso.on])
  BY <1>1, <1>4 DEF Supervised, Sound
<1>6. Gone(ch, Fresh) /\ ~ch[iso.on].there /\ ch[Spare] = child[Spare]
  BY <1>2, <1>4, <1>5, Unborn DEF Gone
<1>7. CASE iso.err \/ (Running.kind \in {"unload", "unloadAll"} /\ iso.todo = {})
  <2>1. Answered(~iso.err, 0, iso) /\ child' = ch /\ (~iso.err) \in BOOLEAN
    BY <1>7 DEF Shut
  <2>2. QED
    BY <1>1, <1>2, <1>3, <1>4, <1>5, <2>1, EmptySteps DEF Upheld
<1>8. CASE ~iso.err /\ iso.todo # {}
  <2>1. PICK p \in iso.todo : /\ child' = [ch EXCEPT ![p] = Ask(@, "unload", 0)]
                              /\ Goes([iso EXCEPT !.on = p, !.todo = @ \ {p}, !.at = "retire"])
    BY <1>8 DEF Shut
  <2>2. p \in Plugin /\ Running.kind = "unloadAll"
    BY <1>2, <1>4 DEF Iso
  <2>3. iso' = [iso EXCEPT !.on = p, !.todo = @ \ {p}, !.at = "retire"] /\ UNCHANGED <<queue, bridge>>
    BY <2>1 DEF Goes
  <2>4. iso' \in Iso /\ iso'.open = iso.open /\ iso'.on = p /\ iso'.at = "retire"
    BY <1>2, <2>2, <2>3 DEF Iso, Wait
  <2> HIDE DEF ch
  <2>5. 0 \in Nat
    OBVIOUS
  <2>6. QED
    BY <1>1, <1>2, <1>3, <1>4, <1>6, <2>1, <2>2, <2>3, <2>4, <2>5, RetireSteps DEF Upheld
<1>9. CASE ~iso.err /\ iso.todo = {} /\ ~(Running.kind \in {"unload", "unloadAll"})
  <2>1. Take(iso.on, ch)
    BY <1>9 DEF Shut
  <2> HIDE DEF ch
  <2>2. QED
    BY <1>1, <1>2, <1>3, <1>4, <1>6, <2>1, TakeSteps DEF Upheld
<1>10. QED
  BY <1>7, <1>8, <1>9

\* A new runtime has opened, or could not.
LEMMA OpenedKeeps == TypeOK /\ Supervised /\ Opened => Upheld
<1> SUFFICES ASSUME TypeOK, Supervised, Opened PROVE Upheld
  OBVIOUS
<1>1. Rest /\ iso.at = "open" /\ Settled(Fresh) /\ Fresh \in Place
  BY Places DEF Opened
<1>2. /\ queue # <<>> /\ iso.open /\ iso \in Iso /\ child \in [Place -> Child] /\ Running.env \in Nat
      /\ iso.on \in Plugin
  BY <1>1, Midway DEF Supervised, Stands, Served, OpeningFresh
<1>3. \A x \in Place : Fine(child[x])
  BY <1>1, CalmSteps
<1>4. CASE Ok(Fresh)
  <2>1. /\ child' = [child EXCEPT ![Fresh] = Ask(@, "snapshot", Running.env)]
        /\ iso' = [iso EXCEPT !.at = "look"] /\ UNCHANGED <<queue, bridge>>
    BY <1>4 DEF Opened, Asks, Goes
  <2>2. /\ iso' \in Iso /\ iso'.open = iso.open /\ iso'.on = iso.on /\ iso'.at = "look"
        /\ "snapshot" \in Kinds \ {"unload"}
    BY <1>2, <2>1 DEF Iso, Wait, Kinds
  <2>3. QED
    BY <1>1, <1>2, <1>3, <2>1, <2>2, AskOne DEF OpeningFresh
<1>5. CASE ~Ok(Fresh)
  <2>1. Answered(FALSE, 0, iso) /\ child' = [child EXCEPT ![Fresh] = NoChild]
    BY <1>5 DEF Opened
  <2>2. ~Alive(child[Fresh])
    BY <1>1, <1>5 DEF Settled, Ok, Supervised, Stands, Renewed, Starts
  <2>3. QED
    BY <1>1, <1>2, <1>3, <2>1, <2>2, EmptySteps DEF Upheld
<1>6. QED
  BY <1>4, <1>5

\* It has answered its first snapshot.
LEMMA LookedKeeps == TypeOK /\ Supervised /\ Looked => Upheld
<1> SUFFICES ASSUME TypeOK, Supervised, Looked PROVE Upheld
  OBVIOUS
<1>1. Rest /\ iso.at = "look" /\ Settled(Fresh) /\ Fresh \in Place /\ iso.at \in OpeningFresh
  BY Places DEF Looked, OpeningFresh
<1>2. /\ queue # <<>> /\ iso.open /\ iso \in Iso /\ child \in [Place -> Child] /\ iso.on \in Plugin
      /\ iso.env \in Nat
  BY <1>1, Midway DEF Supervised, Stands, Served, Iso
<1>3. \A x \in Place : Fine(child[x])
  BY <1>1, CalmSteps
<1>4. CASE ~Ok(Fresh)
  <2>1. Drops
    BY <1>4 DEF Looked
  <2>2. QED
    BY <1>1, <1>2, <1>3, <2>1, DropSteps DEF Upheld
<1>5. CASE Ok(Fresh) /\ iso.env > 0
  <2>1. /\ child' = [child EXCEPT ![Fresh] = Ask(@, "env", iso.env)]
        /\ iso' = [iso EXCEPT !.at = "dress"] /\ UNCHANGED <<queue, bridge>>
    BY <1>5 DEF Looked, Goes
  <2>2. /\ iso' \in Iso /\ iso'.open = iso.open /\ iso'.on = iso.on /\ iso'.at = "dress"
        /\ "env" \in Kinds \ {"unload"}
    BY <1>2, <2>1 DEF Iso, Wait, Kinds
  <2>3. QED
    BY <1>1, <1>2, <1>3, <2>1, <2>2, AskOne DEF OpeningFresh
<1>6. CASE Ok(Fresh) /\ ~(iso.env > 0)
  <2>1. Installs
    BY <1>6 DEF Looked
  <2>2. QED
    BY <1>1, <1>2, <1>3, <2>1, InstallSteps DEF Upheld
<1>7. QED
  BY <1>4, <1>5, <1>6

\* It has the environment.
LEMMA DressedKeeps == TypeOK /\ Supervised /\ Dressed => Upheld
<1> SUFFICES ASSUME TypeOK, Supervised, Dressed PROVE Upheld
  OBVIOUS
<1>1. Rest /\ iso.at = "dress" /\ iso.at \in OpeningFresh
  BY DEF Dressed, OpeningFresh
<1>2. queue # <<>> /\ iso.open
  BY <1>1, Midway
<1>3. \A x \in Place : Fine(child[x])
  BY <1>1, CalmSteps
<1>4. Installs \/ Drops
  BY DEF Dressed
<1>5. QED
  BY <1>1, <1>2, <1>3, <1>4, InstallSteps, DropSteps DEF Upheld

\* It has been closed again.
LEMMA DroppedKeeps == TypeOK /\ Supervised /\ Dropped => Upheld
<1> SUFFICES ASSUME TypeOK, Supervised, Dropped PROVE Upheld
  OBVIOUS
<1>1. Rest /\ iso.at = "drop" /\ child[Fresh].at = "shut" /\ Fresh \in Place
      /\ Answered(FALSE, 0, iso) /\ child' = [child EXCEPT ![Fresh] = NoChild]
  BY Places DEF Dropped
<1>2. queue # <<>> /\ iso.open
  BY <1>1, Midway
<1>3. \A x \in Place : Fine(child[x])
  BY <1>1, CalmSteps
<1>4. ~Alive(child[Fresh])
  BY <1>1 DEF Supervised, Sound
<1>5. QED
  BY <1>1, <1>2, <1>3, <1>4, EmptySteps DEF Upheld

\* A plugin's runtime is asked after it was loaded.
LEMMA AfterLoad ==
  ASSUME TypeOK, Supervised, Rest, iso.at \in {"load", "ready"},
         NEW kind \in {"snapshot", "layout"}, NEW at \in {"salvage", "ready"},
         Asks(iso.on, kind, [iso EXCEPT !.at = at])
  PROVE  Upheld
<1>1. /\ queue # <<>> /\ iso.open /\ iso \in Iso /\ Running.env \in Nat
      /\ iso.on \in Plugin /\ iso.on \in Place
  BY Midway, Places DEF Supervised, Stands, Served
<1>2. \A x \in Place : Fine(child[x])
  BY CalmSteps
<1>3. /\ child' = [child EXCEPT ![iso.on] = Ask(@, kind, Running.env)]
      /\ iso' = [iso EXCEPT !.at = at] /\ UNCHANGED <<queue, bridge>>
  BY DEF Asks, Goes
<1>4. /\ iso' \in Iso /\ iso'.open = iso.open /\ iso'.on = iso.on /\ iso'.at = at
      /\ kind \in Kinds \ {"unload"}
  BY <1>1, <1>3 DEF Iso, Wait, Kinds
<1>5. QED
  BY <1>1, <1>2, <1>3, <1>4, AskOne DEF OpeningFresh

\* The plugin is loaded, or is not.
LEMMA LoadedKeeps == TypeOK /\ Supervised /\ Loaded => Upheld
<1> SUFFICES ASSUME TypeOK, Supervised, Loaded PROVE Upheld
  OBVIOUS
<1>1. Rest /\ iso.at = "load" /\ queue # <<>>
  BY Midway DEF Loaded
<1>2. CASE ~Ok(iso.on)
  <2>1. Asks(iso.on, "snapshot", [iso EXCEPT !.at = "salvage"])
    BY <1>2 DEF Loaded
  <2>2. QED
    BY <1>1, <2>1, AfterLoad
<1>3. CASE Ok(iso.on) /\ iso.layout
  <2>1. Asks(iso.on, "layout", [iso EXCEPT !.at = "ready"])
    BY <1>3 DEF Loaded
  <2>2. QED
    BY <1>1, <2>1, AfterLoad
<1>4. CASE Ok(iso.on) /\ ~iso.layout
  <2>1. Reply(TRUE)
    BY <1>4 DEF Loaded
  <2>2. QED
    BY <1>1, <2>1, ReplyStarts DEF OpeningFresh
<1>5. QED
  BY <1>2, <1>3, <1>4

\* It has been told of the layout.
LEMMA LayoutToldKeeps == TypeOK /\ Supervised /\ LayoutTold => Upheld
<1> SUFFICES ASSUME TypeOK, Supervised, LayoutTold PROVE Upheld
  OBVIOUS
<1>1. Rest /\ iso.at = "ready" /\ queue # <<>>
  BY Midway DEF LayoutTold
<1>2. CASE Ok(iso.on)
  BY <1>1, <1>2, ReplyStarts DEF LayoutTold, OpeningFresh
<1>3. CASE ~Ok(iso.on)
  <2>1. Asks(iso.on, "snapshot", [iso EXCEPT !.at = "salvage"])
    BY <1>3 DEF LayoutTold
  <2>2. QED
    BY <1>1, <2>1, AfterLoad
<1>4. QED
  BY <1>2, <1>3

\* The slot of a plugin that could not be loaded stays.
LEMMA SalvagedKeeps == TypeOK /\ Supervised /\ Salvaged => Upheld
BY Midway, ReplyStarts DEF Salvaged, OpeningFresh

\* The idle runtime has answered.
LEMMA SpareToldKeeps == TypeOK /\ Supervised /\ SpareTold => Upheld
<1> SUFFICES ASSUME TypeOK, Supervised, SpareTold PROVE Upheld
  OBVIOUS
<1>1. Rest /\ iso.at = "spare" /\ child[Spare].at \in {"ok", "error"}
  BY DEF SpareTold, Settled
<1>2. queue # <<>> /\ iso.open /\ iso \in Iso /\ child \in [Place -> Child]
  BY <1>1, Midway
<1>3. \A x \in Place : Fine(child[x])
  BY <1>1, CalmSteps
<1>4. CASE Ok(Spare)
  <2> DEFINE i == [iso EXCEPT !.ack = child[Spare].ack]
  <2>1. AsksAll(Running.kind, i)
    BY <1>4 DEF SpareTold
  <2>2. i \in Iso /\ i.open = iso.open /\ i.on = iso.on
    <3>1. child[Spare].ack \in Nat
      BY <1>2, Places DEF Child
    <3>2. QED
      BY <1>2, <3>1 DEF Iso
  <2>3. Running.kind \in Kinds \ {"unload"}
    <3>1. Running.kind \in Kinds
      BY <1>1, Midway
    <3>2. QED
      BY <1>1, <3>1 DEF Supervised, Stands, Served
  <2>4. QED
    BY <1>1, <1>2, <1>3, <2>1, <2>2, <2>3, AskEvery DEF OpeningFresh
<1>5. CASE ~Ok(Spare)
  <2>1. Reply(FALSE)
    BY <1>5 DEF SpareTold
  <2>2. QED
    BY <1>1, <1>2, <2>1, ReplyStarts DEF OpeningFresh
<1>6. QED
  BY <1>4, <1>5

\* Every slot has answered.
LEMMA EveryToldKeeps == TypeOK /\ Supervised /\ EveryTold => Upheld
<1> SUFFICES ASSUME TypeOK, Supervised, EveryTold PROVE Upheld
  OBVIOUS
<1> DEFINE ok == \A p \in Slots : Ok(p)
           acks == IF iso.ack > 0 THEN {iso.ack}
                   ELSE IF Slots = {} THEN {Running.env} ELSE {child[p].ack : p \in Slots}
<1>1. Rest /\ iso.at = "every" /\ iso.at \notin {"shut", "drop", "close", "retire"} \cup OpeningFresh
  BY DEF EveryTold, OpeningFresh
<1>2. /\ queue # <<>> /\ iso.open /\ iso \in Iso /\ child \in [Place -> Child] /\ Running.env \in Nat
      /\ Running.kind \in Targeted => Target \in Plugin
  BY <1>1, Midway
<1>3. \A x \in Place : Fine(child[x])
  BY <1>1, CalmSteps
<1>4. CASE ~ok
  <2>1. Reply(FALSE)
    BY <1>4 DEF EveryTold
  <2>2. QED
    BY <1>1, <1>2, <2>1, ReplyStarts
<1>5. CASE ok /\ Running.kind = "view"
  <2>1. Asks(Target, "view", [iso EXCEPT !.at = "one"])
    BY <1>5 DEF EveryTold
  <2>2. /\ child' = [child EXCEPT ![Target] = Ask(@, "view", Running.env)]
        /\ iso' = [iso EXCEPT !.at = "one"] /\ UNCHANGED <<queue, bridge>>
    BY <2>1 DEF Asks, Goes
  <2>3. /\ iso' \in Iso /\ iso'.open = iso.open /\ iso'.on = iso.on /\ iso'.at = "one"
        /\ "view" \in Kinds \ {"unload"} /\ Target \in Place
    BY <1>2, <1>5, <2>2, Places DEF Iso, Wait, Kinds, Targeted
  <2>4. QED
    BY <1>1, <1>2, <1>3, <2>2, <2>3, AskOne DEF OpeningFresh
<1>6. CASE ok /\ Running.kind = "env"
  <2>1. PICK a \in acks : Answered(TRUE, a, [iso EXCEPT !.env = Running.env])
    BY <1>6 DEF EveryTold
  <2>2. child' = AtRest(child)
    BY <1>6 DEF EveryTold
  <2>3. a \in Nat
    <3>1. iso.ack \in Nat
      BY <1>2 DEF Iso
    <3>2. \A p \in Slots : child[p].ack \in Nat
      BY <1>2, Places DEF Child
    <3>3. QED
      BY <1>2, <3>1, <3>2
  <2>4. [iso EXCEPT !.env = Running.env] \in Iso /\ [iso EXCEPT !.env = Running.env].open = iso.open
    BY <1>2 DEF Iso
  <2>5. QED
    BY <1>1, <1>2, <2>1, <2>2, <2>3, <2>4, ReplySteps DEF Upheld
<1>7. CASE ok /\ Running.kind \notin {"view", "env"}
  <2>1. Reply(TRUE)
    BY <1>7 DEF EveryTold
  <2>2. QED
    BY <1>1, <1>2, <2>1, ReplyStarts
<1>8. QED
  BY <1>4, <1>5, <1>6, <1>7

\* One plugin has answered.
LEMMA OneToldKeeps == TypeOK /\ Supervised /\ OneTold => Upheld
<1> SUFFICES ASSUME TypeOK, Supervised, OneTold PROVE Upheld
  OBVIOUS
<1>1. Rest /\ iso.at = "one" /\ Reply(Ok(Target)) /\ Ok(Target) \in BOOLEAN
  BY DEF OneTold, Ok
<1>2. queue # <<>>
  BY <1>1, Midway
<1>3. QED
  BY <1>1, <1>2, ReplyStarts DEF OpeningFresh

\* Every runtime has closed.
LEMMA AllClosedKeeps == TypeOK /\ Supervised /\ AllClosed => Upheld
<1> SUFFICES ASSUME TypeOK, Supervised, AllClosed PROVE Upheld
  OBVIOUS
<1>1. /\ Rest /\ iso.at = "close" /\ (\A x \in There : child[x].at = "shut")
      /\ Answered(TRUE, 0, iso) /\ child' = [x \in Place |-> NoChild]
  BY DEF AllClosed
<1>2. queue # <<>> /\ iso \in Iso
  BY <1>1 DEF Supervised, Stands, Queued, TypeOK
<1>3. /\ queue' \in Seq(Op) /\ iso' \in Iso /\ bridge' \in [env : Nat, acked : Nat, busy : BOOLEAN]
      /\ iso'.at = "rest" /\ Queued'
  BY <1>1, <1>2, AnsweredFacts
<1>4. \A x \in Place : ~Alive(child[x]) /\ child'[x] = NoChild
  BY <1>1 DEF Supervised, Sound, Owned, Housed, There
<1>5. child' \in [Place -> Child] /\ TypeOK'
  BY <1>1, <1>3, Unborn, TypedSteps
<1>6. Owned'
  BY <1>1, <1>4, Unborn, OwnedStays DEF Continues, Supervised, Rest
<1>7. Ended' /\ Served' /\ Renewed' /\ Closings' /\ Unloads' /\ \A x \in Place : Sound(child'[x])
  BY <1>3, <1>4, Unborn, Places DEF Ended, Served, Renewed, Closings, Unloads, OpeningFresh
<1>8. Homely
  BY <1>4, Places DEF Homely
<1>9. QED
  BY <1>3, <1>5, <1>6, <1>7, <1>8 DEF Upheld, Supervised, Stands

\* All of them.
LEMMA IsolatedKeeps == TypeOK /\ Supervised /\ Isolated => Upheld /\ Rest
<1>1. Isolated => Rest
  BY DEF Isolated, StartLoad, StartReload, StartUnload, StartUnloadAll, StartCall, StartEverywhere,
     StartClose, Refuse, RefuseClosing, Retired, Shut, Opened, Looked, Dressed, Dropped, Loaded,
     LayoutTold, Salvaged, SpareTold, EveryTold, OneTold, AllClosed
<1>2. QED
  BY <1>1, StartLoadKeeps, StartReloadKeeps, StartUnloadKeeps, StartUnloadAllKeeps, StartCallKeeps,
     StartEverywhereKeeps, StartCloseKeeps, RefuseKeeps, RefuseClosingKeeps,
     RetiredKeeps, ShutKeeps, OpenedKeeps,
     LookedKeeps, DressedKeeps, DroppedKeeps, LoadedKeeps, LayoutToldKeeps, SalvagedKeeps,
     SpareToldKeeps, EveryToldKeeps, OneToldKeeps, AllClosedKeeps DEF Isolated
-----------------------------------------------------------------------------
(* The steps of the renderers and of the runtimes that wait for them.      *)

\* A renderer starts for a runtime that has none.
LEMMA OwnedSpawns ==
  ASSUME Owned, NEW x \in Place, ~Alive(child[x]), NEW r, r \notin DOMAIN process, r # None,
         DOMAIN process' = DOMAIN process \cup {r}, child'[x].pid = r, child'[x].dead = "no",
         child'[x].there, \A y \in Place \ {x} : child'[y] = child[y]
  PROVE  Owned'
<1>1. Alive(child'[x])
  BY DEF Alive
<1>2. \A y \in Place : Alive(child[y]) => child[y].pid # r
  BY DEF Owned, Housed
<1>3. OnePlace'
  BY <1>2 DEF Owned, OnePlace, Alive
<1>4. Housed'
  BY DEF Owned, Housed, Alive
<1>5. Kept'
  <2> SUFFICES ASSUME NEW q \in DOMAIN process \cup {r}
               PROVE  \E y \in Place : child'[y].pid = q /\ Alive(child'[y])
    BY DEF Kept, Alive
  <2>1. CASE q = r
    BY <1>1, <2>1
  <2>2. CASE q \in DOMAIN process
    <3>1. PICK y \in Place : child[y].pid = q /\ Alive(child[y])
      BY <2>2 DEF Owned, Kept
    <3>2. QED
      BY <3>1
  <2>3. QED
    BY <2>1, <2>2
<1>6. QED
  BY <1>3, <1>4, <1>5 DEF Owned

\* No plugin stops running for the failure of another.
Homes == \A p \in Plugin : RunsIn(p) /\ ~RunsIn(p)' =>
  \/ child'[p].dead # "no"
  \/ Running.kind \in {"unloadAll", "close"}
  \/ Running.kind \in {"load", "reload", "unload"} /\ Target = p
Proc == [loaded : BOOLEAN, env : Nat, layout : BOOLEAN, hung : BOOLEAN]

\* One runtime goes on by itself.
LEMMA OwnSteps ==
  ASSUME TypeOK, Supervised, NEW x \in Place, NEW d \in Child, child' = [child EXCEPT ![x] = d],
         UNCHANGED <<queue, iso>>, d.there = child[x].there, Sound(d),
         child[x].at # "rest" \/ Alive(child[x]), d.at \notin {"closing", "asked"},
         Starts(child[x]) => Starts(d)
  PROVE  /\ child' \in [Place -> Child] /\ Stands' /\ \A y \in Place : Sound(child'[y])
         /\ child'[x] = d /\ \A y \in Place \ {x} : child'[y] = child[y]
<1>1. child \in [Place -> Child]
  BY DEF TypeOK
<1>2. child'[x] = d /\ (\A y \in Place \ {x} : child'[y] = child[y]) /\ child' \in [Place -> Child]
  BY <1>1
<1>3. \A y \in Place : Sound(child'[y])
  BY <1>2 DEF Supervised
<1>4. child[x] # NoChild
  BY Unborn
<1>5. Queued' /\ Ended' /\ Served'
  BY <1>4 DEF Supervised, Stands, Queued, Ended, Served, Running, Target, OpeningFresh
<1>6. Closings' /\ Unloads'
  BY <1>2 DEF Supervised, Stands, Closings, Unloads
<1>7. Renewed'
  <2>1. \A y \in Place : child'[y].there = child[y].there /\ (Starts(child[y]) => Starts(child'[y]))
    BY <1>2
  <2>2. iso.at \in OpeningFresh => iso.on \in Place
    BY Places DEF Supervised, Stands, Served
  <2>3. QED
    BY <2>1, <2>2, Places DEF Supervised, Stands, Renewed
<1>8. QED
  BY <1>2, <1>3, <1>5, <1>6, <1>7 DEF Stands

\* The renderer of the runtime at x is lost.
LEMMA LosingSteps ==
  ASSUME TypeOK, Supervised, NEW x \in Place, Alive(child[x]), NEW why \in Failure,
         process' = Without(child[x].pid), child' = [child EXCEPT ![x] = Lost(@, why)],
         UNCHANGED <<queue, iso, bridge, story>>, notices' \in Nat,
         left' \in [calls : Nat, faults : Nat]
  PROVE  TypeOK' /\ Supervised' /\ Homes
<1> DEFINE c == child[x]
           d == Lost(c, why)
<1>1. c \in Child /\ Sound(c) /\ why # "no" /\ child' = [child EXCEPT ![x] = d]
  BY DEF TypeOK, Supervised, Failure
<1>2. /\ d \in Child /\ d.pid = c.pid /\ d.there = c.there /\ d.dead = why /\ ~Alive(d) /\ Sound(d)
      /\ d.at \notin {"closing", "asked"}
      /\ c.at \in {"spawnFirst", "opening", "ok", "error"} => d.at \in {"spawnFirst", "ok", "error"}
  BY <1>1, LostFacts
<1>3. Starts(c) => Starts(d)
  BY <1>2 DEF Starts
<1> HIDE DEF d
<1>4. /\ child' \in [Place -> Child] /\ Stands' /\ \A y \in Place : Sound(child'[y])
      /\ child'[x] = d /\ \A y \in Place \ {x} : child'[y] = child[y]
  BY <1>1, <1>2, <1>3, OwnSteps
<1>5. Owned'
  BY <1>2, <1>4, OwnedEnds DEF Supervised
<1>6. DOMAIN process' = DOMAIN process \ {c.pid} /\ \A r \in DOMAIN process' : process'[r] = process[r]
  BY DEF Without
<1>7. TypeOK'
  BY <1>4, <1>6 DEF TypeOK
<1>8. Homes
  <2> SUFFICES ASSUME NEW p \in Plugin, RunsIn(p), p # x
               PROVE  RunsIn(p)'
    BY <1>1, <1>2, <1>4 DEF Homes
  <2>1. p \in Place /\ child'[p] = child[p] /\ Alive(child[p]) /\ child[p].there
        /\ process[child[p].pid].loaded
    BY <1>4, Places DEF RunsIn
  <2>2. child[p].pid \in DOMAIN process /\ child[p].pid # c.pid
    BY <2>1 DEF Supervised, Owned, OnePlace, Housed
  <2>3. process'[child[p].pid] = process[child[p].pid]
    BY <1>6, <2>2
  <2>4. QED
    BY <2>1, <2>3 DEF RunsIn, Alive
<1>9. QED
  BY <1>4, <1>5, <1>7, <1>8 DEF Supervised

\* The runtime at x goes on with its renderer.
LEMMA GoingSteps ==
  ASSUME TypeOK, Supervised, NEW x \in Place, Alive(child[x]), child[x].open,
         NEW d \in Child, child' = [child EXCEPT ![x] = d], SameRenderer(child[x], d), d.open,
         d.at \in {"ok", "error", "environment", "snapshot", "reload", "discard"},
         child[x].at \in {"opening", "ok"} => d.at = "ok", child[x].at # "error",
         DOMAIN process' = DOMAIN process, process'[child[x].pid] \in Proc,
         \A r \in DOMAIN process \ {child[x].pid} : process'[r] = process[r],
         process[child[x].pid].loaded /\ ~process'[child[x].pid].loaded
           => child[x].at = "asked" /\ child[x].op = "unload",
         UNCHANGED <<queue, iso, bridge, notices, story>>, left' \in [calls : Nat, faults : Nat]
  PROVE  TypeOK' /\ Supervised' /\ Homes
<1> DEFINE c == child[x]
<1>1. c \in Child /\ Sound(c)
  BY DEF TypeOK, Supervised
<1>2. Sound(d)
  BY <1>1 DEF Sound, Working, SameRenderer, Alive
<1>3. Starts(c) => Starts(d)
  <2>1. c.at # "spawnFirst"
    BY <1>1 DEF Sound
  <2>2. QED
    BY <2>1 DEF Starts
<1>4. /\ child' \in [Place -> Child] /\ Stands' /\ \A y \in Place : Sound(child'[y])
      /\ child'[x] = d /\ \A y \in Place \ {x} : child'[y] = child[y]
  BY <1>2, <1>3, OwnSteps DEF SameRenderer
<1>5. Owned'
  BY <1>4, OwnedStays DEF Supervised, Continues, SameRenderer
<1>6. TypeOK'
  <2>1. \A r \in DOMAIN process' : process'[r] \in Proc
    BY DEF TypeOK, Proc
  <2>2. QED
    BY <1>4, <2>1 DEF TypeOK, Proc
<1>7. Homes
  <2> SUFFICES ASSUME NEW p \in Plugin, RunsIn(p), ~RunsIn(p)'
               PROVE  \/ Running.kind = "unloadAll"
                      \/ Running.kind \in {"load", "reload", "unload"} /\ Target = p
    BY DEF Homes
  <2>1. p \in Place /\ Alive(child[p]) /\ child[p].there /\ process[child[p].pid].loaded
        /\ child[p].pid \in DOMAIN process
    BY Places DEF RunsIn, Supervised, Owned, Housed
  <2>2. SameRenderer(child[p], child'[p])
    BY <1>4, <2>1 DEF SameRenderer
  <2>3. ~process'[child[p].pid].loaded
    BY <2>1, <2>2 DEF RunsIn, Alive, SameRenderer
  <2>4. child[p].pid = c.pid /\ p = x
    BY <2>1, <2>3 DEF Supervised, Owned, OnePlace
  <2>5. iso.at = "retire" /\ p = iso.on
    BY <2>1, <2>3, <2>4 DEF Supervised, Stands, Unloads
  <2>6. QED
    BY <2>5 DEF Supervised, Stands, Served
<1>8. QED
  BY <1>4, <1>5, <1>6, <1>7 DEF Supervised

\* What each other step is shown to keep.
Advances == TypeOK' /\ Supervised' /\ Homes

\* The budget stays a budget.
LEMMA SpendFacts == TypeOK /\ Spend => left' \in [calls : Nat, faults : Nat]
BY DEF TypeOK, Spend

\* A renderer hangs.
LEMMA HangKeeps ==
  ASSUME TypeOK, Supervised, NEW r \in Renderer, Hang(r)
  PROVE  Advances
<1>1. /\ process' = [process EXCEPT ![r].hung = TRUE] /\ r \in DOMAIN process
      /\ UNCHANGED <<queue, iso, child, bridge, notices, story>>
  BY DEF Hang
<1>2. DOMAIN process' = DOMAIN process
      /\ \A q \in DOMAIN process : process'[q] \in Proc /\ process'[q].loaded = process[q].loaded
  BY <1>1 DEF TypeOK, Proc
<1>3. left' \in [calls : Nat, faults : Nat]
  BY SpendFacts DEF Hang
<1>4. TypeOK'
  BY <1>1, <1>2, <1>3 DEF TypeOK, Proc
<1>5. Owned'
  BY <1>1, <1>2, OwnedStays DEF Supervised, Continues, SameRenderer
<1>6. Stands' /\ \A x \in Place : Sound(child'[x])
  BY <1>1 DEF Supervised, Stands, Queued, Ended, Served, Renewed, Closings, Unloads, Running, Target
<1>7. Homes
  <2> SUFFICES ASSUME NEW p \in Plugin, RunsIn(p)
               PROVE  RunsIn(p)'
    BY DEF Homes
  <2>1. child[p].pid \in DOMAIN process
    BY Places DEF RunsIn, Supervised, Owned, Housed
  <2>2. QED
    BY <1>1, <1>2, <2>1 DEF RunsIn, Alive
<1>8. QED
  BY <1>4, <1>5, <1>6, <1>7 DEF Advances, Supervised

\* A renderer ends.
LEMMA DiesKeeps ==
  ASSUME TypeOK, Supervised, NEW r \in Renderer, NEW why \in Failure, NEW noticed \in BOOLEAN,
         Dies(r, why, noticed)
  PROVE  Advances
<1> DEFINE x == OwnerOf(r)
<1>1. x \in Place /\ child[x].pid = r /\ Alive(child[x])
  BY OwnerFacts DEF Dies, Supervised
<1>2. /\ process' = Without(child[x].pid) /\ child' = [child EXCEPT ![x] = Lost(@, why)]
      /\ UNCHANGED <<queue, iso, bridge, story>>
  BY <1>1 DEF Dies
<1>3. notices' \in Nat /\ left' \in [calls : Nat, faults : Nat]
  BY SpendFacts DEF Dies, TypeOK
<1> HIDE DEF x
<1>4. QED
  BY <1>1, <1>2, <1>3, LosingSteps DEF Advances

\* A deadline passes.
LEMMA DeadlineKeeps ==
  ASSUME TypeOK, Supervised, NEW x \in Place, Deadline(x)
  PROVE  Advances
<1>1. "other" \in Failure /\ notices' \in Nat /\ left' \in [calls : Nat, faults : Nat]
  BY DEF Failure, Deadline, TypeOK
<1>2. QED
  BY <1>1, LosingSteps DEF Deadline, Advances

\* A renderer has closed.
LEMMA ClosedKeeps ==
  ASSUME TypeOK, Supervised, NEW x \in Place, Closed(x)
  PROVE  Advances
<1>1. "other" \in Failure /\ notices' \in Nat /\ left' \in [calls : Nat, faults : Nat]
  BY DEF Failure, Closed, TypeOK
<1>2. QED
  BY <1>1, LosingSteps DEF Closed, Responds, Advances

\* A renderer starts.
LEMMA SpawnKeeps ==
  ASSUME TypeOK, Supervised, NEW x \in Place, Spawn(x)
  PROVE  Advances
<1> DEFINE r == CHOOSE q \in Renderer \ DOMAIN process : TRUE
           c == child[x]
           at == IF c.at = "spawn" THEN "initialize" ELSE "opening"
           d == [c EXCEPT !.pid = r, !.dead = "no", !.at = at]
<1>1. r \in Renderer /\ r \notin DOMAIN process /\ r # None
  <2>1. r \in Renderer \ DOMAIN process
    BY DEF Spawn
  <2>2. QED
    BY <2>1, Apart
<1>2. c \in Child /\ Sound(c) /\ c.at \in {"spawnFirst", "spawn"} /\ child \in [Place -> Child]
  BY DEF TypeOK, Supervised, Spawn
<1>3. c.open /\ c.there /\ ~Alive(c)
  BY <1>2 DEF Sound, Working
<1>4. /\ process' = [q \in DOMAIN process \cup {r} |-> IF q = r THEN NewProcess ELSE process[q]]
      /\ child' = [child EXCEPT ![x] = d]
      /\ UNCHANGED <<queue, iso, bridge, notices, story, left>>
  BY DEF Spawn
<1> HIDE DEF r
<1>5. d \in Child /\ d.pid = r /\ d.dead = "no" /\ d.at = at /\ d.there /\ d.open
      /\ d.at \in {"initialize", "opening"}
  BY <1>1, <1>2, <1>3 DEF Child, Stage
<1>6. Sound(d) /\ (Starts(c) => Starts(d))
  BY <1>2, <1>3, <1>5 DEF Sound, Starts, Working
<1> HIDE DEF d
<1>7. /\ child' \in [Place -> Child] /\ Stands' /\ \A y \in Place : Sound(child'[y])
      /\ child'[x] = d /\ \A y \in Place \ {x} : child'[y] = child[y]
  BY <1>2, <1>3, <1>4, <1>5, <1>6, OwnSteps
<1>8. DOMAIN process' = DOMAIN process \cup {r}
      /\ \A q \in DOMAIN process : process'[q] = process[q]
  BY <1>1, <1>4
<1>9. process'[r] \in Proc
  BY <1>4 DEF NewProcess, Proc
<1>10. TypeOK'
  BY <1>1, <1>4, <1>7, <1>8, <1>9 DEF TypeOK, Proc
<1>11. Owned'
  BY <1>1, <1>3, <1>5, <1>7, <1>8, OwnedSpawns DEF Supervised
<1>12. Homes
  <2> SUFFICES ASSUME NEW p \in Plugin, RunsIn(p)
               PROVE  RunsIn(p)'
    BY DEF Homes
  <2>1. p \in Place /\ Alive(child[p]) /\ child[p].pid \in DOMAIN process
    BY Places DEF RunsIn, Supervised, Owned, Housed
  <2>2. child'[p] = child[p]
    BY <1>3, <1>7, <2>1
  <2>3. QED
    BY <1>8, <2>1, <2>2 DEF RunsIn, Alive
<1>13. QED
  BY <1>7, <1>10, <1>11, <1>12 DEF Advances, Supervised

\* A plugin that throws leaves its renderer as it is.
LEMMA ThrowingSteps ==
  ASSUME TypeOK, Supervised, NEW x \in Place, NEW at \in {"error", "discard"},
         child[x].at \in {"asked", "reload"}, Responds(x), Spend,
         child' = [child EXCEPT ![x].at = at],
         UNCHANGED <<queue, iso, process, bridge, notices, story>>
  PROVE  Advances
<1> DEFINE c == child[x]
           d == [c EXCEPT !.at = at]
<1>1. c \in Child /\ Sound(c) /\ Alive(c) /\ c.pid \in DOMAIN process
      /\ child' = [child EXCEPT ![x] = d]
  BY DEF TypeOK, Supervised, Responds, Owned, Housed
<1>2. c.open
  BY <1>1 DEF Sound, Working
<1>3. d \in Child /\ SameRenderer(c, d) /\ d.open = c.open /\ d.at = at
  BY <1>1 DEF Child, Stage, SameRenderer
<1> HIDE DEF d
<1>4. process'[c.pid] \in Proc
  BY <1>1 DEF TypeOK, Proc
<1>5. left' \in [calls : Nat, faults : Nat]
  BY SpendFacts
<1>6. QED
  BY <1>1, <1>2, <1>3, <1>4, <1>5, GoingSteps DEF Advances

\* The plugin throws while it is loaded again.
LEMMA ReloadThrowsKeeps ==
  ASSUME TypeOK, Supervised, NEW x \in Place, ReloadThrows(x)
  PROVE  Advances
BY ThrowingSteps DEF ReloadThrows

\* The plugin throws in a call.
LEMMA ThrowsKeeps ==
  ASSUME TypeOK, Supervised, NEW x \in Place, Throws(x)
  PROVE  Advances
BY ThrowingSteps DEF Throws

\* A recovery goes on.
LEMMA RecoversKeeps ==
  ASSUME TypeOK, Supervised, NEW x \in Place, Recovers(x)
  PROVE  Advances
<1> DEFINE c == child[x]
           p == process[c.pid]
           settled == [c EXCEPT !.at = "ok", !.ack = p.env]
<1>1. c \in Child /\ Sound(c) /\ Alive(c) /\ c.pid \in DOMAIN process /\ p \in Proc
      /\ child \in [Place -> Child]
  BY DEF TypeOK, Supervised, Recovers, Responds, Owned, Housed, Proc
<1>2. /\ c.at \in {"opening", "initialize", "environment", "snapshot", "reload"}
      /\ UNCHANGED <<queue, iso, bridge, notices, story, left>> /\ left \in [calls : Nat, faults : Nat]
  BY DEF Recovers, TypeOK
<1>3. c.open
  BY <1>1, <1>2 DEF Sound, Working
<1>4. settled \in Child /\ SameRenderer(c, settled) /\ settled.open = c.open /\ settled.at = "ok"
  BY <1>1 DEF Child, Stage, SameRenderer, Proc
<1>5. ASSUME NEW at \in {"environment", "snapshot", "reload"}
      PROVE  LET d == [c EXCEPT !.at = at] IN
             d \in Child /\ SameRenderer(c, d) /\ d.open = c.open /\ d.at = at
  BY <1>1 DEF Child, Stage, SameRenderer
<1>6. CASE c.at = "opening"
  <2>1. child' = [child EXCEPT ![x] = settled] /\ process' = process
    BY <1>6 DEF Recovers
  <2> HIDE DEF settled
  <2>2. QED
    BY <1>1, <1>2, <1>3, <1>4, <1>6, <2>1, GoingSteps DEF Advances
<1>7. CASE c.at = "initialize"
  <2> DEFINE at == IF c.env > 0 THEN "environment" ELSE "snapshot"
             d == [c EXCEPT !.at = at]
  <2>1. child' = [child EXCEPT ![x] = d] /\ process' = process
    BY <1>7 DEF Recovers
  <2>2. at \in {"environment", "snapshot"}
    OBVIOUS
  <2>3. d \in Child /\ SameRenderer(c, d) /\ d.open = c.open /\ d.at = at
    BY <1>5, <2>2
  <2> HIDE DEF d, at
  <2>4. QED
    BY <1>1, <1>2, <1>3, <1>7, <2>1, <2>2, <2>3, GoingSteps DEF Advances
<1>8. CASE c.at = "environment"
  <2> DEFINE d == [c EXCEPT !.at = "snapshot"]
             b == [p EXCEPT !.env = c.env]
  <2>1. child' = [child EXCEPT ![x] = d] /\ process' = [process EXCEPT ![c.pid] = b]
    BY <1>8 DEF Recovers
  <2>2. d \in Child /\ SameRenderer(c, d) /\ d.open = c.open /\ d.at = "snapshot"
    BY <1>5
  <2>3. b \in Proc /\ b.loaded = p.loaded
    BY <1>1 DEF Proc, Child
  <2> HIDE DEF d, b
  <2>4. /\ DOMAIN process' = DOMAIN process /\ process'[c.pid] = b
        /\ \A r \in DOMAIN process \ {c.pid} : process'[r] = process[r]
    BY <1>1, <2>1
  <2>5. QED
    BY <1>1, <1>2, <1>3, <1>8, <2>1, <2>2, <2>3, <2>4, GoingSteps DEF Advances
<1>9. CASE c.at = "snapshot"
  <2> DEFINE d == IF c.again THEN [c EXCEPT !.at = "reload"] ELSE settled
  <2>1. child' = [child EXCEPT ![x] = d] /\ process' = process
    BY <1>9 DEF Recovers
  <2>2. d \in Child /\ SameRenderer(c, d) /\ d.open = c.open /\ d.at \in {"reload", "ok"}
    BY <1>4, <1>5
  <2> HIDE DEF d
  <2>3. QED
    BY <1>1, <1>2, <1>3, <1>9, <2>1, <2>2, GoingSteps DEF Advances
<1>10. CASE c.at = "reload"
  <2> DEFINE d == [settled EXCEPT !.active = TRUE, !.failed = FALSE]
             b == [p EXCEPT !.loaded = TRUE]
  <2>1. child' = [child EXCEPT ![x] = d] /\ process' = [process EXCEPT ![c.pid] = b]
    BY <1>10 DEF Recovers
  <2> HIDE DEF settled
  <2>2. d \in Child /\ SameRenderer(c, d) /\ d.open = c.open /\ d.at = "ok"
    BY <1>4 DEF Child, SameRenderer
  <2>3. b \in Proc /\ b.loaded
    BY <1>1 DEF Proc
  <2> HIDE DEF d, b
  <2>4. /\ DOMAIN process' = DOMAIN process /\ process'[c.pid] = b
        /\ \A r \in DOMAIN process \ {c.pid} : process'[r] = process[r]
    BY <1>1, <2>1
  <2>5. QED
    BY <1>1, <1>2, <1>3, <1>10, <2>1, <2>2, <2>3, <2>4, GoingSteps DEF Advances
<1>11. QED
  BY <1>2, <1>6, <1>7, <1>8, <1>9, <1>10

\* A request is answered.
LEMMA AnswerKeeps ==
  ASSUME TypeOK, Supervised, NEW x \in Place, Answer(x)
  PROVE  Advances
<1> DEFINE c == child[x]
           p == process[c.pid]
           stale == c.op = "env" /\ c.want <= p.env
           done == CASE c.op = "load" -> [p EXCEPT !.loaded = TRUE]
                     [] c.op = "unload" -> [p EXCEPT !.loaded = FALSE]
                     [] c.op = "layout" -> [p EXCEPT !.layout = TRUE]
                     [] c.op = "env" -> [p EXCEPT !.env = IF stale THEN @ ELSE c.want]
                     [] OTHER -> p
           at == IF stale THEN "error" ELSE "ok"
           active == (c.active \/ c.op = "load") /\ c.op # "unload"
           failed == c.failed /\ c.op \notin {"load", "unload"}
           env == IF c.op = "env" /\ ~stale THEN c.want ELSE c.env
           missed == c.missed /\ (c.op # "env" \/ stale)
           d == [c EXCEPT !.at = at, !.ack = done.env, !.active = active, !.failed = failed,
                          !.env = env, !.missed = missed]
<1>1. c \in Child /\ Sound(c) /\ Alive(c) /\ c.pid \in DOMAIN process /\ p \in Proc
      /\ child \in [Place -> Child] /\ c.at = "asked"
  BY DEF TypeOK, Supervised, Answer, Responds, Owned, Housed, Proc
<1>2. c.open
  BY <1>1 DEF Sound, Working
<1>3. done \in Proc /\ (c.op # "unload" /\ p.loaded => done.loaded)
  <2>1. CASE c.op = "load"
    BY <1>1, <2>1 DEF Proc
  <2>2. CASE c.op = "unload"
    BY <1>1, <2>2 DEF Proc
  <2>3. CASE c.op = "layout"
    BY <1>1, <2>3 DEF Proc
  <2>4. CASE c.op = "env"
    <3>1. done = [p EXCEPT !.env = IF stale THEN @ ELSE c.want] /\ c.want \in Nat /\ p.env \in Nat
      BY <1>1, <2>4 DEF Child, Proc
    <3> HIDE DEF done, stale
    <3>2. (IF stale THEN p.env ELSE c.want) \in Nat
      BY <3>1
    <3>3. QED
      BY <1>1, <3>1, <3>2 DEF Proc
  <2>5. CASE c.op \notin {"load", "unload", "layout", "env"}
    BY <1>1, <2>5
  <2>6. QED
    BY <2>1, <2>2, <2>3, <2>4, <2>5
<1>4. /\ active \in BOOLEAN /\ failed \in BOOLEAN /\ missed \in BOOLEAN
      /\ env \in Nat /\ done.env \in Nat /\ at \in {"ok", "error"}
  <2>1. active \in BOOLEAN /\ failed \in BOOLEAN /\ missed \in BOOLEAN
    BY <1>1 DEF Child
  <2>2. env \in Nat
    BY <1>1 DEF Child
  <2>3. done.env \in Nat
    BY <1>3 DEF Proc
  <2>4. QED
    BY <2>1, <2>2, <2>3
<1>5. child' = [child EXCEPT ![x] = d] /\ process' = [process EXCEPT ![c.pid] = done]
  BY DEF Answer
<1>6. UNCHANGED <<queue, iso, bridge, notices, story, left>> /\ left \in [calls : Nat, faults : Nat]
  BY DEF Answer, TypeOK
<1> HIDE DEF done, at, active, failed, env, missed
<1>7. d \in Child /\ SameRenderer(c, d) /\ d.open = c.open /\ d.at = at
  <2> DEFINE a == done.env
             z == c
  <2> HIDE DEF a, z
  <2>1. d = [z EXCEPT !.at = at, !.ack = a, !.active = active, !.failed = failed,
                      !.env = env, !.missed = missed]
    BY DEF a, z
  <2>2. z \in Child /\ a \in Nat
    BY <1>1, <1>4 DEF a, z
  <2> HIDE DEF d
  <2>3. d \in Child
    <3> DEFINE e == [z EXCEPT !.at = at, !.ack = a, !.active = active]
    <3>1. e \in Child
      BY <1>4, <2>2 DEF Child, Stage
    <3>2. d = [e EXCEPT !.failed = failed, !.env = env, !.missed = missed]
      BY <2>1, <2>2 DEF Child
    <3> HIDE DEF e
    <3>3. QED
      BY <1>4, <3>1, <3>2 DEF Child
  <2>4. d.pid = z.pid /\ d.dead = z.dead /\ d.there = z.there /\ d.open = z.open /\ d.at = at
    BY <2>1, <2>2 DEF Child
  <2>5. QED
    BY <2>3, <2>4 DEF SameRenderer, z
<1> HIDE DEF d
<1>8. /\ DOMAIN process' = DOMAIN process /\ process'[c.pid] = done
      /\ \A r \in DOMAIN process \ {c.pid} : process'[r] = process[r]
  BY <1>1, <1>5
<1>9. QED
  BY <1>1, <1>2, <1>3, <1>4, <1>5, <1>6, <1>7, <1>8, GoingSteps DEF Advances
-----------------------------------------------------------------------------
(* The callers, the steps, and the beginning.                              *)

\* A call is added to the queue.
LEMMA CallerKeeps ==
  ASSUME TypeOK, Supervised, NEW op \in Op, op.kind \in Targeted => op.target \in Plugin,
         queue' = Append(queue, op), UNCHANGED <<iso, child, process, story>>,
         bridge' \in [env : Nat, acked : Nat, busy : BOOLEAN], notices' \in Nat,
         left' \in [calls : Nat, faults : Nat]
  PROVE  Advances
<1>1. queue \in Seq(Op) /\ Len(queue) \in Nat
  BY DEF TypeOK
<1>2. /\ queue' \in Seq(Op) /\ queue' # <<>>
      /\ DOMAIN queue' = DOMAIN queue \cup {Len(queue) + 1}
      /\ queue'[Len(queue) + 1] = op
      /\ \A j \in DOMAIN queue : queue'[j] = queue[j]
  BY <1>1
<1>3. queue # <<>> => Running' = Running /\ Target' = Target
  <2>1. queue # <<>> => 1 \in DOMAIN queue
    BY <1>1
  <2>2. QED
    BY <1>2, <2>1 DEF Running, Target
<1>4. TypeOK'
  BY <1>2 DEF TypeOK
<1>5. Owned'
  BY OwnedStays DEF Supervised, Continues, SameRenderer
<1>6. Queued'
  BY <1>2 DEF Supervised, Stands, Queued
<1>7. Served'
  <2>1. iso.at # "rest" => queue # <<>>
    BY DEF Supervised, Stands, Queued
  <2>2. QED
    BY <1>3, <2>1 DEF Supervised, Stands, Served, OpeningFresh
<1>8. Ended' /\ Renewed' /\ Closings' /\ Unloads' /\ \A x \in Place : Sound(child'[x])
  BY DEF Supervised, Stands, Ended, Renewed, Closings, Unloads
<1>9. Homes
  BY DEF Homes, RunsIn, Alive
<1>10. QED
  BY <1>4, <1>5, <1>6, <1>7, <1>8, <1>9 DEF Advances, Supervised, Stands

\* A call of the application.
LEMMA CallKeeps ==
  ASSUME TypeOK, Supervised, NEW op \in Op, op.kind \in Targeted => op.target \in Plugin, Call(op)
  PROVE  Advances
<1>1. /\ queue' = Append(queue, op) /\ UNCHANGED <<iso, child, process, bridge, notices, story>>
      /\ left.calls > 0 /\ left' = [left EXCEPT !.calls = @ - 1]
  BY DEF Call
<1>2. left' \in [calls : Nat, faults : Nat]
  BY <1>1 DEF TypeOK
<1>3. QED
  BY <1>1, <1>2, CallerKeeps DEF TypeOK

\* A new environment.
LEMMA UpdateKeeps == ASSUME TypeOK, Supervised, Update PROVE Advances
<1> DEFINE op == [kind |-> "env", target |-> None, env |-> bridge.env + 1]
<1>1. /\ queue' = Append(queue, op) /\ UNCHANGED <<iso, child, process, notices, story>>
      /\ left.calls > 0 /\ left' = [left EXCEPT !.calls = @ - 1]
      /\ bridge' = [bridge EXCEPT !.env = @ + 1, !.busy = TRUE]
  BY DEF Update
<1>2. left' \in [calls : Nat, faults : Nat] /\ bridge' \in [env : Nat, acked : Nat, busy : BOOLEAN]
  <2>1. left' \in [calls : Nat, faults : Nat]
    <3>1. left \in [calls : Nat, faults : Nat] /\ left.calls - 1 \in Nat
      BY <1>1 DEF TypeOK
    <3>2. QED
      BY <1>1, <3>1
  <2>2. bridge \in [env : Nat, acked : Nat, busy : BOOLEAN] /\ bridge.env + 1 \in Nat
    BY DEF TypeOK
  <2>3. bridge' \in [env : Nat, acked : Nat, busy : BOOLEAN]
    BY <1>1, <2>2
  <2>4. QED
    BY <2>1, <2>3
<1>3. op \in Op /\ op.kind \notin Targeted
  BY DEF TypeOK, Op, Kinds, Targeted
<1> HIDE DEF op
<1>4. QED
  BY <1>1, <1>2, <1>3, CallerKeeps DEF TypeOK

\* The answer to a crashed renderer.
LEMMA NoticeKeeps == ASSUME TypeOK, Supervised, Notice PROVE Advances
<1>1. NoTarget("snapshot") \in Op /\ NoTarget("snapshot").kind \notin Targeted
  BY DEF NoTarget, Op, Kinds, Targeted
<1>2. notices' \in Nat
  BY DEF Notice, TypeOK
<1>3. QED
  BY <1>1, <1>2, CallerKeeps DEF Notice, TypeOK

\* The isolated runtime leaves the renderers as they are.
LEMMA HomelyFacts ==
  ASSUME Homely, UNCHANGED process
  PROVE  Homes
<1> SUFFICES ASSUME NEW p \in Plugin, RunsIn(p)
             PROVE  RunsIn(p)'
  BY DEF Homes
<1>1. SameRenderer(child[p], child'[p])
  BY DEF Homely, RunsIn
<1>2. QED
  BY <1>1 DEF RunsIn, Alive, SameRenderer

\* Every step keeps the invariant.
LEMMA StepKeeps == TypeOK /\ Supervised /\ [Next]_vars => Advances
<1> SUFFICES ASSUME TypeOK, Supervised, [Next]_vars
             PROVE  Advances
  OBVIOUS
<1>1. CASE Caller
  <2>1. ASSUME NEW k \in Kinds \ Targeted, Call(NoTarget(k))
        PROVE  Advances
    <3>1. NoTarget(k) \in Op /\ NoTarget(k).kind \notin Targeted
      BY DEF NoTarget, Op
    <3>2. QED
      BY <2>1, <3>1, CallKeeps
  <2>2. ASSUME NEW k \in Targeted, NEW p \in Plugin, Call([kind |-> k, target |-> p, env |-> 0])
        PROVE  Advances
    <3> DEFINE op == [kind |-> k, target |-> p, env |-> 0]
    <3>1. op \in Op /\ op.target \in Plugin
      BY DEF Op, Targeted, Kinds
    <3> HIDE DEF op
    <3>2. Call(op)
      BY <2>2 DEF op
    <3>3. QED
      BY <3>1, <3>2, CallKeeps
  <2>3. QED
    BY <1>1, <2>1, <2>2, UpdateKeeps DEF Caller
<1>2. CASE Notice
  BY <1>2, NoticeKeeps
<1>3. CASE Isolated
  <2>1. Upheld /\ Rest
    BY <1>3, IsolatedKeeps
  <2>2. Homes
    BY <2>1, HomelyFacts DEF Upheld, Rest
  <2>3. QED
    BY <2>1, <2>2 DEF Upheld, Advances
<1>4. CASE \E x \in Place : Progress(x)
  BY <1>4, SpawnKeeps, RecoversKeeps, AnswerKeeps, ClosedKeeps, DeadlineKeeps DEF Progress
<1>5. CASE Trouble
  BY <1>5, HangKeeps, DiesKeeps, ReloadThrowsKeeps, ThrowsKeeps DEF Trouble
<1>6. CASE UNCHANGED vars
  <2>1. /\ queue' = queue /\ iso' = iso /\ child' = child /\ process' = process /\ bridge' = bridge
        /\ notices' = notices /\ story' = story /\ left' = left
    BY <1>6 DEF vars
  <2>2. TypeOK' /\ Owned' /\ \A x \in Place : Sound(child'[x])
    BY <2>1 DEF TypeOK, Supervised, Owned, OnePlace, Housed, Kept, Alive
  <2>3. Stands'
    BY <2>1 DEF Supervised, Stands, Queued, Ended, Served, Renewed, Closings, Unloads, Running, Target
  <2>4. Homes
    BY <2>1 DEF Homes, RunsIn, Alive
  <2>5. QED
    BY <2>2, <2>3, <2>4 DEF Advances, Supervised
<1>7. QED
  BY <1>1, <1>2, <1>3, <1>4, <1>5, <1>6 DEF Next

\* The invariant holds at first.
LEMMA InitKeeps == Init => TypeOK /\ Supervised
<1> SUFFICES ASSUME Init
             PROVE  TypeOK /\ Supervised
  OBVIOUS
<1> DEFINE places == Places0(story)
           pid == CHOOSE f \in Apiece(places) : TRUE
<1>1. /\ story \in Stories /\ story \in Story /\ queue = <<>> /\ notices = 0
      /\ left = [calls |-> story.calls, faults |-> story.faults]
      /\ bridge = [env |-> 1, acked |-> 1, busy |-> FALSE]
      /\ iso = [open |-> TRUE, layout |-> TRUE, env |-> 1, at |-> "rest", err |-> FALSE,
                on |-> None, todo |-> {}, ack |-> 0, last |-> "layout", ok |-> TRUE]
  BY Bounds DEF Init
<1>2. places \subseteq Plugin \cup {Spare} /\ places \subseteq Place /\ Fresh \notin places
  BY <1>1, Places DEF Places0, Story
<1>3. pid \in Apiece(places)
  BY <1>1, Enough
<1>4. pid \in [places -> Renderer] /\ \A x, y \in places : pid[x] = pid[y] => x = y
  BY <1>3 DEF Apiece
<1>5. /\ process = [r \in {pid[x] : x \in places} |->
                      LET x == CHOOSE y \in places : pid[y] = r
                      IN [NewProcess EXCEPT !.loaded = x # Spare, !.env = 1, !.layout = x # Spare]]
      /\ child = [x \in Place |->
                    IF x \notin places THEN NoChild
                    ELSE [NoChild EXCEPT !.there = TRUE, !.open = TRUE, !.pid = pid[x],
                                         !.active = x # Spare, !.env = 1]]
  BY DEF Init
<1> HIDE DEF places, pid
<1>6. DOMAIN process = {pid[x] : x \in places} /\ DOMAIN process \subseteq Renderer
  BY <1>4, <1>5
<1>7. \A r \in DOMAIN process : process[r] \in Proc
  BY <1>5 DEF NewProcess, Proc
<1>8. /\ child = [x \in Place |-> child[x]]
      /\ \A x \in Place \ places : child[x] = NoChild
      /\ \A x \in places :
           /\ child[x] \in Child /\ child[x].there /\ child[x].open /\ child[x].pid = pid[x]
           /\ child[x].dead = "no" /\ child[x].at = "rest"
  <2>1. child = [x \in Place |-> child[x]] /\ \A x \in Place \ places : child[x] = NoChild
    BY <1>5
  <2>2. ASSUME NEW x \in places
        PROVE  /\ child[x] \in Child /\ child[x].there /\ child[x].open /\ child[x].pid = pid[x]
               /\ child[x].dead = "no" /\ child[x].at = "rest"
    <3>1. child[x] = [NoChild EXCEPT !.there = TRUE, !.open = TRUE, !.pid = pid[x],
                                     !.active = x # Spare, !.env = 1]
      BY <1>2, <1>5
    <3>2. pid[x] \in Renderer
      BY <1>4
    <3> DEFINE e == [NoChild EXCEPT !.there = TRUE, !.open = TRUE, !.pid = pid[x]]
    <3>3. /\ e \in Child /\ e.there = TRUE /\ e.open = TRUE /\ e.pid = pid[x] /\ e.dead = "no"
          /\ e.at = "rest"
      BY <3>2 DEF NoChild, Child, Stage, Kinds, Failure
    <3>4. \/ child[x] = [e EXCEPT !.active = TRUE, !.env = 1]
          \/ child[x] = [e EXCEPT !.active = FALSE, !.env = 1]
      BY <3>1 DEF NoChild
    <3>5. ASSUME NEW a \in BOOLEAN, child[x] = [e EXCEPT !.active = a, !.env = 1]
          PROVE  /\ child[x] \in Child /\ child[x].there /\ child[x].open
                 /\ child[x].pid = pid[x] /\ child[x].dead = "no" /\ child[x].at = "rest"
      <4> HIDE DEF e
      <4>1. e \in Child /\ 1 \in Nat
        BY <3>3
      <4>2. /\ child[x] \in Child /\ child[x].there = e.there /\ child[x].open = e.open
            /\ child[x].pid = e.pid /\ child[x].dead = e.dead /\ child[x].at = e.at
        <5> DEFINE d == [e EXCEPT !.active = a, !.env = 1]
        <5>1. /\ d \in Child /\ d.there = e.there /\ d.open = e.open
              /\ d.pid = e.pid /\ d.dead = e.dead /\ d.at = e.at
          BY <4>1, Flags
        <5>2. child[x] = d
          BY <3>5
        <5> HIDE DEF d
        <5>3. QED
          BY <5>1, <5>2
      <4>3. QED
        BY <3>3, <4>2
    <3>6. QED
      BY <3>4, <3>5
  <2>3. QED
    BY <2>1, <2>2
<1>9. child \in [Place -> Child]
  BY <1>8, Unborn
<1>10. \A x \in Place : /\ Alive(child[x]) <=> x \in places
                        /\ child[x].at = "rest" /\ Sound(child[x])
  BY <1>4, <1>8, Apart, Unborn DEF Alive, Sound, Working
<1>11. TypeOK
  <2>1. iso \in Iso
    BY <1>1 DEF Iso, Wait, Kinds
  <2>2. /\ left \in [calls : Nat, faults : Nat] /\ bridge \in [env : Nat, acked : Nat, busy : BOOLEAN]
        /\ notices \in Nat /\ queue \in Seq(Op)
    BY <1>1 DEF Story
  <2>3. QED
    BY <1>1, <1>6, <1>7, <1>9, <2>1, <2>2 DEF TypeOK, Proc
<1>12. Owned
  <2>1. OnePlace
    <3> SUFFICES ASSUME NEW x \in places, NEW y \in places, child[x].pid = child[y].pid
                 PROVE  x = y
      BY <1>2, <1>10 DEF OnePlace
    <3>1. child[x].pid = pid[x] /\ child[y].pid = pid[y]
      BY <1>8
    <3>2. QED
      BY <1>4, <3>1
  <2>2. Housed
    BY <1>6, <1>8, <1>10 DEF Housed
  <2>3. Kept
    BY <1>2, <1>6, <1>8, <1>10 DEF Kept
  <2>4. QED
    BY <2>1, <2>2, <2>3 DEF Owned
<1>13. ~child[Fresh].there
  BY <1>2, <1>8, Unborn, Places
<1>14. Queued /\ Ended /\ Served /\ Renewed
  BY <1>1, <1>13 DEF Queued, Ended, Served, Renewed, OpeningFresh
<1>15. Closings /\ Unloads
  BY <1>10 DEF Closings, Unloads
<1>16. QED
  BY <1>10, <1>11, <1>12, <1>14, <1>15 DEF Supervised, Stands

\* The invariant holds always.
LEMMA Invariant == Spec => [](TypeOK /\ Supervised)
<1>1. TypeOK /\ Supervised /\ [Next]_vars => (TypeOK /\ Supervised)'
  BY StepKeeps DEF Advances
<1>2. QED
  BY <1>1, InitKeeps, PTL DEF Spec
-----------------------------------------------------------------------------
(* What the runtimes know of their renderers.                              *)

\* What a runtime that is open may take for granted of its renderer p.
Recovery == {"spawn", "initialize", "environment", "snapshot", "reload"}
Answerable == {"rest", "asked", "ok", "error"}
Knows(c, p) ==
  /\ c.at \in Answerable => (c.active => p.loaded) /\ p.env = c.env
  /\ c.at \in {"opening", "initialize"} => p.env = 0
  /\ c.at \in {"snapshot", "reload"} => p.env = c.env
  /\ c.at = "error" => c.op \in {"load", "unload", "call", "view", "env"}
  /\ c.at \in {"asked", "error"} /\ c.op = "load" => ~p.loaded
  /\ c.at = "ok" /\ c.op = "layout" => p.layout \/ c.replaced

\* What it remembers itself: a recovery in the middle of a call counts no
\* plugin as active, and tells whether the call was about the environment.
Minds(c) ==
  /\ c.at \in {"spawnFirst", "opening"} => c.env = 0 /\ ~c.active /\ c.op = "snapshot"
  /\ c.at \in Recovery => /\ ~c.active /\ c.replaced
                          /\ c.op = "env" => c.missed
                          /\ c.op = "load" => ~c.again
  /\ c.at = "reload" => c.again
  /\ c.at = "asked" /\ c.op = "load" => ~c.active
  /\ c.at = "ok" => c.open /\ (c.op = "env" => c.env = c.want \/ c.missed)
Mindful(c, P) == Minds(c) /\ (c.open /\ Alive(c) => Knows(c, P[c.pid]))

\* A renderer with a plugin has been told of the layout, unless it replaced
\* another; and a runtime that never had a plugin.
Told(c, P) == Alive(c) /\ P[c.pid].loaded /\ ~c.replaced => P[c.pid].layout
Blank(c, P) ==
  ~c.active /\ ~c.again /\ c.op # "load" /\ (Alive(c) => ~P[c.pid].loaded)

Believing == \A x \in Place : Mindful(child[x], process)
Blanks == Blank(child[Spare], process) /\ Blank(child[Fresh], process)
Settling(p) == p = iso.on /\ iso.at \in {"load", "ready"}
Telling == iso.layout /\ \A p \in Plugin : Told(child[p], process) \/ Settling(p)

\* The runtimes that may be at work, and what they are asked.
Waited(x) ==
  \/ iso.at \in {"retire", "shut", "load", "ready", "salvage"} /\ x = iso.on
  \/ iso.at \in OpeningFresh /\ x = Fresh
  \/ iso.at = "spare" /\ x = Spare
  \/ iso.at = "every" /\ (x \in Slots \/ (x = Spare /\ child[x].at = "ok"))
  \/ iso.at = "one" /\ (x = Target \/ (x \in Slots \cup {Spare} /\ child[x].at = "ok"))
  \/ iso.at = "close"
Asking(c, op) == c.open => c.op = op
Loads ==
  /\ iso.at = "load" => Asking(child[iso.on], "load")
  /\ iso.at = "ready" => Asking(child[iso.on], "layout")
  /\ \A x \in Place : child[x].at = "asked" /\ child[x].op = "load" => iso.at = "load" /\ x = iso.on
Waiting == \A x \in Place : child[x].at # "rest" => Waited(x)

\* One environment is on its way at a time, and it is the bridge's last.
Updating ==
  /\ \A j \in DOMAIN queue : queue[j].kind = "env" => bridge.busy /\ queue[j].env = bridge.env
  /\ \A i, j \in DOMAIN queue : queue[i].kind = "env" /\ queue[j].kind = "env" => i = j
  /\ bridge.acked <= bridge.env /\ (bridge.busy => bridge.acked < bridge.env)
  /\ iso.env > 0 /\ bridge.env > 0

\* Who is asked to take an environment, and which.
Changing(c, env) == c.open => c.op = "env" /\ c.want = env
Changes ==
  /\ iso.at \notin {"rest", "spare", "every"} => Running.kind # "env"
  /\ \A x \in Place \ {Fresh} : child[x].at = "asked" /\ child[x].op = "env" => Running.kind = "env"
  /\ iso.at = "dress" => Changing(child[Fresh], iso.env)
  /\ iso.at = "spare" /\ Running.kind = "env" => Changing(child[Spare], Running.env)
  /\ iso.at = "every" /\ Running.kind = "env" =>
       /\ \A p \in Slots : Changing(child[p], Running.env)
       /\ child[Spare].there => child[Spare].at = "ok" /\ Changing(child[Spare], Running.env)

\* Once the bridge has its acknowledgement, every runtime has the environment
\* or has recovered in the middle of a change.
Has(c) == c.there => c.env = iso.env \/ c.missed
Dressing == bridge.acked = bridge.env =>
  iso.env = bridge.env /\ \A x \in Place \ {Fresh} : Has(child[x])

Agreeing == Believing /\ Blanks /\ Telling /\ Loads /\ Waiting /\ Updating /\ Changes /\ Dressing
-----------------------------------------------------------------------------
(* What each operation leaves of it.                                       *)

\* A runtime goes on as before: what it knows of its environment stays.
Follows(c, d) == d.there = c.there /\ d.env = c.env /\ (c.missed => d.missed)

\* An empty place and a runtime that is opened know nothing.
LEMMA UnbornMinds ==
  ASSUME NEW P
  PROVE  /\ Mindful(NoChild, P) /\ Blank(NoChild, P) /\ Told(NoChild, P)
         /\ Mindful(Opening, P) /\ Blank(Opening, P)
BY Unborn DEF NoChild, Opening, Mindful, Minds, Blank, Told, Recovery

\* The fields a recovery sets.
LEMMA RecoveringFields ==
  ASSUME NEW c \in Child, NEW why \in Failure \cup {"no"}
  PROVE  LET d == Recovering(c, why) IN
         /\ ~d.active /\ d.replaced
         /\ c.missed \/ c.op = "env" => d.missed
         /\ d.again => c.active
         /\ d.env = c.env /\ d.op = c.op /\ d.want = c.want
BY DEF Recovering, Child

\* A recovery.
LEMMA RecoveringMinds ==
  ASSUME NEW c \in Child, NEW why \in Failure \cup {"no"}, NEW P, ~Alive(c),
         c.op = "load" => ~c.active
  PROVE  LET d == Recovering(c, why) IN
         /\ Mindful(d, P) /\ Told(d, P) /\ Follows(c, d) /\ d.at = "spawn" /\ ~Alive(d)
         /\ ~c.active /\ c.op # "load" => Blank(d, P)
<1> DEFINE d == Recovering(c, why)
<1>1. /\ ~d.active /\ d.replaced
      /\ c.missed \/ c.op = "env" => d.missed
      /\ d.again => c.active
      /\ d.env = c.env /\ d.op = c.op /\ d.want = c.want
  BY RecoveringFields
<1>2. SameRenderer(c, d) /\ d.open = c.open /\ d.at = "spawn"
  BY RecoveringFacts
<1> HIDE DEF d
<1>3. ~Alive(d) /\ Follows(c, d)
  BY <1>1, <1>2 DEF SameRenderer, Alive, Follows
<1>4. Mindful(d, P)
  BY <1>1, <1>2, <1>3 DEF Mindful, Minds
<1>5. Told(d, P) /\ (~c.active /\ c.op # "load" => Blank(d, P))
  BY <1>1, <1>3 DEF Told, Blank
<1>6. QED
  BY <1>2, <1>3, <1>4, <1>5 DEF d

\* A request.
LEMMA AskMinds ==
  ASSUME NEW c \in Child, NEW kind \in Kinds, NEW env \in Nat, NEW P, Sound(c), Mindful(c, P),
         c.at \in {"rest", "ok", "error"}, kind = "load" => Blank(c, P)
  PROVE  LET d == Ask(c, kind, env) IN
         /\ Mindful(d, P) /\ Follows(c, d) /\ (Told(c, P) => Told(d, P))
         /\ d.open = c.open /\ (d.open => d.op = kind /\ d.want = env)
         /\ Blank(c, P) /\ kind # "load" => Blank(d, P)
         /\ d.at \in {"error", "asked", "spawn"} /\ (d.at = "asked" => d.op = kind)
<1> DEFINE asked == [c EXCEPT !.at = "asked", !.op = kind, !.want = env,
                              !.failed = c.failed /\ ~(kind = "unload" /\ ~c.active)]
           d == Ask(c, kind, env)
<1>1. asked \in Child /\ SameRenderer(c, asked) /\ asked.open = c.open /\ asked.at = "asked"
      /\ asked.op = kind /\ asked.want = env /\ asked.env = c.env
  BY DEF Child, SameRenderer, Stage
<1>2. (asked.active <=> c.active) /\ (asked.missed <=> c.missed) /\ (asked.again <=> c.again)
      /\ (asked.replaced <=> c.replaced)
  BY DEF Child
<1>3. CASE ~c.open
  <2>1. d = [c EXCEPT !.at = "error"]
    BY <1>3 DEF Ask
  <2>2. d \in Child /\ SameRenderer(c, d) /\ d.open = c.open /\ d.at = "error" /\ d.op = c.op
        /\ d.env = c.env
    BY <2>1 DEF Child, SameRenderer, Stage
  <2>3. (d.active <=> c.active) /\ (d.missed <=> c.missed) /\ (d.again <=> c.again)
    BY <2>1 DEF Child
  <2> HIDE DEF d
  <2>4. ~Alive(c) /\ ~Alive(d)
    BY <1>3, <2>2 DEF Sound, SameRenderer, Alive
  <2>5. Mindful(d, P) /\ Follows(c, d) /\ Told(d, P)
    BY <2>2, <2>3, <2>4 DEF Mindful, Minds, Follows, SameRenderer, Told, Recovery
  <2>6. Blank(c, P) => Blank(d, P)
    BY <2>2, <2>3, <2>4 DEF Blank
  <2>7. QED
    BY <1>3, <2>2, <2>5, <2>6 DEF d
<1>4. CASE c.open /\ c.dead # "no"
  <2>1. d = Recovering(asked, c.dead) /\ c.dead \in Failure \cup {"no"}
    BY <1>4 DEF Ask, Child
  <2> HIDE DEF asked
  <2>2. ~Alive(asked) /\ ~Alive(c)
    BY <1>1, <1>4 DEF Alive, SameRenderer
  <2>3. asked.op = "load" => ~asked.active
    BY <1>1, <1>2 DEF Blank
  <2> HIDE DEF d
  <2>4. /\ Mindful(d, P) /\ Told(d, P) /\ Follows(asked, d) /\ d.at = "spawn" /\ ~Alive(d)
        /\ ~asked.active /\ asked.op # "load" => Blank(d, P)
    BY <1>1, <2>1, <2>2, <2>3, RecoveringMinds
  <2>5. d.open = asked.open /\ d.op = asked.op /\ d.want = asked.want
    BY <1>1, <2>1, RecoveringFacts, RecoveringFields
  <2>6. Follows(c, d)
    BY <1>1, <1>2, <2>4 DEF Follows, SameRenderer
  <2>7. Blank(c, P) /\ kind # "load" => Blank(d, P)
    BY <1>1, <1>2, <2>4 DEF Blank
  <2>8. QED
    BY <1>1, <2>4, <2>5, <2>6, <2>7 DEF d
<1>5. CASE c.open /\ c.dead = "no"
  <2>1. d = asked
    BY <1>5 DEF Ask
  <2> HIDE DEF asked, d
  <2>2. Alive(d) <=> Alive(c)
    BY <1>1, <2>1 DEF Alive, SameRenderer
  <2>3. Minds(d)
    BY <1>1, <1>2, <2>1 DEF Minds, Recovery, Blank
  <2>4. Alive(c) => Knows(d, P[d.pid])
    BY <1>1, <1>2, <1>5, <2>1 DEF Mindful, Knows, Answerable, SameRenderer, Blank
  <2>5. Follows(c, d) /\ (Told(c, P) => Told(d, P))
    BY <1>1, <1>2, <2>1, <2>2 DEF Follows, SameRenderer, Told
  <2>6. Blank(c, P) /\ kind # "load" => Blank(d, P)
    BY <1>1, <1>2, <2>1, <2>2 DEF Blank, SameRenderer
  <2>7. QED
    BY <1>1, <2>1, <2>2, <2>3, <2>4, <2>5, <2>6 DEF Mindful, d
<1>6. QED
  BY <1>3, <1>4, <1>5

\* A close.
LEMMA CloseMinds ==
  ASSUME NEW c \in Child, NEW P
  PROVE  LET d == Close(c) IN
         /\ Mindful(d, P) /\ Follows(c, d) /\ (Told(c, P) => Told(d, P))
         /\ Blank(c, P) => Blank(d, P)
         /\ d.at \in {"closing", "shut"}
<1> DEFINE d == Close(c)
<1>1. SameRenderer(c, d) /\ ~d.open /\ d.at \in {"closing", "shut"}
  BY CloseFacts
<1>2. ~d.active /\ (d.again <=> c.again) /\ (d.missed <=> c.missed) /\ (d.replaced <=> c.replaced)
      /\ d.op = c.op /\ d.env = c.env
  BY DEF Close, Child
<1> HIDE DEF d
<1>3. Alive(d) <=> Alive(c)
  BY <1>1 DEF Alive, SameRenderer
<1>4. Mindful(d, P) /\ Follows(c, d)
  BY <1>1, <1>2 DEF Mindful, Minds, Recovery, Follows, SameRenderer
<1>5. (Told(c, P) => Told(d, P)) /\ (Blank(c, P) => Blank(d, P))
  BY <1>1, <1>2, <1>3 DEF Told, Blank, SameRenderer
<1>6. QED
  BY <1>1, <1>4, <1>5 DEF d

\* The loss of the renderer.
LEMMA LostMinds ==
  ASSUME NEW c \in Child, NEW why \in Failure, NEW P, NEW Q, Sound(c), Mindful(c, P)
  PROVE  LET d == Lost(c, why) IN
         /\ Mindful(d, Q) /\ Follows(c, d) /\ Told(d, Q)
         /\ Blank(c, P) => Blank(d, Q)
         /\ d.open => c.open /\ d.op = c.op /\ d.want = c.want
         /\ c.at = "rest" => d.at = "rest"
         /\ c.at = "ok" => d.at = "ok"
         /\ d.at # "asked"
<1> DEFINE b == [c EXCEPT !.dead = why]
           d == Lost(c, why)
<1>1. b \in Child /\ b.pid = c.pid /\ b.there = c.there /\ b.dead = why /\ b.open = c.open
      /\ b.at = c.at /\ why # "no" /\ b.op = c.op /\ b.want = c.want /\ b.env = c.env
  BY DEF Child, Failure
<1>2. (b.active <=> c.active) /\ (b.missed <=> c.missed) /\ (b.again <=> c.again)
      /\ (b.replaced <=> c.replaced) /\ ~Alive(b)
  BY <1>1 DEF Child, Alive
<1>3. CASE c.at = "asked"
  <2>1. d = Recovering(b, why) /\ why \in Failure \cup {"no"}
    BY <1>3 DEF Lost
  <2> HIDE DEF b, d
  <2>2. b.op = "load" => ~b.active
    BY <1>1, <1>2, <1>3 DEF Mindful, Minds
  <2>3. /\ Mindful(d, Q) /\ Told(d, Q) /\ Follows(b, d) /\ d.at = "spawn" /\ ~Alive(d)
        /\ ~b.active /\ b.op # "load" => Blank(d, Q)
    BY <1>1, <1>2, <2>1, <2>2, RecoveringMinds
  <2>4. d.open = b.open /\ d.op = b.op /\ d.want = b.want
    BY <1>1, <2>1, RecoveringFacts, RecoveringFields
  <2>5. QED
    BY <1>1, <1>2, <1>3, <2>3, <2>4 DEF Follows, Blank, d
<1>4. CASE c.at \in {"opening", "initialize", "environment", "snapshot", "reload", "discard"}
  <2>1. d = [b EXCEPT !.open = FALSE, !.at = "error"]
    BY <1>4 DEF Lost
  <2> HIDE DEF b, d
  <2>2. ~d.open /\ d.at = "error" /\ d.pid = b.pid /\ d.dead = b.dead /\ d.there = b.there
        /\ d.op = b.op /\ d.env = b.env
    BY <1>1, <2>1 DEF Child, Stage
  <2>3. (d.active <=> b.active) /\ (d.missed <=> b.missed) /\ (d.again <=> b.again)
    BY <1>1, <2>1 DEF Child
  <2>4. ~Alive(d)
    BY <1>2, <2>2 DEF Alive
  <2>5. QED
    BY <1>1, <1>2, <1>4, <2>2, <2>3, <2>4
       DEF Mindful, Minds, Recovery, Told, Follows, Blank, d
<1>5. CASE c.at \notin {"asked", "opening", "initialize", "environment", "snapshot", "reload",
                       "discard"}
  <2>1. d = IF c.at = "closing" THEN [b EXCEPT !.at = "shut"] ELSE b
    BY <1>5 DEF Lost
  <2> HIDE DEF b, d
  <2>2. d.at = (IF c.at = "closing" THEN "shut" ELSE b.at) /\ d.open = b.open
        /\ d.pid = b.pid /\ d.dead = b.dead /\ d.there = b.there
        /\ d.op = b.op /\ d.env = b.env /\ d.want = b.want
    BY <1>1, <2>1 DEF Child, Stage
  <2>3. (d.active <=> b.active) /\ (d.missed <=> b.missed) /\ (d.again <=> b.again)
        /\ (d.replaced <=> b.replaced)
    BY <1>1, <2>1 DEF Child
  <2>4. ~Alive(d)
    BY <1>2, <2>2 DEF Alive
  <2>5. Minds(d)
    BY <1>1, <1>2, <1>5, <2>2, <2>3 DEF Mindful, Minds, Recovery
  <2>6. QED
    BY <1>1, <1>2, <1>5, <2>2, <2>3, <2>4, <2>5 DEF Mindful, Told, Follows, Blank, d
<1>6. QED
  BY <1>3, <1>4, <1>5

\* Its answer is taken.
LEMMA RestMinds ==
  ASSUME NEW ch \in [Place -> Child], NEW x \in Place, NEW P, Sound(ch[x]), Mindful(ch[x], P)
  PROVE  LET d == AtRest(ch)[x] IN
         /\ Mindful(d, P) /\ Follows(ch[x], d) /\ (Told(ch[x], P) => Told(d, P))
         /\ Blank(ch[x], P) => Blank(d, P)
         /\ d.at = "asked" => d = ch[x]
<1> DEFINE d == AtRest(ch)[x]
<1>1. CASE ch[x].at \notin {"ok", "error"}
  BY <1>1 DEF AtRest, Follows
<1>2. CASE ch[x].at \in {"ok", "error"}
  <2> DEFINE c == ch[x]
  <2>1. d = [c EXCEPT !.at = "rest", !.op = "snapshot", !.want = 0, !.again = FALSE, !.ack = 0]
    BY <1>2 DEF AtRest
  <2>0. c \in Child
    OBVIOUS
  <2> HIDE DEF c, d
  <2>2. SameRenderer(c, d) /\ d.open = c.open /\ d.at = "rest" /\ d.op = "snapshot" /\ ~d.again
        /\ d.env = c.env
    BY <2>0, <2>1 DEF Child, Stage, SameRenderer, Kinds
  <2>3. (d.active <=> c.active) /\ (d.missed <=> c.missed) /\ (d.replaced <=> c.replaced)
    BY <2>0, <2>1 DEF Child
  <2>4. Alive(d) <=> Alive(c)
    BY <2>2 DEF Alive, SameRenderer
  <2>5. Minds(d) /\ Follows(c, d)
    BY <2>2, <2>3 DEF Minds, Recovery, Follows, SameRenderer
  <2>6. d.open /\ Alive(d) => Knows(d, P[d.pid])
    <3>1. c.open /\ Alive(c) /\ c.at \in Answerable => (c.active => P[c.pid].loaded) /\ P[c.pid].env = c.env
      BY DEF Mindful, Knows, c
    <3>2. c.at \in Answerable /\ d.pid = c.pid
      BY <1>2, <2>2 DEF Answerable, c, SameRenderer
    <3>3. QED
      BY <2>2, <2>3, <2>4, <3>1, <3>2 DEF Knows
  <2>7. (Told(c, P) => Told(d, P)) /\ (Blank(c, P) => Blank(d, P))
    BY <2>2, <2>3, <2>4 DEF Told, Blank, SameRenderer
  <2>8. QED
    BY <2>2, <2>5, <2>6, <2>7 DEF Mindful, c, d
<1>3. QED
  BY <1>1, <1>2
-----------------------------------------------------------------------------
(* The steps of the isolated runtime, piece by piece.                      *)

\* The agreement when nobody takes a new environment.
LEMMA Passing ==
  ASSUME TypeOK, Agreeing, UNCHANGED process, iso'.layout,
         \A x \in Place :
           /\ Mindful(child'[x], process)
           /\ \/ Told(child[x], process) => Told(child'[x], process)
              \/ Told(child'[x], process)
           /\ \/ Follows(child[x], child'[x]) \/ ~child'[x].there \/ x = Fresh
              \/ bridge.acked = bridge.env => Has(child'[x]),
         Blank(child'[Spare], process), Blank(child'[Fresh], process),
         \A p \in Plugin : Settling(p) => Settling(p)' \/ Told(child'[p], process)
  PROVE  /\ Believing' /\ Blanks' /\ Telling'
         /\ /\ bridge'.acked = bridge'.env => bridge.acked = bridge.env
            /\ bridge'.env = bridge.env /\ iso'.env = iso.env
            => Dressing'
<1>1. Believing' /\ Blanks'
  BY DEF Believing, Blanks, Mindful, Minds, Knows, Blank, Alive
<1>2. Telling'
  <2>1. \A p \in Plugin : p \in Place
    BY Places
  <2>2. \A p \in Plugin : Told(child'[p], process) \/ Settling(p)'
    BY <2>1 DEF Agreeing, Telling
  <2>3. \A p \in Plugin : Told(child'[p], process) => Told(child[p], process)'
    BY DEF Told, Alive
  <2>4. QED
    BY <2>2, <2>3 DEF Telling
<1>3. ASSUME bridge'.acked = bridge'.env => bridge.acked = bridge.env,
             bridge'.env = bridge.env, iso'.env = iso.env
      PROVE  Dressing'
  <2> SUFFICES ASSUME bridge.acked = bridge.env
               PROVE  iso.env = bridge.env /\ \A x \in Place \ {Fresh} : Has(child[x])'
    BY <1>3 DEF Dressing
  <2>1. iso.env = bridge.env /\ \A x \in Place \ {Fresh} : Has(child[x])
    BY DEF Agreeing, Dressing
  <2>2. ASSUME NEW x \in Place \ {Fresh}
        PROVE  Has(child[x])'
    <3>1. CASE Follows(child[x], child'[x])
      BY <1>3, <2>1, <3>1 DEF Follows, Has
    <3>2. CASE ~child'[x].there
      BY <3>2 DEF Has
    <3>3. CASE Has(child'[x])
      BY <1>3, <3>3 DEF Has
    <3>4. QED
      BY <3>1, <3>2, <3>3
  <2>3. QED
    BY <2>1, <2>2
<1>4. QED
  BY <1>1, <1>2, <1>3

\* Nobody is at work when no call is.
LEMMA Resting ==
  ASSUME iso'.at = "rest", \A x \in Place : child'[x].at = "rest"
  PROVE  Loads' /\ Waiting' /\ Changes'
BY DEF Loads, Waiting, Changes

\* A running call about the environment is the bridge's last.
LEMMA UpdateFacts ==
  ASSUME TypeOK, Agreeing, queue # <<>>, Running.kind = "env"
  PROVE  bridge.busy /\ Running.env = bridge.env /\ bridge.acked < bridge.env /\ bridge.acked # bridge.env
<1>1. 1 \in DOMAIN queue
  BY DEF TypeOK
<1>2. bridge.acked \in Nat /\ bridge.env \in Nat
  BY DEF TypeOK
<1>3. QED
  BY <1>1, <1>2 DEF Agreeing, Updating, Running

\* The call is answered, and the bridge hears of it.
LEMMA Answering ==
  ASSUME TypeOK, Supervised, Agreeing, queue # <<>>, NEW ok \in BOOLEAN, NEW ack \in Nat,
         NEW i \in Iso, i.env > 0, Answered(ok, ack, i)
  PROVE  /\ Updating' /\ iso'.at = "rest" /\ iso'.env = i.env /\ iso'.layout = i.layout
         /\ bridge'.env = bridge.env
         /\ bridge'.acked = bridge'.env =>
              bridge.acked = bridge.env \/ (ok /\ Running.kind = "env" /\ Running.env = bridge.env)
<1>1. queue' = Tail(queue) /\ queue \in Seq(Op) /\ Len(queue) \in Nat \ {0}
  BY DEF Answered, TypeOK
<1>2. /\ DOMAIN queue' = 1 .. Len(queue) - 1 /\ DOMAIN queue = 1 .. Len(queue)
      /\ \A j \in 1 .. Len(queue) - 1 : queue'[j] = queue[j + 1] /\ j + 1 \in 1 .. Len(queue)
  BY <1>1
<1>3. Running.kind \in Kinds
  BY RunningFacts
<1>4. iso' = [i EXCEPT !.at = "rest", !.err = FALSE, !.on = None, !.todo = {}, !.ack = 0,
                       !.last = Running.kind, !.ok = ok]
  BY DEF Answered
<1>5. iso'.at = "rest" /\ iso'.env = i.env /\ iso'.layout = i.layout
  BY <1>4 DEF Iso
<1>6. /\ bridge.env \in Nat /\ bridge.acked \in Nat /\ bridge.busy \in BOOLEAN
      /\ bridge \in [env : Nat, acked : Nat, busy : BOOLEAN]
  BY DEF TypeOK
<1>7. \A j, k \in DOMAIN queue' : queue'[j].kind = "env" /\ queue'[k].kind = "env" => j = k
  <2> SUFFICES ASSUME NEW j \in 1 .. Len(queue) - 1, NEW k \in 1 .. Len(queue) - 1,
                      queue[j + 1].kind = "env", queue[k + 1].kind = "env"
               PROVE  j = k
    BY <1>2
  <2>1. j + 1 \in DOMAIN queue /\ k + 1 \in DOMAIN queue
    BY <1>2
  <2>2. j + 1 = k + 1
    BY <2>1 DEF Agreeing, Updating
  <2>3. QED
    BY <1>1, <2>2
<1>8. CASE Running.kind # "env"
  <2>1. bridge' = bridge
    BY <1>8 DEF Answered
  <2>2. \A j \in DOMAIN queue' : queue'[j].kind = "env" => bridge.busy /\ queue'[j].env = bridge.env
    BY <1>2 DEF Agreeing, Updating
  <2>3. QED
    BY <1>5, <1>7, <2>1, <2>2 DEF Agreeing, Updating
<1>9. CASE Running.kind = "env"
  <2>1. bridge' = [bridge EXCEPT !.busy = FALSE,
                     !.acked = IF ok /\ ack = Running.env THEN Running.env ELSE @]
    BY <1>9 DEF Answered
  <2>2. Running.env = bridge.env /\ bridge.acked <= bridge.env
    BY <1>9, UpdateFacts DEF Agreeing, Updating
  <2>3. bridge'.env = bridge.env /\ ~bridge'.busy
        /\ bridge'.acked = IF ok /\ ack = Running.env THEN Running.env ELSE bridge.acked
    BY <1>6, <2>1
  <2>4. \A j \in DOMAIN queue' : queue'[j].kind # "env"
    <3> SUFFICES ASSUME NEW j \in 1 .. Len(queue) - 1, queue[j + 1].kind = "env"
                 PROVE  FALSE
      BY <1>2
    <3>1. 1 \in DOMAIN queue /\ j + 1 \in DOMAIN queue /\ j + 1 # 1
      BY <1>1, <1>2
    <3>2. QED
      BY <1>9, <3>1 DEF Agreeing, Updating, Running
  <2>5. Updating'
    BY <1>5, <1>6, <2>2, <2>3, <2>4 DEF Agreeing, Updating
  <2>6. QED
    BY <1>5, <1>6, <1>9, <2>2, <2>3, <2>5
<1>10. QED
  BY <1>8, <1>9

\* The running call is answered, and every runtime is at rest.
LEMMA ReplyAgrees ==
  ASSUME TypeOK, Supervised, Agreeing, Rest, queue # <<>>, NEW ok \in BOOLEAN, NEW ack \in Nat,
         NEW i \in Iso, i.layout, i.env > 0, Answered(ok, ack, i), child' = AtRest(child),
         \A x \in Place : child[x].at \in {"rest", "ok", "error"},
         \A p \in Plugin : Told(child[p], process),
         Running.kind # "env" \/ ~ok => i.env = iso.env,
         Running.kind = "env" /\ ok =>
           /\ i.env = Running.env
           /\ \A x \in Place \ {Fresh} :
                child[x].there => child[x].env = Running.env \/ child[x].missed
  PROVE  Agreeing'
<1>1. /\ Updating' /\ iso'.at = "rest" /\ iso'.env = i.env /\ iso'.layout = i.layout
      /\ bridge'.env = bridge.env
      /\ bridge'.acked = bridge'.env =>
           bridge.acked = bridge.env \/ (ok /\ Running.kind = "env" /\ Running.env = bridge.env)
  BY Answering
<1>2. child \in [Place -> Child] /\ UNCHANGED process
  BY DEF TypeOK, Rest
<1>3. ASSUME NEW x \in Place
      PROVE  /\ Mindful(child'[x], process) /\ Follows(child[x], child'[x])
             /\ Told(child[x], process) => Told(child'[x], process)
             /\ Blank(child[x], process) => Blank(child'[x], process)
             /\ child'[x].at = "rest"
  <2>1. Sound(child[x]) /\ Mindful(child[x], process)
    BY DEF Supervised, Agreeing, Believing
  <2>2. child[x].at \in {"ok", "error"} => child'[x].at = "rest"
    BY <1>2, <2>1, RestFacts
  <2>3. child[x].at = "rest" => child'[x] = child[x]
    BY DEF AtRest
  <2>4. QED
    BY <1>2, <2>1, <2>2, <2>3, RestMinds
<1>4. Loads' /\ Waiting' /\ Changes'
  BY <1>1, <1>3, Resting
<1>5. /\ Believing' /\ Blanks' /\ Telling'
      /\ (/\ bridge'.acked = bridge'.env => bridge.acked = bridge.env
          /\ bridge'.env = bridge.env /\ iso'.env = iso.env)
         => Dressing'
  <2>1. Blank(child'[Spare], process) /\ Blank(child'[Fresh], process)
    BY <1>3, Places DEF Agreeing, Blanks
  <2>2. \A p \in Plugin : Told(child'[p], process)
    BY <1>3, Places
  <2>3. QED
    BY <1>1, <1>2, <1>3, <2>1, <2>2, Passing
<1>6. Dressing'
  <2>1. CASE Running.kind # "env" \/ ~ok
    BY <1>1, <1>5, <2>1
  <2>2. CASE Running.kind = "env" /\ ok
    <3>1. Running.env = bridge.env
      BY <2>2, UpdateFacts
    <3>2. \A x \in Place \ {Fresh} :
            child'[x].there => child'[x].env = Running.env \/ child'[x].missed
      BY <1>3, <2>2 DEF Follows
    <3>3. QED
      BY <1>1, <2>2, <3>1, <3>2 DEF Dressing, Has
  <2>3. QED
    BY <2>1, <2>2
<1>7. QED
  BY <1>1, <1>4, <1>5, <1>6 DEF Agreeing

\* Some runtimes are gone; and what is left of the call's facts.
Thinned(ch) == ch \in [Place -> Child] /\ \A y \in Place : ch[y] = child[y] \/ ch[y] = NoChild

\* A runtime that has gone, or is as before.
LEMMA ThinnedFacts ==
  ASSUME TypeOK, Supervised, Agreeing, NEW ch, Thinned(ch), NEW x \in Place
  PROVE  /\ ch[x] \in Child /\ Sound(ch[x]) /\ Mindful(ch[x], process)
         /\ Told(child[x], process) => Told(ch[x], process)
         /\ Blank(child[x], process) => Blank(ch[x], process)
         /\ Follows(child[x], ch[x]) \/ ~ch[x].there
         /\ child[x].at = "rest" => ch[x].at = "rest"
<1>1. CASE ch[x] = child[x]
  BY <1>1 DEF TypeOK, Supervised, Agreeing, Believing, Follows
<1>2. CASE ch[x] = NoChild
  BY <1>2, Unborn, UnbornMinds
<1>3. QED
  BY <1>1, <1>2 DEF Thinned

\* One runtime is asked for something, though not to load.
LEMMA AskOneAgrees ==
  ASSUME TypeOK, Supervised, Agreeing, Rest, NEW ch, Thinned(ch),
         NEW x \in Place, NEW kind \in Kinds \ {"load"}, NEW env \in Nat,
         child' = [ch EXCEPT ![x] = Ask(@, kind, env)], ch[x].at \in {"rest", "ok", "error"},
         UNCHANGED <<queue, bridge>>, iso'.env = iso.env, iso'.layout = iso.layout,
         \A y \in Place \ {x} : ch[y].at = "rest" \/ (Waited(y)' /\ ch[y].at = "ok"),
         Waited(x)', iso'.at \notin {"load", "every"},
         iso'.at = "ready" => iso'.on = x /\ kind = "layout",
         iso'.at \notin {"rest", "spare"} => Running.kind # "env",
         iso'.at = "dress" => x = Fresh /\ kind = "env" /\ env = iso.env,
         iso'.at = "spare" => x = Spare /\ kind = Running.kind /\ env = Running.env,
         kind = "env" => x = Fresh \/ Running.kind = "env",
         \A p \in Plugin : Settling(p) => Settling(p)' \/ Told(ch[p], process)
  PROVE  Agreeing'
<1> DEFINE d == Ask(ch[x], kind, env)
<1>1. /\ child'[x] = d /\ (\A y \in Place \ {x} : child'[y] = ch[y]) /\ UNCHANGED process
      /\ Running' = Running
  BY DEF Thinned, Rest, Running
<1>2. ch[x] \in Child /\ Sound(ch[x]) /\ Mindful(ch[x], process) /\ kind \in Kinds
  BY ThinnedFacts
<1>3. /\ Mindful(d, process) /\ Follows(ch[x], d) /\ (Told(ch[x], process) => Told(d, process))
      /\ d.open = ch[x].open /\ (d.open => d.op = kind /\ d.want = env)
      /\ Blank(ch[x], process) => Blank(d, process)
      /\ d.at = "asked" => d.op = kind
  BY <1>2, AskMinds
<1> HIDE DEF d
<1>4. ASSUME NEW y \in Place
      PROVE  /\ Mindful(child'[y], process)
             /\ Told(child[y], process) => Told(child'[y], process)
             /\ Told(ch[y], process) => Told(child'[y], process)
             /\ Blank(child[y], process) => Blank(child'[y], process)
             /\ Follows(child[y], child'[y]) \/ ~child'[y].there
  <2>1. /\ Mindful(ch[y], process) /\ (Told(child[y], process) => Told(ch[y], process))
        /\ Blank(child[y], process) => Blank(ch[y], process)
        /\ Follows(child[y], ch[y]) \/ ~ch[y].there
    BY ThinnedFacts
  <2>2. CASE y = x
    BY <1>1, <1>3, <2>1, <2>2 DEF Follows
  <2>3. CASE y # x
    BY <1>1, <2>1, <2>3
  <2>4. QED
    BY <2>2, <2>3
<1>5. Believing' /\ Blanks' /\ Telling' /\ Dressing'
  <2>1. Blank(child'[Spare], process) /\ Blank(child'[Fresh], process)
    BY <1>4, Places DEF Agreeing, Blanks
  <2>2. \A p \in Plugin : Settling(p) => Settling(p)' \/ Told(child'[p], process)
    BY <1>4, Places
  <2>3. iso'.layout
    BY DEF Agreeing, Telling
  <2>4. QED
    BY <1>1, <1>4, <2>1, <2>2, <2>3, Passing
<1>6. Updating'
  BY DEF Agreeing, Updating
<1>7. Waiting'
  BY <1>1 DEF Waiting
<1>8. \A y \in Place \ {x} : child'[y].at \in {"rest", "ok"}
  BY <1>1
<1>9. Loads'
  <2>1. iso'.at = "ready" => Asking(child'[iso'.on], "layout")
    BY <1>1, <1>3 DEF Asking
  <2>2. \A y \in Place : ~(child'[y].at = "asked" /\ child'[y].op = "load")
    BY <1>1, <1>3, <1>8
  <2>3. QED
    BY <2>1, <2>2 DEF Loads, Asking
<1>10. Changes'
  <2>1. \A y \in Place \ {Fresh} : child'[y].at = "asked" /\ child'[y].op = "env" => Running.kind = "env"
    BY <1>1, <1>3, <1>8
  <2>2. iso'.at = "dress" => Changing(child'[Fresh], iso'.env)
    BY <1>1, <1>3 DEF Changing
  <2>3. iso'.at = "spare" /\ Running.kind = "env" => Changing(child'[Spare], Running.env)
    BY <1>1, <1>3 DEF Changing
  <2>4. QED
    BY <1>1, <2>1, <2>2, <2>3 DEF Changes, Changing
<1>11. QED
  BY <1>5, <1>6, <1>7, <1>9, <1>10 DEF Agreeing

\* Every slot is asked for something, though not to load.
LEMMA AskEveryAgrees ==
  ASSUME TypeOK, Supervised, Agreeing, Rest, queue # <<>>, NEW kind \in Kinds \ {"load"}, NEW i \in Iso,
         AsksAll(kind, i), i.env = iso.env, i.layout,
         iso.at \in {"rest", "spare"}, \A y \in Place : child[y].at # "rest" => y = Spare /\ Ok(y),
         kind = Running.kind \/ Running.kind # "env", kind = "env" => Running.kind = "env",
         Running.kind = "env" /\ child[Spare].there => Ok(Spare) /\ Changing(child[Spare], Running.env)
  PROVE  Agreeing'
<1> DEFINE d(x) == Ask(child[x], kind, Running.env)
<1>1. /\ iso' = [i EXCEPT !.at = "every"] /\ UNCHANGED <<queue, bridge>> /\ UNCHANGED process
      /\ Running' = Running
  BY DEF AsksAll, Goes, Rest, Running
<1>2. iso'.at = "every" /\ iso'.env = iso.env /\ iso'.layout
  BY <1>1 DEF Iso
<1>3. /\ \A x \in Slots : child'[x] = d(x)
      /\ \A x \in Place \ Slots : child'[x] = child[x]
      /\ Slots \subseteq Plugin /\ Plugin \subseteq Place /\ Spare \notin Plugin /\ Fresh \notin Plugin
      /\ Spare \in Place /\ Fresh \in Place
  BY Places DEF AsksAll
<1>4. Running.env \in Nat
  BY RunningFacts
<1>5. ASSUME NEW x \in Slots
      PROVE  /\ Mindful(d(x), process) /\ Follows(child[x], d(x))
             /\ Told(child[x], process) => Told(d(x), process)
             /\ d(x).open = child[x].open /\ (d(x).open => d(x).op = kind /\ d(x).want = Running.env)
             /\ d(x).at = "asked" => d(x).op = kind
  <2>1. child[x] \in Child /\ Sound(child[x]) /\ Mindful(child[x], process)
        /\ child[x].at = "rest" /\ kind \in Kinds /\ kind # "load"
    BY <1>3 DEF TypeOK, Supervised, Agreeing, Believing
  <2>2. QED
    BY <1>4, <2>1, AskMinds
<1> HIDE DEF d
<1>6. ASSUME NEW y \in Place
      PROVE  /\ Mindful(child'[y], process) /\ Follows(child[y], child'[y])
             /\ Told(child[y], process) => Told(child'[y], process)
  BY <1>3, <1>5 DEF Agreeing, Believing, Follows
<1>7. Believing' /\ Blanks' /\ Telling' /\ Dressing'
  <2>1. Blank(child'[Spare], process) /\ Blank(child'[Fresh], process)
    BY <1>3 DEF Agreeing, Blanks
  <2>2. \A p \in Plugin : ~Settling(p)
    BY DEF Settling
  <2>3. QED
    BY <1>1, <1>2, <1>6, <2>1, <2>2, Passing
<1>8. Updating'
  BY <1>1, <1>2 DEF Agreeing, Updating
<1>9. Slots' = Slots
  BY <1>6 DEF Slots, There, Follows
<1>10. Waiting'
  BY <1>2, <1>3, <1>9 DEF Waiting, Waited, Ok
<1>11. Loads'
  <2>1. \A y \in Place : ~(child'[y].at = "asked" /\ child'[y].op = "load")
    BY <1>3, <1>5 DEF Ok
  <2>2. QED
    BY <1>2, <2>1 DEF Loads
<1>12. Changes'
  <2>1. \A y \in Place \ {Fresh} : child'[y].at = "asked" /\ child'[y].op = "env" => Running.kind = "env"
    BY <1>3, <1>5 DEF Ok
  <2>2. ASSUME Running.kind = "env"
        PROVE  /\ \A p \in Slots : Changing(child'[p], Running.env)
               /\ child'[Spare].there => child'[Spare].at = "ok" /\ Changing(child'[Spare], Running.env)
    BY <1>3, <1>5, <2>2 DEF Changing, Ok
  <2>3. QED
    BY <1>1, <1>2, <1>9, <2>1, <2>2 DEF Changes, Changing
<1>13. QED
  BY <1>7, <1>8, <1>10, <1>11, <1>12 DEF Agreeing

\* A runtime is given to the plugin p, which has none.
LEMMA GivenAgrees ==
  ASSUME TypeOK, Supervised, Agreeing, Rest, NEW ch, Thinned(ch), NEW p \in Plugin,
         NEW z \in {Spare, Fresh}, Running.kind # "env",
         child' = [ch EXCEPT ![p] = Ask(ch[z], "load", 0), ![z] = NoChild],
         ch[z].at \in {"rest", "ok"}, \A y \in Place \ {p, z} : ch[y].at = "rest",
         iso' = [iso EXCEPT !.on = p, !.at = "load"], UNCHANGED <<queue, bridge>>,
         bridge.acked = bridge.env => Has(ch[z]),
         \A q \in Plugin \ {p} : Told(ch[q], process)
  PROVE  Agreeing'
<1> DEFINE d == Ask(ch[z], "load", 0)
<1>1. /\ p \in Place /\ z \in Place /\ p # z /\ p # Spare /\ p # Fresh
      /\ Spare \in Place /\ Fresh \in Place /\ Plugin \subseteq Place
      /\ Spare \notin Plugin /\ Fresh \notin Plugin
  BY Places
<1>2. /\ child'[p] = d /\ child'[z] = NoChild /\ (\A y \in Place \ {p, z} : child'[y] = ch[y])
      /\ UNCHANGED process /\ Running' = Running
  BY <1>1 DEF Thinned, Rest, Running
<1>3. iso'.at = "load" /\ iso'.on = p /\ iso'.env = iso.env /\ iso'.layout
  BY DEF TypeOK, Iso, Agreeing, Telling
<1>4. /\ ch[z] \in Child /\ Sound(ch[z]) /\ Mindful(ch[z], process) /\ Blank(ch[z], process)
      /\ "load" \in Kinds /\ 0 \in Nat
  BY <1>1, ThinnedFacts DEF Agreeing, Blanks, Kinds
<1>5. /\ Mindful(d, process) /\ Follows(ch[z], d) /\ (Told(ch[z], process) => Told(d, process))
      /\ d.open = ch[z].open /\ (d.open => d.op = "load")
      /\ d.at = "asked" => d.op = "load"
  BY <1>4, AskMinds
<1>6. Told(d, process)
  BY <1>4, <1>5 DEF Told, Blank
<1> HIDE DEF d
<1>7. bridge.acked = bridge.env => Has(d)
  BY <1>5 DEF Follows, Has
<1>8. ASSUME NEW y \in Place
      PROVE  /\ Mindful(child'[y], process)
             /\ (Told(child[y], process) => Told(child'[y], process)) \/ Told(child'[y], process)
             /\ \/ Follows(child[y], child'[y]) \/ ~child'[y].there \/ y = Fresh
                \/ bridge.acked = bridge.env => Has(child'[y])
  <2>1. CASE y = p
    BY <1>2, <1>5, <1>6, <1>7, <2>1
  <2>2. CASE y = z
    BY <1>2, <2>2, UnbornMinds, Unborn
  <2>3. CASE y \notin {p, z}
    BY <1>2, <2>3, ThinnedFacts
  <2>4. QED
    BY <2>1, <2>2, <2>3
<1>9. Believing' /\ Blanks' /\ Telling' /\ Dressing'
  <2>1. Blank(child'[Spare], process) /\ Blank(child'[Fresh], process)
    <3>1. \A y \in {Spare, Fresh} : Blank(ch[y], process)
      BY <1>1, ThinnedFacts DEF Agreeing, Blanks
    <3>2. QED
      BY <1>1, <1>2, <3>1, UnbornMinds
  <2>2. \A q \in Plugin : Told(child'[q], process)
    BY <1>1, <1>2, <1>6
  <2>3. QED
    BY <1>2, <1>3, <1>8, <2>1, <2>2, Passing
<1>10. Updating'
  BY <1>3 DEF Agreeing, Updating
<1>11. \A y \in Place \ {p} : child'[y].at = "rest"
  BY <1>2, Unborn
<1>12. Waiting'
  BY <1>3, <1>11 DEF Waiting, Waited
<1>13. Loads'
  BY <1>2, <1>3, <1>5, <1>11 DEF Loads, Asking
<1>14. Changes'
  BY <1>2, <1>3, <1>5, <1>11 DEF Changes
<1>15. QED
  BY <1>9, <1>10, <1>12, <1>13, <1>14 DEF Agreeing

\* Some runtimes are asked to close, or are gone, or open.
LEMMA ClosingAgrees ==
  ASSUME TypeOK, Supervised, Agreeing, Rest, UNCHANGED <<queue, bridge>>,
         iso'.env = iso.env, iso'.layout, Running.kind # "env",
         \A y \in Place : \/ child'[y] = child[y] \/ child'[y] = Close(child[y]) \/ child'[y] = NoChild
                          \/ y = Fresh /\ child'[y] = Opening,
         \A y \in Place : child'[y].at # "rest" => Waited(y)' /\ child'[y].at # "asked",
         iso'.at \notin {"load", "ready", "dress", "spare", "every"},
         iso.at \notin {"load", "ready"}
  PROVE  Agreeing'
<1>1. ASSUME NEW y \in Place
      PROVE  /\ Mindful(child'[y], process)
             /\ (Told(child[y], process) => Told(child'[y], process)) \/ Told(child'[y], process)
             /\ Blank(child[y], process) => Blank(child'[y], process)
             /\ Follows(child[y], child'[y]) \/ ~child'[y].there \/ y = Fresh
  <2>1. child[y] \in Child /\ Mindful(child[y], process)
    BY DEF TypeOK, Agreeing, Believing
  <2>2. CASE child'[y] = child[y]
    BY <2>1, <2>2 DEF Follows
  <2>3. CASE child'[y] = Close(child[y])
    BY <2>1, <2>3, CloseMinds
  <2>4. CASE child'[y] = NoChild
    BY <2>4, Unborn, UnbornMinds
  <2>5. CASE y = Fresh /\ child'[y] = Opening
    <3>1. Told(Opening, process)
      BY Unborn DEF Told
    <3>2. QED
      BY <2>5, <3>1, UnbornMinds
  <2>6. QED
    BY <2>2, <2>3, <2>4, <2>5
<1>2. UNCHANGED process /\ Running' = Running
  BY DEF Rest, Running
<1>3. Believing' /\ Blanks' /\ Telling' /\ Dressing'
  <2>1. Blank(child'[Spare], process) /\ Blank(child'[Fresh], process)
    BY <1>1, Places DEF Agreeing, Blanks
  <2>2. \A p \in Plugin : ~Settling(p)
    BY DEF Settling
  <2>3. QED
    BY <1>1, <1>2, <2>1, <2>2, Passing
<1>4. Updating'
  BY DEF Agreeing, Updating
<1>5. Waiting' /\ Loads' /\ Changes'
  BY <1>2 DEF Waiting, Loads, Changes
<1>6. QED
  BY <1>3, <1>4, <1>5 DEF Agreeing

\* A runtime is gone, and the call is answered.
LEMMA EmptyAgrees ==
  ASSUME TypeOK, Supervised, Agreeing, Rest, queue # <<>>, NEW ok \in BOOLEAN, Answered(ok, 0, iso),
         Running.kind # "env", iso.at \notin {"load", "ready"},
         \A y \in Place : child'[y] = NoChild \/ (child'[y] = child[y] /\ child[y].at = "rest")
  PROVE  Agreeing'
<1>1. iso \in Iso /\ iso.env > 0 /\ 0 \in Nat /\ iso.layout
  BY DEF TypeOK, Agreeing, Updating, Telling
<1>2. /\ Updating' /\ iso'.at = "rest" /\ iso'.env = iso.env /\ iso'.layout = iso.layout
      /\ bridge'.env = bridge.env
      /\ bridge'.acked = bridge'.env =>
           bridge.acked = bridge.env \/ (ok /\ Running.kind = "env" /\ Running.env = bridge.env)
  BY <1>1, Answering
<1>3. \A y \in Place :
        /\ Mindful(child'[y], process)
        /\ Told(child[y], process) => Told(child'[y], process)
        /\ Blank(child[y], process) => Blank(child'[y], process)
        /\ Follows(child[y], child'[y]) \/ ~child'[y].there
        /\ child'[y].at = "rest"
  BY Unborn, UnbornMinds DEF Agreeing, Believing, Follows
<1>4. Believing' /\ Blanks' /\ Telling' /\ Dressing'
  <2>1. Blank(child'[Spare], process) /\ Blank(child'[Fresh], process)
    BY <1>3, Places DEF Agreeing, Blanks
  <2>2. (\A p \in Plugin : ~Settling(p)) /\ UNCHANGED process
    BY DEF Settling, Rest
  <2>3. QED
    BY <1>1, <1>2, <1>3, <2>1, <2>2, Passing
<1>5. Loads' /\ Waiting' /\ Changes'
  BY <1>2, <1>3, Resting
<1>6. QED
  BY <1>2, <1>4, <1>5 DEF Agreeing
-----------------------------------------------------------------------------
(* Every action of the isolated runtime, again.                            *)

\* What holds when no call is at work.
LEMMA Idle ==
  ASSUME Agreeing, iso.at = "rest"
  PROVE  /\ \A x \in Place : child[x].at = "rest"
         /\ \A p \in Plugin : Told(child[p], process) /\ ~Settling(p)
BY DEF Agreeing, Waiting, Waited, OpeningFresh, Telling, Settling

\* No plugin is being loaded.
LEMMA Settledness ==
  ASSUME Agreeing, iso.at \notin {"load", "ready"}
  PROVE  \A p \in Plugin : Told(child[p], process) /\ ~Settling(p)
BY DEF Agreeing, Telling, Settling

\* A runtime is asked to unload its plugin.
LEMMA RetireAgrees ==
  ASSUME TypeOK, Supervised, Agreeing, Rest, NEW p \in Plugin, NEW env \in Nat, NEW ch, Thinned(ch),
         child' = [ch EXCEPT ![p] = Ask(@, "unload", env)], NEW todo \in SUBSET Plugin,
         iso' = [iso EXCEPT !.on = p, !.todo = todo, !.at = "retire"],
         UNCHANGED <<queue, bridge>>, Running.kind # "env", iso.at \notin {"load", "ready"},
         \A y \in Place : ch[y].at = "rest"
  PROVE  Agreeing'
<1>1. /\ iso'.at = "retire" /\ iso'.on = p /\ iso'.env = iso.env /\ iso'.layout = iso.layout
      /\ p \in Place /\ "unload" \in Kinds \ {"load"} /\ Waited(p)'
  BY Places DEF TypeOK, Iso, Kinds, Waited
<1>2. QED
  BY <1>1, Settledness, AskOneAgrees

\* A runtime is taken for a plugin that has none.
LEMMA TakeAgrees ==
  ASSUME TypeOK, Supervised, Agreeing, Rest, NEW p \in Plugin, NEW ch, Thinned(ch), Take(p, ch),
         ch[Spare] = child[Spare], Running.kind # "env", iso.at \notin {"load", "ready"},
         \A y \in Place : ch[y].at = "rest", ~ch[p].there
  PROVE  Agreeing'
<1>1. /\ Spare \in Place /\ Fresh \in Place /\ Spare # Fresh /\ p \in Place
      /\ Plugin \subseteq Place /\ p # Spare /\ p # Fresh
  BY Places
<1>2. \A q \in Plugin : Told(child[q], process) /\ ~Settling(q) /\ Told(ch[q], process)
  BY <1>1, Settledness, ThinnedFacts
<1>3. CASE ch[Spare].there
  <2>1. /\ child' = [ch EXCEPT ![p] = Ask(ch[Spare], "load", 0), ![Spare] = NoChild]
        /\ iso' = [iso EXCEPT !.on = p, !.at = "load"] /\ UNCHANGED <<queue, bridge>>
    BY <1>3 DEF Take, Goes
  <2>2. bridge.acked = bridge.env => Has(ch[Spare])
    BY <1>1 DEF Agreeing, Dressing
  <2>3. QED
    BY <1>1, <1>2, <2>1, <2>2, GivenAgrees
<1>4. CASE ~ch[Spare].there
  <2>1. /\ child' = [ch EXCEPT ![Fresh] = Opening]
        /\ iso' = [iso EXCEPT !.on = p, !.at = "open"] /\ UNCHANGED <<queue, bridge>>
    BY <1>4 DEF Take, Goes
  <2>2. iso'.at = "open" /\ iso'.env = iso.env /\ iso'.layout
    BY <2>1 DEF TypeOK, Iso, Agreeing, Telling
  <2>3. child'[Fresh] = Opening /\ \A y \in Place \ {Fresh} : child'[y] = ch[y]
    BY <1>1, <2>1 DEF Thinned
  <2>4. \A y \in Place : child'[y].at # "rest" => Waited(y)' /\ child'[y].at # "asked"
    BY <2>2, <2>3, Unborn DEF Waited, OpeningFresh
  <2>5. \A y \in Place : \/ child'[y] = child[y] \/ child'[y] = Close(child[y]) \/ child'[y] = NoChild
                         \/ y = Fresh /\ child'[y] = Opening
    BY <2>3 DEF Thinned
  <2>6. QED
    BY <2>1, <2>2, <2>4, <2>5, ClosingAgrees
<1>5. QED
  BY <1>3, <1>4

\* A call is answered at once, or refused.
LEMMA ReplyStartsAgrees ==
  ASSUME TypeOK, Supervised, Agreeing, Rest, queue # <<>>, NEW ok \in BOOLEAN, Reply(ok),
         \A x \in Place : child[x].at \in {"rest", "ok", "error"},
         \A p \in Plugin : Told(child[p], process), Running.kind # "env" \/ ~ok
  PROVE  Agreeing'
<1>1. iso \in Iso /\ iso.ack \in Nat /\ iso.layout /\ iso.env > 0
  BY DEF TypeOK, Iso, Agreeing, Telling, Updating
<1>2. Answered(ok, iso.ack, iso) /\ child' = AtRest(child)
  BY DEF Reply
<1>3. QED
  BY <1>1, <1>2, ReplyAgrees

\* The runtimes as they are.
LEMMA ThinnedSelf ==
  ASSUME TypeOK
  PROVE  Thinned(child)
BY DEF TypeOK, Thinned

\* Unloading the plugin of a slot begins a call.
LEMMA RetireStartsAgrees ==
  ASSUME TypeOK, Supervised, Agreeing, Rest, Ready, NEW p \in Slots, NEW todo \in SUBSET Plugin,
         Retire(p, todo), Running.kind # "env"
  PROVE  Agreeing'
<1>1. queue # <<>> /\ iso.at = "rest" /\ p \in Plugin
  BY Places DEF Ready
<1>2. /\ child' = [child EXCEPT ![p] = Ask(@, "unload", Running.env)]
      /\ iso' = [iso EXCEPT !.on = p, !.todo = todo, !.at = "retire"] /\ UNCHANGED <<queue, bridge>>
  BY DEF Retire, Asks, Goes
<1>3. Running.env \in Nat
  BY <1>1, RunningFacts
<1>4. QED
  BY <1>1, <1>2, <1>3, Idle, ThinnedSelf, RetireAgrees

\* Each action keeps the agreement.
LEMMA StartLoadAgrees ==
  ASSUME TypeOK, Supervised, Agreeing, StartLoad
  PROVE  Agreeing'
<1>1. Ready /\ Running.kind = "load" /\ Rest /\ queue # <<>> /\ iso.at = "rest"
  BY DEF StartLoad, Runs, Ready
<1>2. Target \in Plugin
  BY <1>1, RunningFacts DEF Targeted
<1>3. CASE Target \in Slots
  BY <1>1, <1>3, RetireStartsAgrees DEF StartLoad
<1>4. CASE Target \notin Slots
  <2>1. Take(Target, child) /\ ~child[Target].there
    BY <1>2, <1>4, Places DEF StartLoad
  <2>2. QED
    BY <1>1, <1>2, <2>1, Idle, ThinnedSelf, TakeAgrees
<1>5. QED
  BY <1>3, <1>4

\* reload.
LEMMA StartReloadAgrees ==
  ASSUME TypeOK, Supervised, Agreeing, StartReload
  PROVE  Agreeing'
<1>1. Ready /\ Running.kind = "reload" /\ Rest /\ queue # <<>> /\ iso.at = "rest"
  BY DEF StartReload, Runs, Ready
<1>2. CASE Target \in Slots
  BY <1>1, <1>2, RetireStartsAgrees DEF StartReload
<1>3. CASE Target \notin Slots
  BY <1>1, <1>3, Idle, ReplyStartsAgrees DEF StartReload
<1>4. QED
  BY <1>2, <1>3

\* unload.
LEMMA StartUnloadAgrees ==
  ASSUME TypeOK, Supervised, Agreeing, StartUnload
  PROVE  Agreeing'
<1>1. Ready /\ Running.kind = "unload" /\ Rest /\ queue # <<>> /\ iso.at = "rest"
  BY DEF StartUnload, Runs, Ready
<1>2. CASE Target \in Slots
  BY <1>1, <1>2, RetireStartsAgrees DEF StartUnload
<1>3. CASE Target \notin Slots
  BY <1>1, <1>3, Idle, ReplyStartsAgrees DEF StartUnload
<1>4. QED
  BY <1>2, <1>3

\* unloadAll.
LEMMA StartUnloadAllAgrees ==
  ASSUME TypeOK, Supervised, Agreeing, StartUnloadAll
  PROVE  Agreeing'
<1>1. Ready /\ Running.kind = "unloadAll" /\ Rest /\ queue # <<>> /\ iso.at = "rest"
  BY DEF StartUnloadAll, Runs, Ready
<1>2. CASE Slots = {}
  BY <1>1, <1>2, Idle, ReplyStartsAgrees DEF StartUnloadAll
<1>3. CASE Slots # {}
  <2>1. PICK p \in Slots : Retire(p, Slots \ {p})
    BY <1>3 DEF StartUnloadAll
  <2>2. Slots \ {p} \in SUBSET Plugin
    BY Places
  <2>3. QED
    BY <1>1, <2>1, <2>2, RetireStartsAgrees
<1>4. QED
  BY <1>2, <1>3

\* A request to one plugin.
LEMMA StartCallAgrees ==
  ASSUME TypeOK, Supervised, Agreeing, StartCall
  PROVE  Agreeing'
<1>1. Ready /\ Running.kind \in {"call", "view"} /\ Rest /\ queue # <<>> /\ iso.at = "rest"
  BY DEF StartCall, Runs, Ready
<1>2. /\ \A x \in Place : child[x].at = "rest"
      /\ \A p \in Plugin : Told(child[p], process) /\ ~Settling(p)
  BY <1>1, Idle
<1>3. iso \in Iso /\ iso.layout /\ Target \in Plugin /\ Target \in Place /\ Running.env \in Nat
  BY <1>1, RunningFacts, Places DEF TypeOK, Agreeing, Telling, Targeted
<1>4. CASE Target \notin Slots
  <2>1. Reply(FALSE)
    BY <1>4 DEF StartCall
  <2>2. QED
    BY <1>1, <1>2, <2>1, ReplyStartsAgrees
<1>5. CASE Target \in Slots /\ Running.kind = "view"
  <2>1. AsksAll("snapshot", iso) /\ "snapshot" \in Kinds \ {"load"}
    BY <1>5 DEF StartCall, Kinds
  <2>2. QED
    BY <1>1, <1>2, <1>3, <1>5, <2>1, AskEveryAgrees
<1>6. CASE Target \in Slots /\ Running.kind # "view"
  <2>1. Asks(Target, "call", [iso EXCEPT !.at = "one"]) /\ "call" \in Kinds \ {"load"}
    BY <1>6 DEF StartCall, Kinds
  <2>2. /\ child' = [child EXCEPT ![Target] = Ask(@, "call", Running.env)]
        /\ iso' = [iso EXCEPT !.at = "one"] /\ UNCHANGED <<queue, bridge>>
    BY <2>1 DEF Asks, Goes
  <2>3. iso'.at = "one" /\ iso'.env = iso.env /\ iso'.layout = iso.layout /\ Target' = Target
    BY <1>3, <2>2 DEF Iso, Target, Running
  <2>4. Waited(Target)'
    BY <2>3 DEF Waited
  <2>5. QED
    BY <1>1, <1>2, <1>3, <2>1, <2>2, <2>3, <2>4, ThinnedSelf, AskOneAgrees
<1>7. QED
  BY <1>4, <1>5, <1>6

\* A request to every runtime.
LEMMA StartEverywhereAgrees ==
  ASSUME TypeOK, Supervised, Agreeing, StartEverywhere
  PROVE  Agreeing'
<1>1. Ready /\ Running.kind \in {"snapshot", "notify", "layout", "env"} /\ Rest /\ queue # <<>>
      /\ iso.at = "rest"
  BY DEF StartEverywhere, Runs, Ready
<1>2. /\ \A x \in Place : child[x].at = "rest"
      /\ \A p \in Plugin : Told(child[p], process) /\ ~Settling(p)
  BY <1>1, Idle
<1>3. iso \in Iso /\ iso.layout /\ Running.env \in Nat /\ Running.kind \in Kinds \ {"load"}
      /\ Spare \in Place
  BY <1>1, RunningFacts, Places DEF TypeOK, Agreeing, Telling, Targeted
<1>4. CASE child[Spare].there /\ Running.kind \in {"snapshot", "env"}
  <2>1. /\ child' = [child EXCEPT ![Spare] = Ask(@, Running.kind, Running.env)]
        /\ iso' = [iso EXCEPT !.at = "spare"] /\ UNCHANGED <<queue, bridge>>
    BY <1>4 DEF StartEverywhere, Asks, Goes
  <2>2. iso'.at = "spare" /\ iso'.env = iso.env /\ iso'.layout = iso.layout
    BY <1>3, <2>1 DEF Iso
  <2>3. Waited(Spare)'
    BY <2>2 DEF Waited
  <2>4. QED
    BY <1>1, <1>2, <1>3, <2>1, <2>2, <2>3, ThinnedSelf, AskOneAgrees
<1>5. CASE ~(child[Spare].there /\ Running.kind \in {"snapshot", "env"})
  <2> DEFINE i == [iso EXCEPT !.layout = @ \/ Running.kind = "layout"]
  <2>1. AsksAll(Running.kind, i)
    BY <1>5 DEF StartEverywhere
  <2>2. i \in Iso /\ i.env = iso.env /\ i.layout
    <3>1. (iso.layout \/ Running.kind = "layout") \in BOOLEAN
      BY <1>3 DEF Iso
    <3>2. QED
      BY <1>3, <3>1 DEF Iso
  <2> HIDE DEF i
  <2>3. QED
    BY <1>1, <1>2, <1>3, <1>5, <2>1, <2>2, AskEveryAgrees
<1>6. QED
  BY <1>4, <1>5

\* A call after the close.
LEMMA RefuseAgrees ==
  ASSUME TypeOK, Supervised, Agreeing, Refuse
  PROVE  Agreeing'
BY Idle, ReplyStartsAgrees DEF Refuse

\* A call during the close: the bridge is told of the one update there can be.
LEMMA RefuseClosingAgrees ==
  ASSUME TypeOK, Supervised, Agreeing, RefuseClosing
  PROVE  Agreeing'
<1>1. /\ queue' = [Tail(queue) EXCEPT ![1] = Running] /\ Len(queue) > 1
      /\ bridge' = [bridge EXCEPT !.busy = @ /\ queue[2].kind # "env"]
      /\ UNCHANGED <<iso, child, process>>
  BY DEF RefuseClosing, Rest
<1>2. /\ Running' = Running /\ Target' = Target
      /\ \A j \in DOMAIN queue' : queue'[j] = queue[IF j = 1 THEN 1 ELSE j + 1]
      /\ \A j \in DOMAIN queue' : (IF j = 1 THEN 1 ELSE j + 1) \in DOMAIN queue \ {2}
      /\ DOMAIN queue' \subseteq Nat \ {0} /\ 2 \in DOMAIN queue
  <2>1. queue \in Seq(Op)
    BY DEF TypeOK
  <2>2. queue' \in Seq(Op) => DOMAIN queue' \subseteq Nat \ {0}
    OBVIOUS
  <2>3. QED
    BY <1>1, <2>1, <2>2, RefusedFacts
<1>3. /\ bridge'.env = bridge.env /\ bridge'.acked = bridge.acked
      /\ bridge'.busy <=> bridge.busy /\ queue[2].kind # "env"
  BY <1>1 DEF TypeOK
<1>4. Believing' /\ Blanks' /\ Telling'
  BY <1>1 DEF Agreeing, Believing, Blanks, Telling, Mindful, Minds, Knows, Blank, Told, Alive, Settling
<1>5. Loads'
  BY <1>1 DEF Agreeing, Loads, Asking
<1>6. Waiting'
  <2>1. \A x \in Place : Waited(x) => Waited(x)'
    BY <1>1, <1>2 DEF Waited, Slots, There, OpeningFresh
  <2>2. QED
    BY <1>1, <2>1 DEF Agreeing, Waiting
<1>7. Changes'
  <2>1. Slots' = Slots
    BY <1>1 DEF Slots, There
  <2>2. QED
    BY <1>1, <1>2, <2>1 DEF Agreeing, Changes, Changing
<1>8. Updating'
  <2>1. \A j \in DOMAIN queue' : queue'[j].kind = "env" =>
          bridge'.busy /\ queue'[j].env = bridge'.env
    BY <1>2, <1>3 DEF Agreeing, Updating
  <2>2. \A i, j \in DOMAIN queue' : queue'[i].kind = "env" /\ queue'[j].kind = "env" => i = j
    <3> SUFFICES ASSUME NEW i \in DOMAIN queue', NEW j \in DOMAIN queue',
                        queue'[i].kind = "env", queue'[j].kind = "env"
                 PROVE  i = j
      OBVIOUS
    <3> DEFINE k == IF i = 1 THEN 1 ELSE i + 1
               l == IF j = 1 THEN 1 ELSE j + 1
    <3>1. k \in DOMAIN queue /\ l \in DOMAIN queue /\ queue[k].kind = "env" /\ queue[l].kind = "env"
      BY <1>2
    <3>2. k = l
      BY <3>1 DEF Agreeing, Updating
    <3>3. i \in Nat \ {0} /\ j \in Nat \ {0} /\ k # 2 /\ l # 2
      BY <1>2
    <3>4. QED
      BY <3>2, <3>3
  <2>3. QED
    BY <1>1, <1>3, <2>1, <2>2 DEF Agreeing, Updating
<1>9. Dressing'
  BY <1>1, <1>3 DEF Agreeing, Dressing, Has
<1>10. QED
  BY <1>4, <1>5, <1>6, <1>7, <1>8, <1>9 DEF Agreeing

\* close: every runtime is asked to close.
LEMMA StartCloseAgrees ==
  ASSUME TypeOK, Supervised, Agreeing, StartClose
  PROVE  Agreeing'
<1>1. Ready /\ Rest /\ queue # <<>> /\ iso.at = "rest" /\ Running.kind = "close"
  BY DEF StartClose, Runs, Ready
<1>2. iso' = [iso EXCEPT !.open = FALSE, !.at = "close"] /\ UNCHANGED <<queue, bridge>>
  BY DEF StartClose, Goes
<1>3. iso'.at = "close" /\ iso'.env = iso.env /\ iso'.layout
  BY <1>2 DEF TypeOK, Iso, Agreeing, Telling
<1>4. \A x \in Place : child[x].at = "rest"
  BY <1>1, Idle
<1>5. \A x \in Place : child'[x] = Close(child[x]) \/ child'[x] = child[x]
  BY DEF StartClose
<1>6. \A y \in Place : child'[y].at # "rest" => Waited(y)' /\ child'[y].at # "asked"
  <2> SUFFICES ASSUME NEW y \in Place, child'[y].at = "asked"
               PROVE  FALSE
    BY <1>3 DEF Waited
  <2>1. child[y] \in Child
    BY DEF TypeOK
  <2>2. QED
    BY <1>4, <1>5, <2>1, CloseMinds
<1>7. QED
  BY <1>1, <1>2, <1>3, <1>5, <1>6, ClosingAgrees

\* What holds in the middle of a call.
LEMMA Midcall ==
  ASSUME TypeOK, Supervised, Agreeing, iso.at \notin {"rest", "close"}
  PROVE  /\ queue # <<>> /\ iso \in Iso /\ child \in [Place -> Child] /\ iso.layout /\ iso.env > 0
         /\ Running.kind \in Kinds /\ Running.env \in Nat
         /\ Running.kind \in Targeted => Target \in Plugin
         /\ iso.at \notin {"spare", "every"} => Running.kind # "env"
         /\ Thinned(child)
BY Midway, ThinnedSelf DEF Agreeing, Telling, Updating, Changes

\* The runtime of the plugin that a call works on.
LEMMA Worked ==
  ASSUME TypeOK, Supervised, Agreeing, iso.at \in {"retire", "shut", "load", "ready", "salvage"}
  PROVE  /\ iso.on \in Plugin /\ iso.on \in Place
         /\ \A y \in Place \ {iso.on} : child[y].at = "rest"
BY Places DEF Supervised, Stands, Served, Agreeing, Waiting, Waited, OpeningFresh

\* The runtime that is opened.
LEMMA OpenedOne ==
  ASSUME TypeOK, Supervised, Agreeing, iso.at \in OpeningFresh
  PROVE  /\ Fresh \in Place /\ iso.on \in Plugin
         /\ \A y \in Place \ {Fresh} : child[y].at = "rest"
BY Places DEF Supervised, Stands, Served, Agreeing, Waiting, Waited, OpeningFresh

\* The plugin is unloaded; its runtime is asked to close.
LEMMA RetiredAgrees ==
  ASSUME TypeOK, Supervised, Agreeing, Retired
  PROVE  Agreeing'
<1>1. Rest /\ iso.at = "retire" /\ Settled(iso.on)
  BY DEF Retired
<1>2. iso \in Iso /\ child \in [Place -> Child] /\ iso.layout /\ Running.kind # "env"
  BY <1>1, Midcall
<1>3. iso.on \in Place /\ \A y \in Place \ {iso.on} : child[y].at = "rest"
  BY <1>1, Worked
<1>4. iso' = [iso EXCEPT !.at = "shut", !.err = ~Ok(iso.on)] /\ UNCHANGED <<queue, bridge>>
  BY DEF Retired, Goes
<1>5. iso'.at = "shut" /\ iso'.on = iso.on /\ iso'.env = iso.env /\ iso'.layout
  BY <1>2, <1>4 DEF Iso
<1>6. child'[iso.on] = Close(child[iso.on]) /\ \A y \in Place \ {iso.on} : child'[y] = child[y]
  BY <1>2, <1>3 DEF Retired
<1>7. child'[iso.on].at # "asked"
  BY <1>2, <1>3, <1>6, CloseMinds
<1>8. \A y \in Place : child'[y].at # "rest" => Waited(y)' /\ child'[y].at # "asked"
  BY <1>3, <1>5, <1>6, <1>7 DEF Waited
<1>9. QED
  BY <1>1, <1>2, <1>4, <1>5, <1>6, <1>8, ClosingAgrees

\* The runtime has closed.
LEMMA ShutAgrees ==
  ASSUME TypeOK, Supervised, Agreeing, Shut
  PROVE  Agreeing'
<1> DEFINE ch == [child EXCEPT ![iso.on] = NoChild]
<1>1. Rest /\ iso.at = "shut"
  BY DEF Shut
<1>2. queue # <<>> /\ iso \in Iso /\ child \in [Place -> Child] /\ iso.layout /\ Running.kind # "env"
  BY <1>1, Midcall
<1>3. iso.on \in Place /\ iso.on \in Plugin /\ \A y \in Place \ {iso.on} : child[y].at = "rest"
  BY <1>1, Worked
<1>4. /\ Thinned(ch) /\ ch[iso.on] = NoChild /\ \A y \in Place \ {iso.on} : ch[y] = child[y]
  BY <1>2, <1>3, Unborn DEF Thinned
<1>5. (\A y \in Place : ch[y].at = "rest") /\ ~ch[iso.on].there /\ ch[Spare] = child[Spare]
  BY <1>3, <1>4, Unborn, Places
<1>6. CASE iso.err \/ (Running.kind \in {"unload", "unloadAll"} /\ iso.todo = {})
  <2>1. Answered(~iso.err, 0, iso) /\ child' = ch /\ (~iso.err) \in BOOLEAN
    BY <1>6 DEF Shut
  <2>2. \A y \in Place : child'[y] = NoChild \/ (child'[y] = child[y] /\ child[y].at = "rest")
    BY <1>3, <1>4, <2>1
  <2>3. QED
    BY <1>1, <1>2, <2>1, <2>2, EmptyAgrees
<1>7. CASE ~iso.err /\ iso.todo # {}
  <2>1. PICK p \in iso.todo : /\ child' = [ch EXCEPT ![p] = Ask(@, "unload", 0)]
                              /\ Goes([iso EXCEPT !.on = p, !.todo = @ \ {p}, !.at = "retire"])
    BY <1>7 DEF Shut
  <2>2. p \in Plugin /\ iso.todo \ {p} \in SUBSET Plugin
    BY <1>2 DEF Iso
  <2>3. iso' = [iso EXCEPT !.on = p, !.todo = iso.todo \ {p}, !.at = "retire"]
        /\ UNCHANGED <<queue, bridge>>
    BY <2>1 DEF Goes
  <2>4. Thinned(ch) /\ (\A y \in Place : ch[y].at = "rest") /\ UNCHANGED <<queue, bridge>>
    BY <1>4, <1>5, <2>3
  <2> HIDE DEF ch
  <2>5. Rest /\ Running.kind # "env" /\ iso.at \notin {"load", "ready"} /\ UNCHANGED <<queue, bridge>>
    BY <1>1, <1>2, <2>3
  <2>6. ASSUME NEW c2, Thinned(c2), NEW q \in Plugin, NEW env \in Nat, NEW todo \in SUBSET Plugin,
               child' = [c2 EXCEPT ![q] = Ask(@, "unload", env)],
               iso' = [iso EXCEPT !.on = q, !.todo = todo, !.at = "retire"],
               \A y \in Place : c2[y].at = "rest"
        PROVE  Agreeing'
    BY <2>5, <2>6, RetireAgrees
  <2>7. QED
    BY <2>1, <2>2, <2>3, <2>4, <2>6
<1>8. CASE ~iso.err /\ iso.todo = {} /\ ~(Running.kind \in {"unload", "unloadAll"})
  <2>1. Take(iso.on, ch)
    BY <1>8 DEF Shut
  <2> HIDE DEF ch
  <2>2. QED
    BY <1>1, <1>2, <1>3, <1>4, <1>5, <2>1, TakeAgrees
<1>9. QED
  BY <1>6, <1>7, <1>8

\* A new runtime has opened, or could not.
LEMMA OpenedAgrees ==
  ASSUME TypeOK, Supervised, Agreeing, Opened
  PROVE  Agreeing'
<1>1. Rest /\ iso.at = "open" /\ Settled(Fresh)
  BY DEF Opened
<1>2. /\ queue # <<>> /\ iso \in Iso /\ child \in [Place -> Child] /\ Running.env \in Nat
      /\ Running.kind # "env" /\ Thinned(child)
  BY <1>1, Midcall
<1>3. Fresh \in Place /\ \A y \in Place \ {Fresh} : child[y].at = "rest"
  BY <1>1, OpenedOne DEF OpeningFresh
<1>4. CASE Ok(Fresh)
  <2>1. /\ child' = [child EXCEPT ![Fresh] = Ask(@, "snapshot", Running.env)]
        /\ iso' = [iso EXCEPT !.at = "look"] /\ UNCHANGED <<queue, bridge>>
    BY <1>4 DEF Opened, Asks, Goes
  <2>2. /\ iso'.at = "look" /\ iso'.env = iso.env /\ iso'.layout = iso.layout
        /\ "snapshot" \in Kinds \ {"load"}
    BY <1>2, <2>1 DEF Iso, Kinds
  <2>3. Waited(Fresh)' /\ child[Fresh].at = "ok"
    BY <1>4, <2>2 DEF Waited, OpeningFresh, Ok
  <2>4. \A p \in Plugin : ~Settling(p)
    BY <1>1 DEF Settling
  <2>5. QED
    BY <1>1, <1>2, <1>3, <2>1, <2>2, <2>3, <2>4, AskOneAgrees
<1>5. CASE ~Ok(Fresh)
  <2>1. Answered(FALSE, 0, iso) /\ child' = [child EXCEPT ![Fresh] = NoChild]
    BY <1>5 DEF Opened
  <2>2. \A y \in Place : child'[y] = NoChild \/ (child'[y] = child[y] /\ child[y].at = "rest")
    BY <1>2, <1>3, <2>1
  <2>3. QED
    BY <1>1, <1>2, <2>1, <2>2, EmptyAgrees
<1>6. QED
  BY <1>4, <1>5

\* The new runtime is asked to close.
LEMMA DropsAgree ==
  ASSUME TypeOK, Supervised, Agreeing, Rest, iso.at \in OpeningFresh, Drops
  PROVE  Agreeing'
<1>1. iso \in Iso /\ child \in [Place -> Child] /\ iso.layout /\ Running.kind # "env"
  BY Midcall DEF OpeningFresh
<1>2. Fresh \in Place /\ \A y \in Place \ {Fresh} : child[y].at = "rest"
  BY OpenedOne
<1>3. iso' = [iso EXCEPT !.at = "drop"] /\ UNCHANGED <<queue, bridge>>
  BY DEF Drops, Goes
<1>4. iso'.at = "drop" /\ iso'.env = iso.env /\ iso'.layout
  BY <1>1, <1>3 DEF Iso
<1>5. child'[Fresh] = Close(child[Fresh]) /\ \A y \in Place \ {Fresh} : child'[y] = child[y]
  BY <1>1, <1>2 DEF Drops
<1>6. child'[Fresh].at # "asked"
  BY <1>1, <1>2, <1>5, CloseMinds
<1>7. \A y \in Place : child'[y].at # "rest" => Waited(y)' /\ child'[y].at # "asked"
  BY <1>2, <1>4, <1>5, <1>6 DEF Waited, OpeningFresh
<1>8. QED
  BY <1>1, <1>3, <1>4, <1>5, <1>7, ClosingAgrees DEF OpeningFresh

\* It has answered its first snapshot.
LEMMA LookedAgrees ==
  ASSUME TypeOK, Supervised, Agreeing, Looked
  PROVE  Agreeing'
<1>1. Rest /\ iso.at = "look" /\ iso.at \in OpeningFresh
  BY DEF Looked, OpeningFresh
<1>2. /\ queue # <<>> /\ iso \in Iso /\ child \in [Place -> Child] /\ iso.env \in Nat /\ iso.env > 0
      /\ Running.kind # "env" /\ Thinned(child)
  BY <1>1, Midcall DEF Iso
<1>3. Fresh \in Place /\ \A y \in Place \ {Fresh} : child[y].at = "rest"
  BY <1>1, OpenedOne
<1>4. CASE ~Ok(Fresh)
  BY <1>1, <1>4, DropsAgree DEF Looked
<1>5. CASE Ok(Fresh)
  <2>1. /\ child' = [child EXCEPT ![Fresh] = Ask(@, "env", iso.env)]
        /\ iso' = [iso EXCEPT !.at = "dress"] /\ UNCHANGED <<queue, bridge>>
    BY <1>2, <1>5 DEF Looked, Goes
  <2>2. /\ iso'.at = "dress" /\ iso'.env = iso.env /\ iso'.layout = iso.layout
        /\ "env" \in Kinds \ {"load"}
    BY <1>2, <2>1 DEF Iso, Kinds
  <2>3. Waited(Fresh)' /\ child[Fresh].at = "ok"
    BY <1>5, <2>2 DEF Waited, OpeningFresh, Ok
  <2>4. \A p \in Plugin : ~Settling(p)
    BY <1>1 DEF Settling
  <2>5. QED
    BY <1>1, <1>2, <1>3, <2>1, <2>2, <2>3, <2>4, AskOneAgrees
<1>6. QED
  BY <1>4, <1>5

\* It has the environment of the others.
LEMMA DressedAgrees ==
  ASSUME TypeOK, Supervised, Agreeing, Dressed
  PROVE  Agreeing'
<1>1. Rest /\ iso.at = "dress" /\ iso.at \in OpeningFresh
  BY DEF Dressed, OpeningFresh
<1>2. /\ queue # <<>> /\ iso \in Iso /\ child \in [Place -> Child]
      /\ Running.kind # "env" /\ Thinned(child)
  BY <1>1, Midcall DEF Iso
<1>3. Fresh \in Place /\ iso.on \in Plugin /\ \A y \in Place \ {Fresh} : child[y].at = "rest"
  BY <1>1, OpenedOne
<1>4. CASE Drops
  BY <1>1, <1>4, DropsAgree
<1>5. CASE Ok(Fresh) /\ Installs
  <2>1. /\ child' = [child EXCEPT ![iso.on] = Ask(child[Fresh], "load", 0), ![Fresh] = NoChild]
        /\ iso' = [iso EXCEPT !.at = "load"] /\ UNCHANGED <<queue, bridge>>
    BY <1>5 DEF Installs, Goes
  <2>2. iso' = [iso EXCEPT !.on = iso.on, !.at = "load"]
    BY <1>2, <2>1 DEF Iso
  <2>3. child[Fresh].at = "ok" /\ Has(child[Fresh])
    BY <1>1, <1>3, <1>5 DEF Ok, Has, Agreeing, Believing, Mindful, Minds, Changes, Changing
  <2>4. \A q \in Plugin : Told(child[q], process)
    BY <1>1, Settledness
  <2>5. QED
    BY <1>1, <1>2, <1>3, <2>1, <2>2, <2>3, <2>4, GivenAgrees
<1>6. QED
  BY <1>4, <1>5 DEF Dressed

\* It has been closed again.
LEMMA DroppedAgrees ==
  ASSUME TypeOK, Supervised, Agreeing, Dropped
  PROVE  Agreeing'
<1>1. Rest /\ iso.at = "drop" /\ iso.at \in OpeningFresh
      /\ Answered(FALSE, 0, iso) /\ child' = [child EXCEPT ![Fresh] = NoChild]
  BY DEF Dropped, OpeningFresh
<1>2. queue # <<>> /\ Running.kind # "env" /\ child \in [Place -> Child]
  BY <1>1, Midcall
<1>3. Fresh \in Place /\ \A y \in Place \ {Fresh} : child[y].at = "rest"
  BY <1>1, OpenedOne
<1>4. \A y \in Place : child'[y] = NoChild \/ (child'[y] = child[y] /\ child[y].at = "rest")
  BY <1>1, <1>2, <1>3
<1>5. QED
  BY <1>1, <1>2, <1>4, EmptyAgrees

\* A plugin that was not loaded, or not told of the layout, does not run in its
\* renderer; and one that was told has been told.
LEMMA SettlingFacts ==
  ASSUME TypeOK, Supervised, Agreeing, iso.at \in {"load", "ready"}, Settled(iso.on)
  PROVE  iso.at = "ready" \/ ~Ok(iso.on) => Told(child[iso.on], process)
<1> DEFINE c == child[iso.on]
<1>1. Sound(c) /\ Mindful(c, process) /\ c.at \in {"ok", "error"}
  BY Worked DEF Supervised, Agreeing, Believing, Settled
<1>2. /\ iso.at = "load" => Asking(c, "load")
      /\ iso.at = "ready" => Asking(c, "layout")
  BY DEF Agreeing, Loads
<1> HIDE DEF c
<1>3. CASE ~Alive(c)
  BY <1>3 DEF Told, c
<1>4. CASE Alive(c)
  <2>1. c.open /\ Knows(c, process[c.pid])
    BY <1>1, <1>4 DEF Sound, Mindful
  <2>2. CASE iso.at = "load"
    BY <1>1, <1>2, <2>1, <2>2 DEF Asking, Knows, Told, Ok, c
  <2>3. CASE iso.at = "ready"
    BY <1>1, <1>2, <2>1, <2>3 DEF Asking, Knows, Told, Ok, c
  <2>4. QED
    BY <2>2, <2>3
<1>5. QED
  BY <1>3, <1>4

\* A plugin's runtime is asked after it was loaded.
LEMMA AfterLoadAgrees ==
  ASSUME TypeOK, Supervised, Agreeing, Rest, iso.at \in {"load", "ready"}, Settled(iso.on),
         NEW kind \in {"snapshot", "layout"}, NEW at \in {"salvage", "ready"},
         Asks(iso.on, kind, [iso EXCEPT !.at = at]),
         at = "ready" <=> kind = "layout",
         at = "salvage" => Told(child[iso.on], process)
  PROVE  Agreeing'
<1>1. /\ queue # <<>> /\ iso \in Iso /\ Running.env \in Nat /\ Running.kind # "env" /\ Thinned(child)
  BY Midcall
<1>2. iso.on \in Place /\ iso.on \in Plugin /\ \A y \in Place \ {iso.on} : child[y].at = "rest"
  BY Worked
<1>3. /\ child' = [child EXCEPT ![iso.on] = Ask(@, kind, Running.env)]
      /\ iso' = [iso EXCEPT !.at = at] /\ UNCHANGED <<queue, bridge>>
  BY DEF Asks, Goes
<1>4. /\ iso'.env = iso.env /\ iso'.layout = iso.layout /\ iso'.on = iso.on /\ iso'.at = at
      /\ kind \in Kinds \ {"load"}
  BY <1>1, <1>3 DEF Iso, Kinds
<1>5. Waited(iso.on)'
  BY <1>4 DEF Waited
<1>6. \A p \in Plugin : Settling(p) => Settling(p)' \/ Told(child[p], process)
  BY <1>4 DEF Settling
<1>7. QED
  BY <1>1, <1>2, <1>3, <1>4, <1>5, <1>6, AskOneAgrees DEF Settled

\* The plugin is loaded, or is not.
LEMMA LoadedAgrees ==
  ASSUME TypeOK, Supervised, Agreeing, Loaded
  PROVE  Agreeing'
<1>1. Rest /\ iso.at = "load" /\ Settled(iso.on) /\ iso.layout
  BY DEF Loaded, Agreeing, Telling
<1>2. CASE ~Ok(iso.on)
  <2>1. Asks(iso.on, "snapshot", [iso EXCEPT !.at = "salvage"])
    BY <1>2 DEF Loaded
  <2>2. QED
    BY <1>1, <1>2, <2>1, SettlingFacts, AfterLoadAgrees
<1>3. CASE Ok(iso.on)
  <2>1. Asks(iso.on, "layout", [iso EXCEPT !.at = "ready"])
    BY <1>1, <1>3 DEF Loaded
  <2>2. QED
    BY <1>1, <2>1, AfterLoadAgrees
<1>4. QED
  BY <1>2, <1>3

\* When every runtime that works has answered, the call is answered.
LEMMA LastAgrees ==
  ASSUME TypeOK, Supervised, Agreeing, Rest, iso.at \notin {"rest", "close"},
         NEW ok \in BOOLEAN, Reply(ok), Running.kind # "env" \/ ~ok,
         \A x \in Place : Waited(x) => child[x].at \in {"rest", "ok", "error"},
         \A p \in Plugin : Settling(p) => Told(child[p], process)
  PROVE  Agreeing'
<1>1. queue # <<>>
  BY Midcall
<1>2. \A x \in Place : child[x].at \in {"rest", "ok", "error"}
  BY DEF Agreeing, Waiting
<1>3. \A p \in Plugin : Told(child[p], process)
  BY DEF Agreeing, Telling
<1>4. QED
  BY <1>1, <1>2, <1>3, ReplyStartsAgrees

\* It has been told of the layout.
LEMMA LayoutToldAgrees ==
  ASSUME TypeOK, Supervised, Agreeing, LayoutTold
  PROVE  Agreeing'
<1>1. Rest /\ iso.at = "ready" /\ Settled(iso.on) /\ Told(child[iso.on], process)
  BY SettlingFacts DEF LayoutTold
<1>2. CASE Ok(iso.on)
  <2>1. Running.kind # "env" /\ Reply(TRUE)
    BY <1>1, <1>2, Midcall DEF LayoutTold
  <2>2. \A x \in Place : Waited(x) => child[x].at \in {"rest", "ok", "error"}
    BY <1>1 DEF Waited, Settled, OpeningFresh
  <2>3. \A p \in Plugin : Settling(p) => Told(child[p], process)
    BY <1>1 DEF Settling
  <2>4. QED
    BY <1>1, <2>1, <2>2, <2>3, LastAgrees
<1>3. CASE ~Ok(iso.on)
  <2>1. Asks(iso.on, "snapshot", [iso EXCEPT !.at = "salvage"])
    BY <1>3 DEF LayoutTold
  <2>2. QED
    BY <1>1, <2>1, AfterLoadAgrees
<1>4. QED
  BY <1>2, <1>3

\* The slot of a plugin that could not be loaded stays.
LEMMA SalvagedAgrees ==
  ASSUME TypeOK, Supervised, Agreeing, Salvaged
  PROVE  Agreeing'
<1>1. Rest /\ iso.at = "salvage" /\ Settled(iso.on) /\ Reply(FALSE)
  BY DEF Salvaged
<1>2. \A x \in Place : Waited(x) => child[x].at \in {"rest", "ok", "error"}
  BY <1>1 DEF Waited, Settled, OpeningFresh
<1>3. \A p \in Plugin : ~Settling(p)
  BY <1>1 DEF Settling
<1>4. QED
  BY <1>1, <1>2, <1>3, LastAgrees
-----------------------------------------------------------------------------
(* The requests to every runtime, and the close.                           *)

\* The idle runtime has answered.
LEMMA SpareToldAgrees ==
  ASSUME TypeOK, Supervised, Agreeing, SpareTold
  PROVE  Agreeing'
<1>1. Rest /\ iso.at = "spare" /\ Settled(Spare)
  BY DEF SpareTold
<1>2. queue # <<>> /\ iso \in Iso /\ child \in [Place -> Child] /\ iso.layout
  BY <1>1, Midcall
<1>3. Running.kind \in {"snapshot", "env"} /\ Running.kind \in Kinds \ {"load"}
  BY <1>1 DEF Supervised, Stands, Served, Kinds
<1>4. /\ \A y \in Place : Waited(y) => y = Spare
      /\ \A p \in Plugin : ~Settling(p)
  BY <1>1 DEF Waited, Settling, OpeningFresh
<1>5. CASE Ok(Spare)
  <2> DEFINE i == [iso EXCEPT !.ack = child[Spare].ack]
  <2>1. AsksAll(Running.kind, i)
    BY <1>5 DEF SpareTold
  <2>2. i \in Iso /\ i.env = iso.env /\ i.layout
    <3>1. child[Spare].ack \in Nat
      BY <1>2, Places DEF Child
    <3>2. QED
      BY <1>2, <3>1 DEF Iso
  <2>3. \A y \in Place : child[y].at # "rest" => y = Spare /\ Ok(y)
    BY <1>4, <1>5 DEF Agreeing, Waiting
  <2>4. Running.kind = "env" => Changing(child[Spare], Running.env)
    BY <1>1 DEF Agreeing, Changes
  <2> HIDE DEF i
  <2>5. QED
    BY <1>1, <1>2, <1>3, <1>5, <2>1, <2>2, <2>3, <2>4, AskEveryAgrees
<1>6. CASE ~Ok(Spare)
  <2>1. Reply(FALSE)
    BY <1>6 DEF SpareTold
  <2>2. \A x \in Place : Waited(x) => child[x].at \in {"rest", "ok", "error"}
    BY <1>1, <1>4 DEF Settled
  <2>3. QED
    BY <1>1, <1>4, <2>1, <2>2, LastAgrees
<1>7. QED
  BY <1>5, <1>6

\* Every slot has answered.
LEMMA EveryToldAgrees ==
  ASSUME TypeOK, Supervised, Agreeing, EveryTold
  PROVE  Agreeing'
<1>1. Rest /\ iso.at = "every" /\ \A p \in Slots : Settled(p)
  BY DEF EveryTold
<1>2. /\ queue # <<>> /\ iso \in Iso /\ child \in [Place -> Child] /\ iso.layout /\ iso.env > 0
      /\ Running.kind \in Kinds /\ Running.env \in Nat /\ Thinned(child)
      /\ Running.kind \in Targeted => Target \in Plugin
  BY <1>1, Midcall
<1>3. \A x \in Place : Waited(x) => child[x].at \in {"rest", "ok", "error"}
  BY <1>1 DEF Waited, Settled, OpeningFresh
<1>4. \A p \in Plugin : ~Settling(p)
  BY <1>1 DEF Settling
<1> DEFINE oks == \A p \in Slots : Ok(p)
           acks == IF iso.ack > 0 THEN {iso.ack}
                   ELSE IF Slots = {} THEN {Running.env} ELSE {child[p].ack : p \in Slots}
<1>5. CASE ~oks
  <2>1. Reply(FALSE)
    BY <1>5 DEF EveryTold
  <2>2. QED
    BY <1>1, <1>3, <1>4, <2>1, LastAgrees
<1>6. CASE oks /\ Running.kind = "view"
  <2>1. /\ child' = [child EXCEPT ![Target] = Ask(@, "view", Running.env)]
        /\ iso' = [iso EXCEPT !.at = "one"] /\ UNCHANGED <<queue, bridge>>
    BY <1>6 DEF EveryTold, Asks, Goes
  <2>2. /\ iso'.at = "one" /\ iso'.env = iso.env /\ iso'.layout = iso.layout
        /\ "view" \in Kinds \ {"load"} /\ Target \in Place /\ Target \in Plugin
    BY <1>2, <1>6, <2>1, Places DEF Iso, Kinds, Targeted
  <2>3. /\ child[Target].at \in {"rest", "ok", "error"}
        /\ \A y \in Place \ {Target} :
             child[y].at = "rest" \/ (y \in Slots \cup {Spare} /\ child[y].at = "ok")
    BY <1>1, <1>3, <1>6, <2>2 DEF Agreeing, Waiting, Waited, OpeningFresh, Ok
  <2>4. Target' = Target /\ Running' = Running
    BY <2>1 DEF Target, Running
  <2>5. /\ \A y \in Place \ {Target} : child'[y] = child[y]
        /\ child'[Target].there = child[Target].there
    <3>1. child[Target] \in Child /\ Sound(child[Target]) /\ child[Target].at # "closing"
      BY <1>2, <2>2, <2>3 DEF Supervised
    <3>2. child'[Target] = Ask(child[Target], "view", Running.env)
      BY <1>2, <2>1, <2>2
    <3>3. child'[Target].there = child[Target].there
      BY <1>2, <2>2, <3>1, <3>2, AskFacts DEF SameRenderer
    <3>4. QED
      BY <1>2, <2>1, <2>2, <3>3
  <2>6. Slots' = Slots
    BY <2>5 DEF Slots, There
  <2>7. \A y \in Place \ {Target} : child[y].at = "rest" \/ (Waited(y)' /\ child[y].at = "ok")
    BY <2>2, <2>3, <2>5, <2>6 DEF Waited
  <2>8. Waited(Target)'
    BY <2>2, <2>4 DEF Waited
  <2> HIDE DEF oks, acks
  <2>9. QED
    BY <1>1, <1>2, <1>4, <1>6, <2>1, <2>2, <2>3, <2>4, <2>7, <2>8, AskOneAgrees
<1>7. CASE oks /\ Running.kind = "env"
  <2>1. PICK a \in acks : Answered(TRUE, a, [iso EXCEPT !.env = Running.env])
    BY <1>7 DEF EveryTold
  <2> DEFINE i == [iso EXCEPT !.env = Running.env]
  <2>2. child' = AtRest(child) /\ Answered(TRUE, a, i)
    BY <1>7, <2>1 DEF EveryTold
  <2>3. a \in Nat
    <3>1. iso.ack \in Nat /\ \A p \in Slots : child[p].ack \in Nat
      BY <1>2, Places DEF Iso, Child
    <3>2. QED
      BY <1>2, <2>1, <3>1
  <2>4. i \in Iso /\ i.layout /\ i.env = Running.env
    BY <1>2 DEF Iso
  <2>5. Running.env > 0
    <3>1. Running.env = bridge.env
      BY <1>2, <1>7, UpdateFacts
    <3>2. QED
      BY <3>1 DEF Agreeing, Updating
  <2>6. \A x \in Place : child[x].at \in {"rest", "ok", "error"}
    BY <1>3 DEF Agreeing, Waiting
  <2>7. \A p \in Plugin : Told(child[p], process)
    BY <1>4 DEF Agreeing, Telling
  <2>8. ASSUME NEW x \in Place \ {Fresh}, child[x].there
        PROVE  child[x].env = Running.env \/ child[x].missed
    <3>1. x \in Slots \/ x = Spare
      BY <2>8 DEF Slots, There
    <3>2. child[x].at = "ok" /\ Changing(child[x], Running.env)
      BY <1>1, <1>7, <2>8, <3>1 DEF Agreeing, Changes, Ok
    <3>3. Minds(child[x])
      BY DEF Agreeing, Believing, Mindful
    <3>4. QED
      BY <3>2, <3>3 DEF Minds, Changing
  <2> HIDE DEF i, acks, oks
  <2>9. QED
    BY <1>1, <1>2, <1>7, <2>2, <2>3, <2>4, <2>5, <2>6, <2>7, <2>8, ReplyAgrees
<1>8. CASE oks /\ Running.kind \notin {"view", "env"}
  <2>1. Reply(TRUE)
    BY <1>8 DEF EveryTold
  <2>2. QED
    BY <1>1, <1>3, <1>4, <1>8, <2>1, LastAgrees
<1>9. QED
  BY <1>5, <1>6, <1>7, <1>8

\* The plugin has answered.
LEMMA OneToldAgrees ==
  ASSUME TypeOK, Supervised, Agreeing, OneTold
  PROVE  Agreeing'
<1>1. Rest /\ iso.at = "one" /\ Settled(Target) /\ Reply(Ok(Target)) /\ Ok(Target) \in BOOLEAN
  BY DEF OneTold, Ok
<1>2. Running.kind # "env"
  BY <1>1, Midcall
<1>3. \A x \in Place : Waited(x) => child[x].at \in {"rest", "ok", "error"}
  BY <1>1 DEF Waited, Settled, OpeningFresh
<1>4. \A p \in Plugin : ~Settling(p)
  BY <1>1 DEF Settling
<1>5. QED
  BY <1>1, <1>2, <1>3, <1>4, LastAgrees

\* Every runtime is closed.
LEMMA AllClosedAgrees ==
  ASSUME TypeOK, Supervised, Agreeing, AllClosed
  PROVE  Agreeing'
<1>1. Rest /\ iso.at = "close" /\ Answered(TRUE, 0, iso) /\ child' = [x \in Place |-> NoChild]
  BY DEF AllClosed
<1>2. queue # <<>> /\ Running.kind # "env"
  BY <1>1 DEF Supervised, Stands, Queued, Agreeing, Changes
<1>3. QED
  BY <1>1, <1>2, EmptyAgrees

\* Every step of the isolated runtime.
LEMMA IsolatedAgrees ==
  ASSUME TypeOK, Supervised, Agreeing, Isolated
  PROVE  Agreeing'
BY StartLoadAgrees, StartReloadAgrees, StartUnloadAgrees, StartUnloadAllAgrees, StartCallAgrees,
   StartEverywhereAgrees, StartCloseAgrees, RefuseAgrees, RefuseClosingAgrees,
   RetiredAgrees, ShutAgrees, OpenedAgrees,
   LookedAgrees, DressedAgrees, DroppedAgrees, LoadedAgrees, LayoutToldAgrees, SalvagedAgrees,
   SpareToldAgrees, EveryToldAgrees, OneToldAgrees, AllClosedAgrees
   DEF Isolated
-----------------------------------------------------------------------------
(* The renderers and their runtimes, again.                                *)

\* One runtime goes on by itself, and no other's renderer changes.
LEMMA AloneAgrees ==
  ASSUME TypeOK, Supervised, Agreeing, UNCHANGED <<queue, iso, bridge>>,
         NEW x \in Place, NEW d, child' = [child EXCEPT ![x] = d],
         \A r \in DOMAIN process :
           (Alive(child[x]) => r # child[x].pid) => process'[r] = process[r],
         Mindful(d, process'),
         Blank(child[x], process) => Blank(d, process'),
         x \in Plugin => (Told(child[x], process) => Told(d, process')) \/ Settling(x),
         d.there = child[x].there, child[x].at = "rest" => d.at = "rest", child[x].at = "ok" => d.at = "ok",
         d.open => child[x].open /\ d.op = child[x].op /\ d.want = child[x].want,
         d.at # "asked",
         bridge.acked = bridge.env /\ x # Fresh /\ Has(child[x]) => Has(d)
  PROVE  Agreeing'
<1>1. child'[x] = d /\ \A y \in Place \ {x} : child'[y] = child[y]
  BY DEF TypeOK
<1>2. ASSUME NEW y \in Place \ {x}
      PROVE  /\ Mindful(child[y], process) => Mindful(child'[y], process')
             /\ Blank(child[y], process) => Blank(child'[y], process')
             /\ Told(child[y], process) => Told(child'[y], process')
  <2>1. Alive(child[y]) => process'[child[y].pid] = process[child[y].pid]
    BY DEF Supervised, Owned, OnePlace, Housed
  <2>2. QED
    BY <1>1, <2>1 DEF Mindful, Blank, Told
<1>3. Running' = Running /\ Target' = Target /\ Slots' = Slots
  BY <1>1 DEF Running, Target, Slots, There
<1>4. Believing'
  <2>1. \A y \in Place : Mindful(child'[y], process')
    BY <1>1, <1>2 DEF Agreeing, Believing
  <2>2. QED
    BY <2>1 DEF Believing, Mindful, Minds, Knows, Alive
<1>5. Blanks'
  <2>1. \A y \in {Spare, Fresh} : Blank(child'[y], process')
    BY <1>1, <1>2, Places DEF Agreeing, Blanks
  <2>2. QED
    BY <2>1 DEF Blanks, Blank, Alive
<1>6. Telling'
  <2>1. \A p \in Plugin : Told(child'[p], process') \/ Settling(p)
    BY <1>1, <1>2, Places DEF Agreeing, Telling
  <2>2. QED
    BY <2>1 DEF Agreeing, Telling, Told, Alive, Settling
<1>7. Loads'
  BY <1>1, Places DEF Agreeing, Loads, Asking
<1>8. Waiting'
  BY <1>1, <1>3 DEF Agreeing, Waiting, Waited
<1>9. Updating'
  BY DEF Agreeing, Updating
<1>10. Changes'
  <2>1. \A y \in Place : /\ \A env : Changing(child[y], env) => Changing(child'[y], env)
                         /\ child'[y].there = child[y].there
                         /\ child[y].at = "ok" => child'[y].at = "ok"
                         /\ child'[y].at = "asked" => child'[y] = child[y]
    BY <1>1 DEF Changing
  <2>2. QED
    BY <1>3, <2>1, Places DEF Agreeing, Changes, Changing
<1>11. Dressing'
  <2>1. \A y \in Place \ {Fresh} : bridge.acked = bridge.env /\ Has(child[y]) => Has(child'[y])
    BY <1>1
  <2>2. QED
    BY <2>1 DEF Agreeing, Dressing, Has
<1>12. QED
  BY <1>4, <1>5, <1>6, <1>7, <1>8, <1>9, <1>10, <1>11 DEF Agreeing

\* The renderer of the runtime at x is lost.
LEMMA LosingAgrees ==
  ASSUME TypeOK, Supervised, Agreeing, NEW x \in Place, Alive(child[x]), NEW why \in Failure,
         process' = Without(child[x].pid), child' = [child EXCEPT ![x] = Lost(@, why)],
         UNCHANGED <<queue, iso, bridge>>
  PROVE  Agreeing'
<1> DEFINE c == child[x]
           d == Lost(c, why)
<1>1. c \in Child /\ Sound(c) /\ Mindful(c, process) /\ child' = [child EXCEPT ![x] = d]
  BY DEF TypeOK, Supervised, Agreeing, Believing
<1>2. /\ Mindful(d, process') /\ Follows(c, d) /\ Told(d, process')
      /\ Blank(c, process) => Blank(d, process')
      /\ d.open => c.open /\ d.op = c.op /\ d.want = c.want
      /\ c.at = "rest" => d.at = "rest"
      /\ c.at = "ok" => d.at = "ok"
      /\ d.at # "asked"
  BY <1>1, LostMinds
<1> HIDE DEF d
<1>3. \A r \in DOMAIN process : r # c.pid => process'[r] = process[r]
  BY DEF Without
<1>4. d.there = c.there /\ (Has(c) => Has(d))
  BY <1>2 DEF Follows, Has
<1>5. QED
  BY <1>1, <1>2, <1>3, <1>4, AloneAgrees

\* A renderer ends.
LEMMA DiesAgrees ==
  ASSUME TypeOK, Supervised, Agreeing, NEW r \in Renderer, NEW why \in Failure, NEW noticed \in BOOLEAN,
         Dies(r, why, noticed)
  PROVE  Agreeing'
<1> DEFINE x == OwnerOf(r)
<1>1. x \in Place /\ child[x].pid = r /\ Alive(child[x])
  BY OwnerFacts DEF Dies, Supervised
<1>2. /\ process' = Without(child[x].pid) /\ child' = [child EXCEPT ![x] = Lost(@, why)]
      /\ UNCHANGED <<queue, iso, bridge>>
  BY <1>1 DEF Dies
<1> HIDE DEF x
<1>3. QED
  BY <1>1, <1>2, LosingAgrees

\* A deadline passes.
LEMMA DeadlineAgrees ==
  ASSUME TypeOK, Supervised, Agreeing, NEW x \in Place, Deadline(x)
  PROVE  Agreeing'
<1>1. "other" \in Failure
  BY DEF Failure
<1>2. QED
  BY <1>1, LosingAgrees DEF Deadline

\* A renderer has closed.
LEMMA ClosedAgrees ==
  ASSUME TypeOK, Supervised, Agreeing, NEW x \in Place, Closed(x)
  PROVE  Agreeing'
<1>1. "other" \in Failure
  BY DEF Failure
<1>2. QED
  BY <1>1, LosingAgrees DEF Closed, Responds

\* A renderer hangs: it still is what it was.
LEMMA HangAgrees ==
  ASSUME TypeOK, Supervised, Agreeing, NEW r \in Renderer, Hang(r)
  PROVE  Agreeing'
<1>1. /\ process' = [process EXCEPT ![r].hung = TRUE] /\ UNCHANGED <<queue, iso, child, bridge>>
  BY DEF Hang
<1>2. \A q \in DOMAIN process : /\ process'[q].loaded = process[q].loaded
                                /\ process'[q].env = process[q].env
                                /\ process'[q].layout = process[q].layout
  BY <1>1 DEF TypeOK
<1>3. ASSUME NEW x \in Place
      PROVE  /\ Mindful(child[x], process) => Mindful(child[x], process')
             /\ Blank(child[x], process) => Blank(child[x], process')
             /\ Told(child[x], process) => Told(child[x], process')
  <2>1. Alive(child[x]) => child[x].pid \in DOMAIN process
    BY DEF Supervised, Owned, Housed
  <2>2. QED
    BY <1>2, <2>1 DEF Mindful, Knows, Blank, Told
<1>4. Believing'
  <2>1. \A x \in Place : Mindful(child[x], process')
    BY <1>3 DEF Agreeing, Believing
  <2>2. QED
    BY <1>1, <2>1 DEF Believing, Mindful, Minds, Knows, Alive
<1>5. Blanks'
  <2>1. Blank(child[Spare], process') /\ Blank(child[Fresh], process')
    BY <1>3, Places DEF Agreeing, Blanks
  <2>2. QED
    BY <1>1, <2>1 DEF Blanks, Blank, Alive
<1>6. Telling'
  <2>1. \A p \in Plugin : Told(child[p], process') \/ Settling(p)
    BY <1>3, Places DEF Agreeing, Telling
  <2>2. QED
    BY <1>1, <2>1 DEF Agreeing, Telling, Told, Alive, Settling
<1>7. Loads' /\ Waiting' /\ Updating' /\ Changes' /\ Dressing'
  BY <1>1 DEF Agreeing, Loads, Asking, Waiting, Waited, Slots, There, Target, Running, Updating,
              Changes, Changing, Dressing, Has
<1>8. QED
  BY <1>4, <1>5, <1>6, <1>7 DEF Agreeing

\* The runtime at x goes on with its renderer, in a recovery or with an answer.
LEMMA OnwardAgrees ==
  ASSUME TypeOK, Supervised, Agreeing, UNCHANGED <<queue, iso, bridge>>,
         NEW x \in Place, NEW d, child' = [child EXCEPT ![x] = d], NEW p,
         Alive(child[x]), child[x].pid \in DOMAIN process, process'[child[x].pid] = p,
         \A r \in DOMAIN process \ {child[x].pid} : process'[r] = process[r],
         Minds(d), Knows(d, p), d.open = child[x].open, SameRenderer(child[x], d),
         child[x].at \notin {"rest", "ok"}, d.at # "asked", d.op = child[x].op, d.want = child[x].want,
         ~child[x].active /\ ~child[x].again /\ child[x].op # "load" /\ ~process[child[x].pid].loaded
           => ~d.active /\ ~d.again /\ ~p.loaded,
         \/ p.loaded /\ ~d.replaced => process[child[x].pid].loaded /\ ~child[x].replaced
         \/ Settling(x),
         process[child[x].pid].layout => p.layout,
         \/ d.env = child[x].env /\ (child[x].missed => d.missed)
         \/ bridge.acked # bridge.env
         \/ x = Fresh
  PROVE  Agreeing'
<1> DEFINE c == child[x]
<1>1. process'[c.pid] = p /\ \A r \in DOMAIN process : r # c.pid => process'[r] = process[r]
  OBVIOUS
<1>2. Mindful(d, process')
  BY <1>1 DEF Mindful, SameRenderer
<1>3. Alive(d)
  BY DEF Alive, SameRenderer
<1>4. Blank(c, process) => Blank(d, process')
  BY <1>1, <1>3 DEF Blank, SameRenderer
<1>5. (Told(c, process) => Told(d, process')) \/ Settling(x)
  BY <1>1, <1>3 DEF Told, SameRenderer
<1>6. bridge.acked = bridge.env /\ x # Fresh /\ Has(c) => Has(d)
  BY DEF Has, SameRenderer
<1>7. QED
  BY <1>1, <1>2, <1>4, <1>5, <1>6, AloneAgrees DEF SameRenderer

\* What a runtime that works on a call of its renderer takes for granted.
LEMMA AtWork ==
  ASSUME TypeOK, Supervised, Agreeing, NEW x \in Place, Responds(x), child[x].at \in Working
  PROVE  /\ child[x] \in Child /\ Minds(child[x]) /\ Knows(child[x], process[child[x].pid])
         /\ child[x].open /\ Alive(child[x]) /\ child[x].pid \in DOMAIN process
         /\ process[child[x].pid] \in Proc /\ child \in [Place -> Child]
BY DEF TypeOK, Supervised, Agreeing, Believing, Mindful, Responds, Owned, Housed, Sound, Proc

\* A renderer starts.
LEMMA SpawnAgrees ==
  ASSUME TypeOK, Supervised, Agreeing, NEW x \in Place, Spawn(x)
  PROVE  Agreeing'
<1> DEFINE r == CHOOSE q \in Renderer \ DOMAIN process : TRUE
           c == child[x]
           at == IF c.at = "spawn" THEN "initialize" ELSE "opening"
           d == [c EXCEPT !.pid = r, !.dead = "no", !.at = at]
<1>1. r \in Renderer /\ r \notin DOMAIN process
  <2>1. r \in Renderer \ DOMAIN process
    BY DEF Spawn
  <2>2. QED
    BY <2>1
<1>2. c \in Child /\ Sound(c) /\ Minds(c) /\ c.at \in {"spawnFirst", "spawn"} /\ ~Alive(c)
  BY DEF TypeOK, Supervised, Agreeing, Believing, Mindful, Spawn, Sound
<1>3. /\ process' = [q \in DOMAIN process \cup {r} |-> IF q = r THEN NewProcess ELSE process[q]]
      /\ child' = [child EXCEPT ![x] = d] /\ UNCHANGED <<queue, iso, bridge>>
  BY DEF Spawn
<1> HIDE DEF r
<1>4. /\ process'[r] = NewProcess /\ \A q \in DOMAIN process : process'[q] = process[q]
  BY <1>1, <1>3
<1>5. /\ d.pid = r /\ d.at = at /\ d.there = c.there /\ d.open = c.open
      /\ d.op = c.op /\ d.want = c.want /\ d.env = c.env
  BY <1>2 DEF Child, Stage
<1>6. /\ d.active <=> c.active
      /\ d.again <=> c.again
      /\ d.missed <=> c.missed
      /\ d.replaced <=> c.replaced
  BY <1>2 DEF Child
<1> HIDE DEF d
<1>7. Minds(d) /\ Knows(d, NewProcess)
  BY <1>2, <1>5, <1>6 DEF Minds, Recovery, Knows, Answerable, NewProcess
<1>8. Mindful(d, process') /\ Told(d, process') /\ (Blank(c, process) => Blank(d, process'))
  BY <1>4, <1>5, <1>6, <1>7 DEF Mindful, Told, Blank, NewProcess
<1>9. Has(c) => Has(d)
  BY <1>5, <1>6 DEF Has
<1>10. c.at \notin {"rest", "ok"} /\ d.at # "asked"
  BY <1>2, <1>5
<1>11. QED
  BY <1>2, <1>3, <1>4, <1>5, <1>8, <1>9, <1>10, AloneAgrees

\* A runtime that only goes on to another step.
LEMMA StageAgrees ==
  ASSUME TypeOK, Supervised, Agreeing, NEW x \in Place, Responds(x),
         UNCHANGED <<queue, iso, bridge, process>>,
         child[x].at \in Working, NEW at \in Stage \ {"asked"}, child' = [child EXCEPT ![x].at = at],
         Minds([child[x] EXCEPT !.at = at]), Knows([child[x] EXCEPT !.at = at], process[child[x].pid])
  PROVE  Agreeing'
<1> DEFINE c == child[x]
           d == [c EXCEPT !.at = at]
           p == process[c.pid]
<1>1. c \in Child /\ c.open /\ Alive(c) /\ c.pid \in DOMAIN process
  BY AtWork
<1>2. /\ SameRenderer(c, d) /\ d.open = c.open /\ d.at = at /\ d.op = c.op /\ d.want = c.want
      /\ d.env = c.env
  BY <1>1 DEF Child, SameRenderer
<1>3. /\ d.active <=> c.active
      /\ d.again <=> c.again
      /\ d.missed <=> c.missed
      /\ d.replaced <=> c.replaced
  BY <1>1 DEF Child
<1>4. child' = [child EXCEPT ![x] = d] /\ Minds(d) /\ Knows(d, p)
  OBVIOUS
<1>5. c.at \notin {"rest", "ok"} /\ at # "asked"
  BY DEF Working
<1> HIDE DEF d, p
<1>6. process'[c.pid] = p
  BY DEF p
<1>7. QED
  BY <1>1, <1>2, <1>3, <1>4, <1>5, <1>6, OnwardAgrees DEF p

\* A plugin throws: the call is answered, or the recovery given up.
LEMMA ThrowAgrees ==
  ASSUME TypeOK, Supervised, Agreeing, NEW x \in Place, ReloadThrows(x) \/ Throws(x)
  PROVE  Agreeing'
<1> DEFINE c == child[x]
<1>1. Responds(x) /\ UNCHANGED <<queue, iso, bridge, process>> /\ c.at \in Working
  BY DEF ReloadThrows, Throws, Working
<1>2. c \in Child /\ c.open /\ Minds(c) /\ Knows(c, process[c.pid])
  BY <1>1, AtWork
<1>3. ASSUME NEW at \in {"error", "discard"}
      PROVE  LET d == [c EXCEPT !.at = at] IN
             /\ d.at = at /\ d.op = c.op /\ d.env = c.env
             /\ d.active <=> c.active
  BY <1>2 DEF Child, Stage
<1>4. CASE ReloadThrows(x)
  <2> DEFINE d == [c EXCEPT !.at = "discard"]
  <2>1. child' = [child EXCEPT ![x] = d] /\ "discard" \in Stage \ {"asked"}
    BY <1>4 DEF ReloadThrows, Stage
  <2>2. d.at = "discard" /\ d.op = c.op /\ d.env = c.env /\ (d.active <=> c.active)
    BY <1>3
  <2> HIDE DEF d
  <2>3. Minds(d) /\ Knows(d, process[c.pid])
    BY <2>2 DEF Minds, Knows, Recovery, Answerable
  <2>4. QED
    BY <1>1, <2>1, <2>3, StageAgrees DEF d
<1>5. CASE Throws(x)
  <2> DEFINE d == [c EXCEPT !.at = "error"]
  <2>1. child' = [child EXCEPT ![x] = d] /\ "error" \in Stage \ {"asked"}
        /\ c.at = "asked" /\ c.op \in {"load", "unload", "call", "view"}
    BY <1>5 DEF Throws, Stage
  <2>2. d.at = "error" /\ d.op = c.op /\ d.env = c.env /\ (d.active <=> c.active)
    BY <1>3
  <2> HIDE DEF d
  <2>3. Minds(d) /\ Knows(d, process[c.pid])
    BY <1>2, <2>1, <2>2 DEF Minds, Knows, Recovery, Answerable
  <2>4. QED
    BY <1>1, <2>1, <2>3, StageAgrees DEF d
<1>6. QED
  BY <1>4, <1>5

\* A recovery goes on.
LEMMA RecoversAgrees ==
  ASSUME TypeOK, Supervised, Agreeing, NEW x \in Place, Recovers(x)
  PROVE  Agreeing'
<1> DEFINE c == child[x]
           p == process[c.pid]
           settled == [c EXCEPT !.at = "ok", !.ack = p.env]
<1>1. /\ Responds(x) /\ c.at \in {"opening", "initialize", "environment", "snapshot", "reload"}
      /\ UNCHANGED <<queue, iso, bridge>> /\ c.at \in Working
  BY DEF Recovers, Working
<1>2. /\ c \in Child /\ Minds(c) /\ Knows(c, p) /\ c.open /\ Alive(c) /\ c.pid \in DOMAIN process
      /\ p \in Proc
  BY <1>1, AtWork
<1>3. /\ SameRenderer(c, settled) /\ settled.open = c.open /\ settled.at = "ok" /\ settled.op = c.op
      /\ settled.want = c.want /\ settled.env = c.env
      /\ settled.active <=> c.active
      /\ settled.again <=> c.again
      /\ settled.missed <=> c.missed
      /\ settled.replaced <=> c.replaced
  <2>1. /\ SameRenderer(c, settled) /\ settled.open = c.open /\ settled.at = "ok" /\ settled.op = c.op
        /\ settled.want = c.want /\ settled.env = c.env
    BY <1>2 DEF Child, SameRenderer, Stage
  <2>2. /\ settled.active <=> c.active
        /\ settled.again <=> c.again
        /\ settled.missed <=> c.missed
        /\ settled.replaced <=> c.replaced
    BY <1>2 DEF Child
  <2>3. QED
    BY <2>1, <2>2
<1>4. ASSUME NEW at \in {"environment", "snapshot", "reload"}
      PROVE  LET d == [c EXCEPT !.at = at] IN
             /\ SameRenderer(c, d) /\ d.open = c.open /\ d.at = at /\ d.op = c.op
             /\ d.want = c.want /\ d.env = c.env
             /\ d.active <=> c.active
             /\ d.again <=> c.again
             /\ d.missed <=> c.missed
             /\ d.replaced <=> c.replaced
  <2> DEFINE d == [c EXCEPT !.at = at]
  <2>1. /\ SameRenderer(c, d) /\ d.open = c.open /\ d.at = at /\ d.op = c.op
        /\ d.want = c.want /\ d.env = c.env
    BY <1>2 DEF Child, SameRenderer, Stage
  <2>2. /\ d.active <=> c.active
        /\ d.again <=> c.again
        /\ d.missed <=> c.missed
        /\ d.replaced <=> c.replaced
    BY <1>2 DEF Child
  <2>3. QED
    BY <2>1, <2>2
<1> HIDE DEF settled
\* The renderer stays as it is.
<1>5. ASSUME NEW d, child' = [child EXCEPT ![x] = d], process' = process, Minds(d), Knows(d, p),
             SameRenderer(c, d), d.open = c.open, d.at # "asked", d.op = c.op, d.want = c.want, d.env = c.env,
             d.active <=> c.active, d.again <=> c.again, d.missed <=> c.missed, d.replaced <=> c.replaced
      PROVE  Agreeing'
  <2>1. c.at \notin {"rest", "ok"} /\ process'[c.pid] = p
    BY <1>1, <1>5
  <2>2. QED
    BY <1>1, <1>2, <1>5, <2>1, OnwardAgrees
<1>6. CASE c.at = "opening"
  <2>1. child' = [child EXCEPT ![x] = settled] /\ process' = process
    BY <1>6 DEF Recovers, settled
  <2>2. Minds(settled) /\ Knows(settled, p)
    BY <1>2, <1>3, <1>6 DEF Minds, Knows, Recovery, Answerable
  <2>3. settled.at # "asked"
    BY <1>3
  <2>4. QED
    BY <1>3, <1>5, <2>1, <2>2, <2>3
<1>7. CASE c.at = "initialize"
  <2> DEFINE at == IF c.env > 0 THEN "environment" ELSE "snapshot"
             d == [c EXCEPT !.at = at]
  <2>1. child' = [child EXCEPT ![x] = d] /\ process' = process
    BY <1>7 DEF Recovers
  <2>2. at \in {"environment", "snapshot"} /\ (at = "snapshot" => c.env = 0)
    BY <1>2 DEF Child
  <2>3. /\ SameRenderer(c, d) /\ d.open = c.open /\ d.at = at /\ d.op = c.op
        /\ d.want = c.want /\ d.env = c.env
        /\ d.active <=> c.active
        /\ d.again <=> c.again
        /\ d.missed <=> c.missed
        /\ d.replaced <=> c.replaced
    BY <1>4, <2>2
  <2> HIDE DEF d, at
  <2>4. Minds(d) /\ Knows(d, p)
    BY <1>2, <1>7, <2>2, <2>3 DEF Minds, Knows, Recovery, Answerable
  <2>5. d.at # "asked"
    BY <2>2, <2>3
  <2>6. QED
    BY <1>5, <2>1, <2>3, <2>4, <2>5
<1>8. CASE c.at = "environment"
  <2> DEFINE d == [c EXCEPT !.at = "snapshot"]
             b == [p EXCEPT !.env = c.env]
  <2>1. child' = [child EXCEPT ![x] = d] /\ process' = [process EXCEPT ![c.pid] = b]
    BY <1>8 DEF Recovers
  <2>2. /\ SameRenderer(c, d) /\ d.open = c.open /\ d.at = "snapshot" /\ d.op = c.op
        /\ d.want = c.want /\ d.env = c.env
        /\ d.active <=> c.active
        /\ d.again <=> c.again
        /\ d.missed <=> c.missed
        /\ d.replaced <=> c.replaced
    BY <1>4
  <2>3. b.env = c.env /\ (b.loaded <=> p.loaded) /\ (b.layout <=> p.layout)
    BY <1>2 DEF Proc
  <2> HIDE DEF d, b
  <2>4. Minds(d) /\ Knows(d, b)
    BY <1>2, <1>8, <2>2, <2>3 DEF Minds, Knows, Recovery, Answerable
  <2>5. process'[c.pid] = b /\ \A r \in DOMAIN process \ {c.pid} : process'[r] = process[r]
    BY <1>2, <2>1
  <2>6. c.at \notin {"rest", "ok"} /\ d.at # "asked"
    BY <1>8, <2>2
  <2>7. QED
    BY <1>1, <1>2, <2>1, <2>2, <2>3, <2>4, <2>5, <2>6, OnwardAgrees
<1>9. CASE c.at = "snapshot" /\ c.again
  <2> DEFINE d == [c EXCEPT !.at = "reload"]
  <2>1. child' = [child EXCEPT ![x] = d] /\ process' = process
    BY <1>9 DEF Recovers
  <2>2. /\ SameRenderer(c, d) /\ d.open = c.open /\ d.at = "reload" /\ d.op = c.op
        /\ d.want = c.want /\ d.env = c.env
        /\ d.active <=> c.active
        /\ d.again <=> c.again
        /\ d.missed <=> c.missed
        /\ d.replaced <=> c.replaced
    BY <1>4
  <2> HIDE DEF d
  <2>3. Minds(d) /\ Knows(d, p)
    BY <1>2, <1>9, <2>2 DEF Minds, Knows, Recovery, Answerable
  <2>4. d.at # "asked"
    BY <2>2
  <2>5. QED
    BY <1>5, <2>1, <2>2, <2>3, <2>4
<1>10. CASE c.at = "snapshot" /\ ~c.again
  <2>1. child' = [child EXCEPT ![x] = settled] /\ process' = process
    BY <1>10 DEF Recovers, settled
  <2>2. Minds(settled) /\ Knows(settled, p)
    BY <1>2, <1>3, <1>10 DEF Minds, Knows, Recovery, Answerable
  <2>3. settled.at # "asked"
    BY <1>3
  <2>4. QED
    BY <1>3, <1>5, <2>1, <2>2, <2>3
<1>11. CASE c.at = "reload"
  <2> DEFINE d == [settled EXCEPT !.active = TRUE, !.failed = FALSE]
             b == [p EXCEPT !.loaded = TRUE]
  <2>1. child' = [child EXCEPT ![x] = d] /\ process' = [process EXCEPT ![c.pid] = b]
    BY <1>11 DEF Recovers, settled
  <2>2. settled \in Child
    BY <1>2 DEF settled, Child, Stage, Proc
  <2>3. /\ SameRenderer(c, d) /\ d.open = c.open /\ d.at = "ok" /\ d.op = c.op
        /\ d.want = c.want /\ d.env = c.env
    BY <1>3, <2>2 DEF Child, SameRenderer
  <2>4. /\ d.missed <=> c.missed
        /\ d.replaced <=> c.replaced
    BY <1>3, <2>2 DEF Child
  <2>5. b.env = p.env /\ b.loaded /\ (b.layout <=> p.layout)
    BY <1>2 DEF Proc
  <2> HIDE DEF d, b
  <2>6. c.again /\ c.replaced
    BY <1>2, <1>11 DEF Minds, Recovery
  <2>7. Minds(d) /\ Knows(d, b)
    BY <1>2, <1>11, <2>3, <2>4, <2>5, <2>6 DEF Minds, Knows, Recovery, Answerable
  <2>8. process'[c.pid] = b /\ \A r \in DOMAIN process \ {c.pid} : process'[r] = process[r]
    BY <1>2, <2>1
  <2>9. c.at \notin {"rest", "ok"} /\ d.at # "asked"
    BY <1>11, <2>3
  <2>10. QED
    BY <1>1, <1>2, <2>1, <2>3, <2>4, <2>5, <2>6, <2>7, <2>8, <2>9, OnwardAgrees
<1>12. QED
  BY <1>1, <1>6, <1>7, <1>8, <1>9, <1>10, <1>11

\* A call is at work when a request is out.
LEMMA OutMidcall ==
  ASSUME TypeOK, Supervised, Agreeing, NEW x \in Place, child[x].at # "rest"
  PROVE  iso.at # "rest" /\ queue # <<>>
BY DEF Agreeing, Waiting, Waited, OpeningFresh, Supervised, Stands, Queued

\* A request is answered.
LEMMA AnswerAgrees ==
  ASSUME TypeOK, Supervised, Agreeing, NEW x \in Place, Answer(x)
  PROVE  Agreeing'
<1> DEFINE c == child[x]
           p == process[c.pid]
           stale == c.op = "env" /\ c.want <= p.env
           done == CASE c.op = "load" -> [p EXCEPT !.loaded = TRUE]
                     [] c.op = "unload" -> [p EXCEPT !.loaded = FALSE]
                     [] c.op = "layout" -> [p EXCEPT !.layout = TRUE]
                     [] c.op = "env" -> [p EXCEPT !.env = IF stale THEN @ ELSE c.want]
                     [] OTHER -> p
           at == IF stale THEN "error" ELSE "ok"
           active == (c.active \/ c.op = "load") /\ c.op # "unload"
           failed == c.failed /\ c.op \notin {"load", "unload"}
           env == IF c.op = "env" /\ ~stale THEN c.want ELSE c.env
           missed == c.missed /\ (c.op # "env" \/ stale)
           d == [c EXCEPT !.at = at, !.ack = done.env, !.active = active, !.failed = failed,
                          !.env = env, !.missed = missed]
<1>1. /\ Responds(x) /\ c.at = "asked" /\ c.at \in Working /\ UNCHANGED <<queue, iso, bridge>>
      /\ child' = [child EXCEPT ![x] = d] /\ process' = [process EXCEPT ![c.pid] = done]
  BY DEF Answer, Working
<1>2. /\ c \in Child /\ Minds(c) /\ Knows(c, p) /\ c.open /\ Alive(c) /\ c.pid \in DOMAIN process
      /\ p \in Proc
  BY <1>1, AtWork
<1>3. /\ done.loaded <=> (p.loaded \/ c.op = "load") /\ c.op # "unload"
      /\ done.layout <=> p.layout \/ c.op = "layout"
      /\ done.env = IF c.op = "env" /\ ~stale THEN c.want ELSE p.env
  <2> HIDE DEF stale
  <2>1. CASE c.op = "load"
    BY <1>2, <2>1 DEF Proc
  <2>2. CASE c.op = "unload"
    BY <1>2, <2>2 DEF Proc
  <2>3. CASE c.op = "layout"
    BY <1>2, <2>3 DEF Proc
  <2>4. CASE c.op = "env"
    <3>1. done = [p EXCEPT !.env = IF stale THEN @ ELSE c.want]
      BY <2>4
    <3> HIDE DEF done
    <3>2. QED
      BY <1>2, <2>4, <3>1 DEF Proc
  <2>5. CASE c.op \notin {"load", "unload", "layout", "env"}
    BY <1>2, <2>5
  <2>6. QED
    BY <2>1, <2>2, <2>3, <2>4, <2>5
<1>4. /\ at = (IF stale THEN "error" ELSE "ok")
      /\ active <=> (c.active \/ c.op = "load") /\ c.op # "unload"
      /\ missed <=> c.missed /\ (c.op # "env" \/ stale)
      /\ env = (IF c.op = "env" /\ ~stale THEN c.want ELSE c.env)
      /\ active \in BOOLEAN /\ failed \in BOOLEAN /\ missed \in BOOLEAN
  BY <1>2 DEF Child
<1>5. stale => c.op = "env"
  OBVIOUS
<1> HIDE DEF stale, done, at, active, failed, env, missed
<1>6. /\ SameRenderer(c, d) /\ d.open = c.open /\ d.at = at /\ d.op = c.op /\ d.want = c.want
      /\ d.env = env
  <2> DEFINE z == c
             a == done.env
  <2> HIDE DEF z, a
  <2>1. z \in Child /\ d = [z EXCEPT !.at = at, !.ack = a, !.active = active, !.failed = failed,
                                     !.env = env, !.missed = missed]
    BY <1>2 DEF z, a
  <2> HIDE DEF d
  <2>2. /\ SameRenderer(z, d) /\ d.open = z.open /\ d.at = at /\ d.op = z.op /\ d.want = z.want
        /\ d.env = env
    BY <2>1 DEF Child, SameRenderer
  <2>3. QED
    BY <2>2 DEF z
<1>7. /\ d.active = active /\ d.missed = missed
      /\ d.again <=> c.again
      /\ d.replaced <=> c.replaced
  <2> DEFINE z == c
             a == done.env
  <2> HIDE DEF z, a
  <2>1. z \in Child /\ d = [z EXCEPT !.at = at, !.ack = a, !.active = active, !.failed = failed,
                                     !.env = env, !.missed = missed]
    BY <1>2 DEF z, a
  <2> HIDE DEF d
  <2>2. /\ d.active = active /\ d.missed = missed
        /\ d.again <=> z.again
        /\ d.replaced <=> z.replaced
    BY <1>4, <2>1 DEF Child
  <2>3. QED
    BY <2>2 DEF z
<1> HIDE DEF d, c, p
<1>8. d.at \in {"ok", "error"} /\ (d.at = "error" => c.op = "env") /\ (d.at = "ok" => ~stale)
  BY <1>4, <1>5, <1>6
<1>9. Minds(d)
  BY <1>2, <1>4, <1>6, <1>7, <1>8 DEF Minds, Recovery
<1>10. Knows(d, done)
  <2>1. (c.active => p.loaded) /\ p.env = c.env
    BY <1>1, <1>2 DEF Knows, Answerable
  <2>2. d.active => done.loaded
    BY <1>3, <1>4, <1>7, <2>1
  <2>3. done.env = d.env
    BY <1>3, <1>4, <1>6, <2>1
  <2>4. QED
    BY <1>3, <1>6, <1>8, <2>2, <2>3 DEF Knows, Answerable
<1>11. process'[c.pid] = done /\ \A r \in DOMAIN process \ {c.pid} : process'[r] = process[r]
  BY <1>1, <1>2
<1>12. ~c.active /\ ~c.again /\ c.op # "load" /\ ~p.loaded => ~d.active /\ ~d.again /\ ~done.loaded
  BY <1>3, <1>4, <1>7
<1>13. \/ done.loaded /\ ~d.replaced => p.loaded /\ ~c.replaced
       \/ Settling(x)
  <2>1. CASE c.op = "load"
    <3>1. Settling(x)
      BY <1>1, <2>1 DEF Agreeing, Loads, Settling, c
    <3>2. QED
      BY <3>1
  <2>2. CASE c.op # "load"
    BY <1>3, <1>7, <2>2
  <2>3. QED
    BY <2>1, <2>2
<1>14. \/ d.env = c.env /\ (c.missed => d.missed)
       \/ bridge.acked # bridge.env
       \/ x = Fresh
  <2>1. CASE c.op = "env" /\ x # Fresh
    <3>1. Running.kind = "env"
      BY <1>1, <2>1 DEF Agreeing, Changes, c
    <3>2. queue # <<>>
      BY <1>1, OutMidcall DEF c
    <3>3. QED
      BY <3>1, <3>2, UpdateFacts
  <2>2. CASE c.op # "env"
    BY <1>4, <1>6, <1>7, <2>2
  <2>3. QED
    BY <2>1, <2>2
<1>15. p.layout => done.layout
  BY <1>3
<1>16. c.at \notin {"rest", "ok"} /\ d.at # "asked"
  BY <1>1, <1>8
<1>17. QED
  BY <1>1, <1>2, <1>6, <1>9, <1>10, <1>11, <1>12, <1>13, <1>14, <1>15, <1>16, OnwardAgrees DEF c, p
-----------------------------------------------------------------------------
(* The callers, every step, and the beginning, again.                      *)

\* A call is added to the queue.
LEMMA CallerAgrees ==
  ASSUME TypeOK, Supervised, Agreeing, NEW op, queue' = Append(queue, op),
         UNCHANGED <<iso, child, process>>,
         op.kind # "env" => UNCHANGED bridge,
         op.kind = "env" => /\ ~bridge.busy /\ bridge'.busy
                            /\ bridge'.env = bridge.env + 1 /\ op.env = bridge.env + 1
                            /\ bridge'.acked = bridge.acked
  PROVE  Agreeing'
<1>1. queue \in Seq(Op) /\ Len(queue) \in Nat /\ bridge.env \in Nat /\ bridge.acked \in Nat
      /\ bridge.acked <= bridge.env /\ bridge.env > 0
  BY DEF TypeOK, Agreeing, Updating
<1>2. /\ DOMAIN queue' = DOMAIN queue \cup {Len(queue) + 1}
      /\ queue'[Len(queue) + 1] = op
      /\ \A j \in DOMAIN queue : queue'[j] = queue[j]
      /\ Len(queue) + 1 \notin DOMAIN queue
  BY <1>1
<1>3. queue # <<>> => Running' = Running /\ Target' = Target
  <2>1. queue # <<>> => 1 \in DOMAIN queue
    BY <1>1
  <2>2. QED
    BY <1>2, <2>1 DEF Running, Target
<1>4. iso.at # "rest" => queue # <<>>
  BY DEF Supervised, Stands, Queued
<1>5. Believing' /\ Blanks' /\ Telling'
  BY DEF Agreeing, Believing, Blanks, Telling, Mindful, Minds, Knows, Blank, Told, Alive, Settling
<1>6. Loads'
  BY DEF Agreeing, Loads, Asking
<1>7. Waiting'
  <2>1. \A x \in Place : Waited(x) => Waited(x)'
    BY <1>3, <1>4 DEF Waited, Slots, There, OpeningFresh
  <2>2. QED
    BY <2>1 DEF Agreeing, Waiting
<1>8. Changes'
  <2>1. iso.at # "rest" => Running' = Running
    BY <1>3, <1>4
  <2>2. \A x \in Place : child[x].at = "asked" => iso.at # "rest"
    BY OutMidcall
  <2>3. Slots' = Slots
    BY DEF Slots, There
  <2>4. QED
    BY <2>1, <2>2, <2>3 DEF Agreeing, Changes, Changing
<1>9. Updating'
  <2>1. CASE op.kind # "env"
    BY <1>2, <2>1 DEF Agreeing, Updating
  <2>2. CASE op.kind = "env"
    <3>1. \A j \in DOMAIN queue : queue[j].kind # "env"
      BY <2>2 DEF Agreeing, Updating
    <3>2. QED
      BY <1>1, <1>2, <2>2, <3>1 DEF Agreeing, Updating
  <2>3. QED
    BY <2>1, <2>2
<1>10. Dressing'
  <2>1. CASE op.kind # "env"
    BY <2>1 DEF Agreeing, Dressing, Has
  <2>2. CASE op.kind = "env"
    BY <1>1, <2>2 DEF Dressing
  <2>3. QED
    BY <2>1, <2>2
<1>11. QED
  BY <1>5, <1>6, <1>7, <1>8, <1>9, <1>10 DEF Agreeing

\* A new environment.
LEMMA UpdateAgrees ==
  ASSUME TypeOK, Supervised, Agreeing, Update
  PROVE  Agreeing'
<1> DEFINE op == [kind |-> "env", target |-> None, env |-> bridge.env + 1]
<1>1. /\ queue' = Append(queue, op) /\ UNCHANGED <<iso, child, process>> /\ ~bridge.busy
      /\ bridge' = [bridge EXCEPT !.env = @ + 1, !.busy = TRUE]
  BY DEF Update
<1>2. bridge'.busy /\ bridge'.env = bridge.env + 1 /\ bridge'.acked = bridge.acked
  BY <1>1 DEF TypeOK
<1>3. op.kind = "env" /\ op.env = bridge.env + 1
  OBVIOUS
<1> HIDE DEF op
<1>4. QED
  BY <1>1, <1>2, <1>3, CallerAgrees

\* Every step keeps the agreement.
LEMMA StepAgrees == TypeOK /\ Supervised /\ Agreeing /\ [Next]_vars => Agreeing'
<1> SUFFICES ASSUME TypeOK, Supervised, Agreeing, [Next]_vars
             PROVE  Agreeing'
  OBVIOUS
<1>1. CASE Caller
  <2>1. ASSUME NEW op, Call(op)
        PROVE  Agreeing'
    BY <2>1, CallerAgrees DEF Call
  <2>2. QED
    BY <1>1, <2>1, UpdateAgrees DEF Caller
<1>2. CASE Notice
  <2>1. NoTarget("snapshot").kind # "env"
    BY DEF NoTarget
  <2>2. QED
    BY <1>2, <2>1, CallerAgrees DEF Notice
<1>3. CASE Isolated
  BY <1>3, IsolatedAgrees
<1>4. CASE \E x \in Place : Progress(x)
  BY <1>4, SpawnAgrees, RecoversAgrees, AnswerAgrees, ClosedAgrees, DeadlineAgrees DEF Progress
<1>5. CASE Trouble
  BY <1>5, HangAgrees, DiesAgrees, ThrowAgrees DEF Trouble
<1>6. CASE UNCHANGED vars
  <2>1. UNCHANGED <<queue, iso, child, process, bridge>>
    BY <1>6 DEF vars
  <2>2. Believing' /\ Blanks' /\ Telling'
    BY <2>1 DEF Agreeing, Believing, Blanks, Telling, Mindful, Minds, Knows, Blank, Told, Alive, Settling
  <2>3. Loads' /\ Waiting' /\ Updating' /\ Changes' /\ Dressing'
    BY <2>1 DEF Agreeing, Loads, Asking, Waiting, Waited, Slots, There, Target, Running, Updating,
                Changes, Changing, Dressing, Has
  <2>4. QED
    BY <2>2, <2>3 DEF Agreeing
<1>7. QED
  BY <1>1, <1>2, <1>3, <1>4, <1>5, <1>6 DEF Next

\* It holds at first: the plugins of the story run, with the environment, and
\* their layout is ready.
LEMMA InitAgrees == Init => Agreeing
<1> SUFFICES ASSUME Init
             PROVE  Agreeing
  OBVIOUS
<1> DEFINE places == Places0(story)
           pid == CHOOSE f \in Apiece(places) : TRUE
<1>1. /\ story \in Stories /\ story \in Story /\ queue = <<>>
      /\ bridge = [env |-> 1, acked |-> 1, busy |-> FALSE]
      /\ iso = [open |-> TRUE, layout |-> TRUE, env |-> 1, at |-> "rest", err |-> FALSE,
                on |-> None, todo |-> {}, ack |-> 0, last |-> "layout", ok |-> TRUE]
  BY Bounds DEF Init
<1>2. places \subseteq Plugin \cup {Spare} /\ places \subseteq Place /\ Fresh \notin places
  BY <1>1, Places DEF Places0, Story
<1>3. pid \in [places -> Renderer] /\ \A x, y \in places : pid[x] = pid[y] => x = y
  BY <1>1, Enough DEF Apiece
<1>4. /\ process = [r \in {pid[x] : x \in places} |->
                      LET x == CHOOSE y \in places : pid[y] = r
                      IN [NewProcess EXCEPT !.loaded = x # Spare, !.env = 1, !.layout = x # Spare]]
      /\ child = [x \in Place |->
                    IF x \notin places THEN NoChild
                    ELSE [NoChild EXCEPT !.there = TRUE, !.open = TRUE, !.pid = pid[x],
                                         !.active = x # Spare, !.env = 1]]
  BY DEF Init
<1> HIDE DEF places, pid
<1>5. \A x \in Place \ places : child[x] = NoChild
  BY <1>4
<1>6. ASSUME NEW x \in places
      PROVE  /\ child[x].at = "rest" /\ child[x].op = "snapshot" /\ child[x].env = 1
             /\ child[x].pid = pid[x] /\ ~child[x].again /\ (child[x].active => x # Spare)
             /\ process[pid[x]].env = 1
             /\ process[pid[x]].loaded <=> x # Spare
             /\ process[pid[x]].layout <=> x # Spare
  <2>1. child[x] = [NoChild EXCEPT !.there = TRUE, !.open = TRUE, !.pid = pid[x],
                                   !.active = x # Spare, !.env = 1]
    BY <1>2, <1>4
  <2>2. /\ child[x].at = "rest" /\ child[x].op = "snapshot" /\ child[x].env = 1
        /\ child[x].pid = pid[x] /\ ~child[x].again /\ (child[x].active => x # Spare)
    BY <2>1 DEF NoChild
  <2>3. (CHOOSE y \in places : pid[y] = pid[x]) = x
    BY <1>3
  <2>4. process[pid[x]] = [NewProcess EXCEPT !.loaded = x # Spare, !.env = 1, !.layout = x # Spare]
    BY <1>4, <2>3
  <2>5. /\ process[pid[x]].env = 1
        /\ process[pid[x]].loaded <=> x # Spare
        /\ process[pid[x]].layout <=> x # Spare
    BY <2>4 DEF NewProcess
  <2>6. QED
    BY <2>2, <2>5
<1>7. \A x \in Place : child[x].at = "rest"
  BY <1>5, <1>6, Unborn
<1>8. Believing
  <2> SUFFICES ASSUME NEW x \in Place
               PROVE  Mindful(child[x], process)
    BY DEF Believing
  <2>1. CASE x \in places
    BY <1>6, <2>1 DEF Mindful, Minds, Recovery, Knows, Answerable
  <2>2. CASE x \notin places
    BY <1>5, <2>2, UnbornMinds
  <2>3. QED
    BY <2>1, <2>2
<1>9. Blanks
  <2>1. Blank(child[Fresh], process)
    BY <1>2, <1>5, Places, UnbornMinds
  <2>2. CASE Spare \in places
    BY <1>6, <2>1, <2>2 DEF Blanks, Blank
  <2>3. CASE Spare \notin places
    BY <1>5, <2>1, <2>3, Places, UnbornMinds DEF Blanks
  <2>4. QED
    BY <2>2, <2>3
<1>10. Telling
  <2>1. ASSUME NEW p \in Plugin
        PROVE  Told(child[p], process)
    <3>1. CASE p \in places
      BY <1>6, <3>1 DEF Told
    <3>2. CASE p \notin places
      BY <1>5, <3>2, Places, UnbornMinds
    <3>3. QED
      BY <3>1, <3>2
  <2>2. QED
    BY <1>1, <2>1 DEF Telling
<1>11. Loads /\ Waiting /\ Changes
  BY <1>1, <1>7 DEF Loads, Waiting, Changes
<1>12. Updating
  BY <1>1 DEF Updating
<1>13. Dressing
  <2>1. \A x \in Place : Has(child[x])
    BY <1>1, <1>5, <1>6, Unborn DEF Has
  <2>2. QED
    BY <1>1, <2>1 DEF Dressing
<1>14. QED
  BY <1>8, <1>9, <1>10, <1>11, <1>12, <1>13 DEF Agreeing

\* It holds always.
LEMMA AlwaysAgreeing == Spec => []Agreeing
<1>1. (TypeOK /\ Supervised) /\ Agreeing /\ [Next]_vars => Agreeing'
  BY StepAgrees
<1>2. QED
  BY <1>1, Invariant, InitAgrees, PTL DEF Spec
-----------------------------------------------------------------------------
(* The theorems.                                                           *)

\* Every variable keeps its type, whatever the plugins, the renderers and the
\* stories are.
THEOREM TypeCorrect == Spec => []TypeOK
BY Invariant, PTL

\* No renderer is left behind: each one that runs belongs to exactly one
\* runtime, which is open or is closing it, and once close() has been answered
\* none runs.
THEOREM RenderersAlwaysOwned == Spec => []RenderersOwned
<1>1. ASSUME TypeOK, Supervised
      PROVE  RenderersOwned
  <2>1. ASSUME NEW r \in DOMAIN process
        PROVE  \E x \in There :
                 /\ child[x].pid = r /\ Alive(child[x])
                 /\ child[x].open \/ child[x].at = "closing"
                 /\ \A y \in There \ {x} : ~(child[y].pid = r /\ Alive(child[y]))
    <3>1. PICK x \in Place : child[x].pid = r /\ Alive(child[x])
      BY <1>1 DEF Supervised, Owned, Kept
    <3>2. x \in There /\ (child[x].open \/ child[x].at = "closing")
      BY <1>1, <3>1 DEF Supervised, Owned, Housed, Sound, There
    <3>3. \A y \in There \ {x} : ~(child[y].pid = r /\ Alive(child[y]))
      BY <1>1, <3>1 DEF Supervised, Owned, OnePlace, There
    <3>4. QED
      BY <3>1, <3>2, <3>3
  <2>2. ASSUME ~iso.open, iso.at = "rest"
        PROVE  DOMAIN process = {}
    BY <1>1, <2>2, Unborn DEF Supervised, Stands, Ended, Owned, Kept
  <2>3. QED
    BY <2>1, <2>2 DEF RenderersOwned
<1>2. QED
  BY <1>1, Invariant, PTL

\* The failure of a plugin is its own: a plugin stops running only when its own
\* renderer fails, or in a call that unloads or loads that plugin, unloads all
\* of them, or closes the runtime.
THEOREM FailuresAlwaysStayHome == Spec => FailuresStayHome
<1>1. TypeOK /\ Supervised /\ [Next]_vars =>
        [\A p \in Plugin : RunsIn(p) /\ ~RunsIn(p)' =>
           \/ child'[p].dead # "no"
           \/ Running.kind \in {"unloadAll", "close"}
           \/ Running.kind \in {"load", "reload", "unload"} /\ Target = p]_vars
  BY StepKeeps DEF Advances, Homes
<1>2. QED
  BY <1>1, Invariant, PTL DEF Spec, FailuresStayHome

\* What a runtime believes of its renderer is so when no call is at work on it:
\* its active plugin is loaded, with the environment that was last acknowledged.
\* Once the bridge has its acknowledgement every renderer has the environment,
\* except where a runtime recovered in the middle of a change; and every plugin
\* has been told of the layout, except in renderers that replaced another.
THEOREM EnvironmentAlwaysAgreed == Spec => []EnvironmentAgreed
<1>1. ASSUME TypeOK, Supervised, Agreeing
      PROVE  EnvironmentAgreed
  <2>1. ASSUME NEW x \in Place, child[x].there, Alive(child[x]), ~Busy(child[x])
        PROVE  /\ child[x].open /\ child[x].active => process[child[x].pid].loaded
               /\ process[child[x].pid].env = child[x].env
    <3>1. child[x] \in Child /\ Sound(child[x]) /\ Mindful(child[x], process)
      BY <1>1 DEF TypeOK, Supervised, Agreeing, Believing
    <3>2. child[x].at \in {"rest", "ok", "error"} /\ child[x].open
      BY <2>1, <3>1 DEF Sound, Busy
    <3>3. Knows(child[x], process[child[x].pid])
      BY <2>1, <3>1, <3>2 DEF Mindful
    <3>4. QED
      BY <3>2, <3>3 DEF Knows, Answerable
  <2>2. \A x \in There : Believes(x)
    BY <2>1 DEF There, Believes
  <2>3. ASSUME bridge.acked = bridge.env, iso.at = "rest", NEW x \in There, Alive(child[x]),
               ~Busy(child[x]), ~child[x].missed
        PROVE  process[child[x].pid].env = bridge.env
    <3>1. x # Fresh /\ x \in Place /\ child[x].there
      BY <1>1, <2>3 DEF Supervised, Stands, Renewed, OpeningFresh, There
    <3>2. child[x].env = bridge.env
      BY <1>1, <2>3, <3>1 DEF Agreeing, Dressing, Has
    <3>3. QED
      BY <2>1, <2>3, <3>1, <3>2
  <2>4. ASSUME iso.at = "rest", NEW p \in Slots, Alive(child[p]), process[child[p].pid].loaded,
               ~child[p].replaced
        PROVE  process[child[p].pid].layout
    <3>1. Told(child[p], process)
      BY <1>1, <2>4, Places, Idle
    <3>2. QED
      BY <2>4, <3>1 DEF Told
  <2>5. QED
    BY <2>2, <2>3, <2>4 DEF EnvironmentAgreed
<1>2. QED
  BY <1>1, AlwaysAgreeing, Invariant, PTL
=============================================================================
