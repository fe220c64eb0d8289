----------------------------- MODULE PluginRuntime -----------------------------
(***************************************************************************)
(* The supervision of plugins in the isolated topology.                    *)
(* IsolatedPluginRuntime (src/runtime/isolated-plugin-runtime.ts) queues   *)
(* the application's calls and gives each plugin a slot of its own; a slot *)
(* is a RecoveringPluginRuntime (src/runtime/recovering-plugin-runtime.ts) *)
(* which replaces its renderer when that fails; the renderer is a process  *)
(* behind an ElectronPluginRuntime (src/main/electron-plugin-runtime.ts),  *)
(* where every request has a deadline.  PluginSurfaceEnvironmentBridge     *)
(* (src/main/plugin-surface-environment.ts) gives all of them the theme,   *)
(* the style sheets and the settings.                                      *)
(*                                                                         *)
(* An action is the code between two awaits of one of these objects, or    *)
(* something a renderer does.  The environment is its sequence number.     *)
(* Seeding a renderer with the vault's paths follows the same course as    *)
(* its environment, without the number, and is left out.                   *)
(***************************************************************************)
EXTENDS Naturals, Sequences, FiniteSets

CONSTANTS
  Plugin,     \* plugin ids
  Renderer,   \* identities of renderer processes
  Spare,      \* the place of the idle runtime
  Fresh,      \* the place of a runtime that is being opened
  None,       \* no plugin, no renderer
  Stories     \* bounds: what is loaded at first and what may happen

Place == Plugin \cup {Spare, Fresh}

\* Calls of the application.  "call" stands for every request to one plugin,
\* "view" for the two that close the other plugins' views first, "notify" for
\* the requests that go to every plugin and leave no trace here.
Kinds == {"load", "reload", "unload", "unloadAll", "call", "view",
          "snapshot", "notify", "layout", "env", "close"}
Targeted == {"load", "reload", "unload", "call", "view"}
Op == [kind : Kinds, target : Plugin \cup {None}, env : Nat]

Story == [loaded : SUBSET Plugin,  \* the plugins that run at first
          spare  : BOOLEAN,        \* whether there is an idle runtime
          kinds  : SUBSET Kinds,   \* the calls that are made
          calls  : Nat,            \* how many, the environment's included
          faults : Nat]            \* renderers that hang or fail, plugins that throw

ASSUME Apart ==
  /\ Spare \notin Plugin /\ Fresh \notin Plugin /\ Spare # Fresh
  /\ None \notin Plugin \cup Renderer
ASSUME Bounds == Stories \subseteq Story

Places0(b) == b.loaded \cup (IF b.spare THEN {Spare} ELSE {})
Apiece(S) == {f \in [S -> Renderer] : \A x, y \in S : f[x] = f[y] => x = y}
ASSUME Enough == \A b \in Stories : Apiece(Places0(b)) # {}

VARIABLES
  queue,      \* calls on the operation tail, the running one first
  iso,        \* the fields of the isolated runtime and where its call stands
  child,      \* for each place its recovering runtime
  process,    \* the renderers that run
  bridge,     \* the environment bridge
  notices,    \* renderer failures main has yet to answer with a snapshot
  story,      \* the bounds of this behaviour
  left        \* what is left of them

vars == <<queue, iso, child, process, bridge, notices, story, left>>
-----------------------------------------------------------------------------
(* A recovering runtime.                                                   *)

\* asked: a request is out.  opening and initialize: a renderer is starting,
\* the first or a replacement.  environment, snapshot and reload: requests of
\* a recovery.  closing and discard: a renderer has been asked to close, by
\* close() or by a failed recovery.  ok and error: the call is answered.
Stage == {"rest", "spawnFirst", "opening", "asked", "spawn", "initialize", "environment",
          "snapshot", "reload", "discard", "closing", "shut", "ok", "error"}
Failure == {"exit", "other"}

Child == [there : BOOLEAN, open : BOOLEAN,
          pid : Renderer \cup {None},
          dead : {"no"} \cup Failure,        \* closed, lastFatalError of its renderer
          active : BOOLEAN, failed : BOOLEAN,   \* activePlugins, failedPlugins
          env : Nat,
          at : Stage, op : Kinds, want : Nat,  \* the call it works on
          again : BOOLEAN,                     \* its plugin is loaded again
          ack : Nat,                           \* pluginEnvironment of its answer
          missed : BOOLEAN, replaced : BOOLEAN]  \* ghosts, see the properties

NoChild == [there |-> FALSE, open |-> FALSE, pid |-> None, dead |-> "no", active |-> FALSE,
            failed |-> FALSE, env |-> 0, at |-> "rest", op |-> "snapshot", want |-> 0,
            again |-> FALSE, ack |-> 0, missed |-> FALSE, replaced |-> FALSE]
Opening == [NoChild EXCEPT !.there = TRUE, !.open = TRUE, !.at = "spawnFirst"]
NewProcess == [loaded |-> FALSE, env |-> 0, layout |-> FALSE, hung |-> FALSE]

There == {x \in Place : child[x].there}
Slots == There \ {Spare, Fresh}
Alive(c) == c.pid # None /\ c.dead = "no"
Busy(c) == c.at \notin {"rest", "ok", "error", "shut"}

\* recover: the active plugin and the one being loaded count as failed; the
\* plugin is loaded again unless its renderer has exited.
Recovering(c, why) ==
  [c EXCEPT !.at = "spawn", !.failed = c.failed \/ c.active \/ c.op = "load",
            !.again = c.active /\ why # "exit", !.active = FALSE,
            !.missed = c.missed \/ c.op = "env", !.replaced = TRUE]

\* runSnapshot, up to the request.  A plugin that has failed is not running,
\* and unloading it only forgets the failure.
Ask(c, kind, env) ==
  LET asked == [c EXCEPT !.at = "asked", !.op = kind, !.want = env,
                         !.failed = c.failed /\ ~(kind = "unload" /\ ~c.active)]
  IN CASE ~c.open -> [c EXCEPT !.at = "error"]
       [] c.open /\ c.dead # "no" -> Recovering(asked, c.dead)
       [] OTHER -> asked

\* Mutant: the runtime is closed, and its renderer is not.
CloseLazily(c) == [c EXCEPT !.open = FALSE, !.active = FALSE, !.failed = FALSE, !.at = "shut"]

\* close: the renderer is asked to close unless it is gone already.
Close(c) == [c EXCEPT !.open = FALSE, !.active = FALSE, !.failed = FALSE,
                      !.at = IF Alive(c) THEN "closing" ELSE "shut"]

\* The renderer of c is lost.
Lost(c, why) ==
  LET d == [c EXCEPT !.dead = why]
  IN CASE c.at = "asked" -> Recovering(d, why)
       [] c.at \in {"opening", "initialize", "environment", "snapshot", "reload", "discard"}
            -> [d EXCEPT !.open = FALSE, !.at = "error"]
       [] c.at = "closing" -> [d EXCEPT !.at = "shut"]
       [] OTHER -> d

OwnerOf(r) == CHOOSE x \in Place : child[x].pid = r /\ Alive(child[x])
Without(r) == [q \in DOMAIN process \ {r} |-> process[q]]
-----------------------------------------------------------------------------
(* Renderers.  Each loses one of the budget's faults.                      *)

Spend == left.faults > 0 /\ left' = [left EXCEPT !.faults = @ - 1]

\* A renderer no longer answers.
Hang(r) ==
  /\ r \in DOMAIN process /\ ~process[r].hung /\ Spend
  /\ process' = [process EXCEPT ![r].hung = TRUE]
  /\ UNCHANGED <<queue, iso, child, bridge, notices, story>>

\* It exits, or breaks its resource budget or the protocol and is terminated.
\* Main hears of a crashed renderer, though not always of one it closes.
Dies(r, why, noticed) ==
  /\ r \in DOMAIN process /\ Spend
  /\ process' = Without(r)
  /\ child' = [child EXCEPT ![OwnerOf(r)] = Lost(@, why)]
  /\ notices' = IF noticed THEN notices + 1 ELSE notices
  /\ UNCHANGED <<queue, iso, bridge, story>>

\* Mutant: only the calls have deadlines, not the requests of a recovery.
DeadlineOfCalls(x) ==
  /\ child[x].at \in {"asked", "closing"}
  /\ Alive(child[x]) /\ process[child[x].pid].hung
  /\ process' = Without(child[x].pid)
  /\ child' = [child EXCEPT ![x] = Lost(@, "other")]
  /\ notices' \in {notices, notices + 1}
  /\ UNCHANGED <<queue, iso, bridge, story, left>>

\* The deadline of a request passes: the renderer is crashed, which main may
\* hear before it is closed.
Deadline(x) ==
  /\ Busy(child[x]) /\ Alive(child[x]) /\ process[child[x].pid].hung
  /\ process' = Without(child[x].pid)
  /\ child' = [child EXCEPT ![x] = Lost(@, "other")]
  /\ notices' \in {notices, notices + 1}
  /\ UNCHANGED <<queue, iso, bridge, story, left>>

\* A renderer starts, and answers "initialize".
Spawn(x) ==
  /\ child[x].at \in {"spawnFirst", "spawn"}
  /\ Renderer \ DOMAIN process # {}
  /\ LET r == CHOOSE q \in Renderer \ DOMAIN process : TRUE IN
       /\ process' = [q \in DOMAIN process \cup {r} |->
                        IF q = r THEN NewProcess ELSE process[q]]
       /\ child' = [child EXCEPT ![x] =
            [@ EXCEPT !.pid = r, !.dead = "no",
                      !.at = IF child[x].at = "spawn" THEN "initialize" ELSE "opening"]]
  /\ UNCHANGED <<queue, iso, bridge, notices, story, left>>

Responds(x) == Alive(child[x]) /\ ~process[child[x].pid].hung

\* A recovery goes on: the environment that was last acknowledged, a
\* snapshot, and the plugin that was active.
Recovers(x) ==
  LET c == child[x]
      settled == [c EXCEPT !.at = "ok", !.ack = process[c.pid].env]
  IN /\ Responds(x)
     /\ CASE c.at = "opening" -> /\ child' = [child EXCEPT ![x] = settled]
                                 /\ UNCHANGED process
          [] c.at = "initialize" ->
               /\ child' = [child EXCEPT ![x].at =
                              IF c.env > 0 THEN "environment" ELSE "snapshot"]
               /\ UNCHANGED process
          [] c.at = "environment" ->
               /\ process' = [process EXCEPT ![c.pid].env = c.env]
               /\ child' = [child EXCEPT ![x].at = "snapshot"]
          [] c.at = "snapshot" ->
               /\ child' = [child EXCEPT ![x] =
                              IF c.again THEN [c EXCEPT !.at = "reload"] ELSE settled]
               /\ UNCHANGED process
          [] c.at = "reload" ->
               /\ process' = [process EXCEPT ![c.pid].loaded = TRUE]
               /\ child' = [child EXCEPT ![x] =
                              [settled EXCEPT !.active = TRUE, !.failed = FALSE]]
          [] OTHER -> FALSE
     /\ UNCHANGED <<queue, iso, bridge, notices, story, left>>

\* The plugin throws while it is loaded again, or is refused: the recovery
\* closes the replacement.
ReloadThrows(x) ==
  /\ child[x].at = "reload" /\ Responds(x) /\ Spend
  /\ child' = [child EXCEPT ![x].at = "discard"]
  /\ UNCHANGED <<queue, iso, process, bridge, notices, story>>

\* A request is answered, and runSnapshot records what it did.
Answer(x) ==
  LET c == child[x]
      p == process[c.pid]
      stale == c.op = "env" /\ c.want <= p.env
      done == CASE c.op = "load" -> [p EXCEPT !.loaded = TRUE]
                [] c.op = "unload" -> [p EXCEPT !.loaded = FALSE]
                [] c.op = "layout" -> [p EXCEPT !.layout = TRUE]
                [] c.op = "env" -> [p EXCEPT !.env = IF stale THEN @ ELSE c.want]
                [] OTHER -> p
  IN /\ c.at = "asked" /\ Responds(x)
     /\ process' = [process EXCEPT ![c.pid] = done]
     /\ child' = [child EXCEPT ![x] =
          [c EXCEPT !.at = IF stale THEN "error" ELSE "ok", !.ack = done.env,
                    !.active = (c.active \/ c.op = "load") /\ c.op # "unload",
                    !.failed = c.failed /\ c.op \notin {"load", "unload"},
                    !.env = IF c.op = "env" /\ ~stale THEN c.want ELSE @,
                    !.missed = c.missed /\ (c.op # "env" \/ stale)]]
     /\ UNCHANGED <<queue, iso, bridge, notices, story, left>>

\* The plugin throws.  The renderer is in order, and the error is passed on.
Throws(x) ==
  /\ child[x].at = "asked" /\ child[x].op \in {"load", "unload", "call", "view"}
  /\ Responds(x) /\ Spend
  /\ child' = [child EXCEPT ![x].at = "error"]
  /\ UNCHANGED <<queue, iso, process, bridge, notices, story>>

\* A renderer that was asked to close has done so.
Closed(x) ==
  /\ child[x].at \in {"closing", "discard"} /\ Responds(x)
  /\ process' = Without(child[x].pid)
  /\ child' = [child EXCEPT ![x] = Lost(@, "other")]
  /\ UNCHANGED <<queue, iso, bridge, notices, story, left>>
-----------------------------------------------------------------------------
(* The isolated runtime.  at: rest, or what the running call waits for.    *)

Wait == {"rest", "retire", "shut", "open", "look", "dress", "drop", "load", "ready",
         "salvage", "spare", "every", "one", "close"}
Iso == [open : BOOLEAN, layout : BOOLEAN, env : Nat, at : Wait, err : BOOLEAN,
        on : Plugin \cup {None}, todo : SUBSET Plugin, ack : Nat,
        last : Kinds, ok : BOOLEAN]        \* the last answer

Running == queue[1]
Settled(x) == child[x].at \in {"ok", "error"}
Ok(x) == child[x].at = "ok"

\* Runtimes whose answer has been taken.
AtRest(ch) ==
  [x \in Place |-> IF ch[x].at \notin {"ok", "error"} THEN ch[x]
                   ELSE [ch[x] EXCEPT !.at = "rest", !.op = "snapshot", !.want = 0,
                                      !.again = FALSE, !.ack = 0]]

\* The running call is answered.  The bridge checks what was acknowledged.
Answered(ok, ack, i) ==
  /\ queue' = Tail(queue)
  /\ iso' = [i EXCEPT !.at = "rest", !.err = FALSE, !.on = None, !.todo = {}, !.ack = 0,
                      !.last = Running.kind, !.ok = ok]
  /\ bridge' = IF Running.kind # "env" THEN bridge
               ELSE [bridge EXCEPT !.busy = FALSE,
                       !.acked = IF ok /\ ack = Running.env THEN Running.env ELSE @]
Reply(ok) == Answered(ok, iso.ack, iso) /\ child' = AtRest(child)

Goes(i) == iso' = i /\ UNCHANGED <<queue, bridge>>
Asks(x, kind, i) == child' = [child EXCEPT ![x] = Ask(@, kind, Running.env)] /\ Goes(i)

\* updateEverySlot: every slot at once.
AsksAll(kind, i) ==
  /\ child' = [x \in Place |-> IF x \in Slots THEN Ask(child[x], kind, Running.env)
                               ELSE child[x]]
  /\ Goes([i EXCEPT !.at = "every"])

\* takeRuntime: the idle runtime if there is one, or a new one.
Take(p, ch) ==
  IF ch[Spare].there
  THEN /\ child' = [ch EXCEPT ![p] = Ask(ch[Spare], "load", 0), ![Spare] = NoChild]
       /\ Goes([iso EXCEPT !.on = p, !.at = "load"])
  ELSE /\ child' = [ch EXCEPT ![Fresh] = Opening]
       /\ Goes([iso EXCEPT !.on = p, !.at = "open"])

Retire(p, todo) ==
  Asks(p, "unload", [iso EXCEPT !.on = p, !.todo = todo, !.at = "retire"])

Ready == queue # <<>> /\ iso.at = "rest" /\ iso.open
Runs(kind) == Ready /\ Running.kind = kind
Target == Running.target
Rest == UNCHANGED <<process, notices, story, left>>

\* Mutant: the slot that is retired is some other plugin's.
StartLoadOver ==
  /\ Runs("load")
  /\ IF Slots # {} THEN \E p \in Slots : Retire(p, {}) ELSE Take(Target, child)
  /\ Rest

StartLoad ==
  /\ Runs("load")
  /\ IF Target \in Slots THEN Retire(Target, {}) ELSE Take(Target, child)
  /\ Rest
StartReload ==
  /\ Runs("reload")
  /\ IF Target \in Slots THEN Retire(Target, {}) ELSE Reply(FALSE)
  /\ Rest
StartUnload ==
  /\ Runs("unload")
  /\ IF Target \in Slots THEN Retire(Target, {}) ELSE Reply(TRUE)
  /\ Rest
StartUnloadAll ==
  /\ Runs("unloadAll")
  /\ IF Slots = {} THEN Reply(TRUE) ELSE \E p \in Slots : Retire(p, Slots \ {p})
  /\ Rest
StartCall ==
  /\ Runs("call") \/ Runs("view")
  /\ CASE Target \notin Slots -> Reply(FALSE)
       [] Target \in Slots /\ Running.kind = "view" -> AsksAll("snapshot", iso)
       [] OTHER -> Asks(Target, "call", [iso EXCEPT !.at = "one"])
  /\ Rest
StartEverywhere ==
  /\ \E k \in {"snapshot", "notify", "layout", "env"} : Runs(k)
  /\ IF child[Spare].there /\ Running.kind \in {"snapshot", "env"}
     THEN Asks(Spare, Running.kind, [iso EXCEPT !.at = "spare"])
     ELSE AsksAll(Running.kind, [iso EXCEPT !.layout = @ \/ Running.kind = "layout"])
  /\ Rest
StartClose ==
  /\ Runs("close")
  /\ child' = [x \in Place |-> IF x \in There THEN Close(child[x]) ELSE child[x]]
  /\ Goes([iso EXCEPT !.open = FALSE, !.at = "close"])
  /\ Rest
Refuse ==
  /\ queue # <<>> /\ iso.at = "rest" /\ ~iso.open
  /\ Reply(FALSE) /\ Rest
\* close waits behind the calls before it, and none waits behind close: a later
\* call is refused while the renderers still close.
RefuseClosing ==
  /\ iso.at = "close" /\ Len(queue) > 1
  /\ queue' = [Tail(queue) EXCEPT ![1] = Running]
  /\ bridge' = [bridge EXCEPT !.busy = @ /\ queue[2].kind # "env"]
  /\ UNCHANGED <<iso, child>> /\ Rest

\* retireSlot closes the runtime whether or not it could unload the plugin.
Retired ==
  /\ iso.at = "retire" /\ Settled(iso.on)
  /\ child' = [child EXCEPT ![iso.on] = Close(@)]
  /\ Goes([iso EXCEPT !.at = "shut", !.err = ~Ok(iso.on)])
  /\ Rest
Shut ==
  LET ch == [child EXCEPT ![iso.on] = NoChild]
  IN /\ iso.at = "shut" /\ child[iso.on].at = "shut"
     /\ CASE iso.err \/ (Running.kind \in {"unload", "unloadAll"} /\ iso.todo = {})
               -> Answered(~iso.err, 0, iso) /\ child' = ch
          [] ~iso.err /\ iso.todo # {}
               -> \E p \in iso.todo :
                    /\ child' = [ch EXCEPT ![p] = Ask(@, "unload", 0)]
                    /\ Goes([iso EXCEPT !.on = p, !.todo = @ \ {p}, !.at = "retire"])
          [] OTHER -> Take(iso.on, ch)
     /\ Rest

\* A new runtime: opened, asked for a snapshot, given the environment.
Opened ==
  /\ iso.at = "open" /\ Settled(Fresh)
  /\ IF Ok(Fresh) THEN Asks(Fresh, "snapshot", [iso EXCEPT !.at = "look"])
     ELSE Answered(FALSE, 0, iso) /\ child' = [child EXCEPT ![Fresh] = NoChild]
  /\ Rest
Installs ==
  /\ child' = [child EXCEPT ![iso.on] = Ask(child[Fresh], "load", 0), ![Fresh] = NoChild]
  /\ Goes([iso EXCEPT !.at = "load"])
Drops ==
  /\ child' = [child EXCEPT ![Fresh] = Close(@)]
  /\ Goes([iso EXCEPT !.at = "drop"])
\* Mutant: a new runtime is not given the environment.
LookedBare ==
  /\ iso.at = "look" /\ Settled(Fresh)
  /\ IF Ok(Fresh) THEN Installs ELSE Drops
  /\ Rest

Looked ==
  /\ iso.at = "look" /\ Settled(Fresh)
  /\ CASE ~Ok(Fresh) -> Drops
       [] Ok(Fresh) /\ iso.env > 0 ->
            /\ child' = [child EXCEPT ![Fresh] = Ask(@, "env", iso.env)]
            /\ Goes([iso EXCEPT !.at = "dress"])
       [] OTHER -> Installs
  /\ Rest
Dressed ==
  /\ iso.at = "dress" /\ Settled(Fresh)
  /\ IF Ok(Fresh) /\ child[Fresh].ack = iso.env THEN Installs ELSE Drops
  /\ Rest
Dropped ==
  /\ iso.at = "drop" /\ child[Fresh].at = "shut"
  /\ Answered(FALSE, 0, iso) /\ child' = [child EXCEPT ![Fresh] = NoChild]
  /\ Rest

\* loadFreshSlot keeps the slot when loading fails.
Loaded ==
  /\ iso.at = "load" /\ Settled(iso.on)
  /\ CASE ~Ok(iso.on) -> Asks(iso.on, "snapshot", [iso EXCEPT !.at = "salvage"])
       [] Ok(iso.on) /\ iso.layout -> Asks(iso.on, "layout", [iso EXCEPT !.at = "ready"])
       [] OTHER -> Reply(TRUE)
  /\ Rest
LayoutTold ==
  /\ iso.at = "ready" /\ Settled(iso.on)
  /\ IF Ok(iso.on) THEN Reply(TRUE)
     ELSE Asks(iso.on, "snapshot", [iso EXCEPT !.at = "salvage"])
  /\ Rest
Salvaged ==
  /\ iso.at = "salvage" /\ Settled(iso.on)
  /\ Reply(FALSE) /\ Rest

SpareTold ==
  /\ iso.at = "spare" /\ Settled(Spare)
  /\ IF Ok(Spare) THEN AsksAll(Running.kind, [iso EXCEPT !.ack = child[Spare].ack])
     ELSE Reply(FALSE)
  /\ Rest

\* Every slot has answered.  The first failure is thrown; the environment is
\* the runtime's from here on, and the acknowledgement is that of the idle
\* runtime or of the slot that answered first.
EveryTold ==
  /\ iso.at = "every" /\ \A p \in Slots : Settled(p)
  /\ LET ok == \A p \in Slots : Ok(p)
         acks == IF iso.ack > 0 THEN {iso.ack}
                 ELSE IF Slots = {} THEN {Running.env} ELSE {child[p].ack : p \in Slots}
     IN CASE ~ok -> Reply(FALSE)
          [] ok /\ Running.kind = "view" -> Asks(Target, "view", [iso EXCEPT !.at = "one"])
          [] ok /\ Running.kind = "env" ->
               /\ \E a \in acks : Answered(TRUE, a, [iso EXCEPT !.env = Running.env])
               /\ child' = AtRest(child)
          [] OTHER -> Reply(TRUE)
  /\ Rest
OneTold ==
  /\ iso.at = "one" /\ Settled(Target)
  /\ Reply(Ok(Target)) /\ Rest
AllClosed ==
  /\ iso.at = "close" /\ \A x \in There : child[x].at = "shut"
  /\ Answered(TRUE, 0, iso) /\ child' = [x \in Place |-> NoChild]
  /\ Rest
-----------------------------------------------------------------------------
(* Callers.                                                                *)

NoTarget(kind) == [kind |-> kind, target |-> None, env |-> 0]

\* The user and the workspace.  close() is called once.
Call(op) ==
  /\ left.calls > 0 /\ left' = [left EXCEPT !.calls = @ - 1]
  /\ op.kind \in story.kinds \ {"env"}
  /\ op.kind = "close" => iso.open /\ NoTarget("close") \notin {queue[i] : i \in DOMAIN queue}
  /\ queue' = Append(queue, op)
  /\ UNCHANGED <<iso, child, process, bridge, notices, story>>

\* The bridge sends a new environment, one at a time.
Update ==
  /\ "env" \in story.kinds /\ ~bridge.busy
  /\ left.calls > 0 /\ left' = [left EXCEPT !.calls = @ - 1]
  /\ bridge' = [bridge EXCEPT !.env = @ + 1, !.busy = TRUE]
  /\ queue' = Append(queue, [kind |-> "env", target |-> None, env |-> bridge.env + 1])
  /\ UNCHANGED <<iso, child, process, notices, story>>

\* Mutants: a notice that is answered more than once, and one that is dropped.
NoticeAgain ==
  /\ notices' = notices - 1
  /\ queue' = Append(queue, NoTarget("snapshot"))
  /\ UNCHANGED <<iso, child, process, bridge, story, left>>
NoticeDropped ==
  /\ notices > 0 /\ notices' = notices - 1
  /\ UNCHANGED <<queue, iso, child, process, bridge, story, left>>

\* Main answers a crashed renderer with a snapshot for its window.
Notice ==
  /\ notices > 0 /\ notices' = notices - 1
  /\ queue' = Append(queue, NoTarget("snapshot"))
  /\ UNCHANGED <<iso, child, process, bridge, story, left>>

\* The vault is open and the plugins of the story run, their layout ready.
Init ==
  /\ story \in Stories
  /\ left = [calls |-> story.calls, faults |-> story.faults]
  /\ queue = <<>> /\ notices = 0
  /\ bridge = [env |-> 1, acked |-> 1, busy |-> FALSE]
  /\ iso = [open |-> TRUE, layout |-> TRUE, env |-> 1, at |-> "rest", err |-> FALSE,
            on |-> None, todo |-> {}, ack |-> 0, last |-> "layout", ok |-> TRUE]
  /\ LET places == Places0(story)
         pid == CHOOSE f \in Apiece(places) : TRUE
     IN /\ process = [r \in {pid[x] : x \in places} |->
                        LET x == CHOOSE y \in places : pid[y] = r
                        IN [NewProcess EXCEPT !.loaded = x # Spare, !.env = 1,
                                              !.layout = x # Spare]]
        /\ child = [x \in Place |->
                      IF x \notin places THEN NoChild
                      ELSE [NoChild EXCEPT !.there = TRUE, !.open = TRUE, !.pid = pid[x],
                                           !.active = x # Spare, !.env = 1]]

Caller ==
  \/ \E k \in Kinds \ Targeted : Call(NoTarget(k))
  \/ \E k \in Targeted, p \in Plugin : Call([kind |-> k, target |-> p, env |-> 0])
  \/ Update
Isolated ==
  \/ StartLoad \/ StartReload \/ StartUnload \/ StartUnloadAll \/ StartCall
  \/ StartEverywhere \/ StartClose \/ Refuse \/ RefuseClosing
  \/ Retired \/ Shut \/ Opened \/ Looked \/ Dressed \/ Dropped \/ Loaded \/ LayoutTold
  \/ Salvaged \/ SpareTold \/ EveryTold \/ OneTold \/ AllClosed
Progress(x) == Spawn(x) \/ Recovers(x) \/ Answer(x) \/ Closed(x) \/ Deadline(x)
Trouble ==
  \/ \E r \in Renderer : Hang(r)
  \/ \E r \in Renderer, why \in Failure, noticed \in BOOLEAN : Dies(r, why, noticed)
  \/ \E x \in Place : ReloadThrows(x) \/ Throws(x)

Next == Caller \/ Notice \/ Isolated \/ (\E x \in Place : Progress(x)) \/ Trouble
Spec == Init /\ [][Next]_vars

\* The process runs, and each request is answered or its deadline passes.
Fairness ==
  /\ WF_vars(Isolated) /\ WF_vars(Notice)
  /\ \A x \in Place : WF_vars(Progress(x))
FairSpec == Spec /\ Fairness
-----------------------------------------------------------------------------
(* Properties.                                                             *)

TypeOK ==
  /\ queue \in Seq(Op) /\ iso \in Iso /\ child \in [Place -> Child]
  /\ DOMAIN process \subseteq Renderer
  /\ \A r \in DOMAIN process :
       process[r] \in [loaded : BOOLEAN, env : Nat, layout : BOOLEAN, hung : BOOLEAN]
  /\ bridge \in [env : Nat, acked : Nat, busy : BOOLEAN]
  /\ notices \in Nat /\ story \in Stories /\ left \in [calls : Nat, faults : Nat]

\* No renderer is left behind: each belongs to exactly one runtime that is
\* open or closing it, and none runs once the isolated runtime is closed.
RenderersOwned ==
  /\ \A r \in DOMAIN process :
       \E x \in There :
         /\ child[x].pid = r /\ Alive(child[x])
         /\ child[x].open \/ child[x].at = "closing"
         /\ \A y \in There \ {x} : ~(child[y].pid = r /\ Alive(child[y]))
  /\ ~iso.open /\ iso.at = "rest" => DOMAIN process = {}

Believes(x) ==
  LET c == child[x]
  IN c.open /\ Alive(c) /\ ~Busy(c) =>
       /\ c.active => process[c.pid].loaded
       /\ process[c.pid].env = c.env

\* When the bridge has had the acknowledgement of the last environment, every
\* renderer that runs has it.
EnvironmentCurrent ==
  ~bridge.busy /\ bridge.acked = bridge.env /\ iso.at = "rest" =>
    \A x \in There : Alive(child[x]) /\ ~Busy(child[x])
                       => process[child[x].pid].env = bridge.env

\* The same except in runtimes that recovered in the middle of a change; and
\* what a runtime believes of its renderer is so, when no call is at work on
\* it: the plugin it counts as active is loaded, with the environment that was
\* last acknowledged, recovered or not.  Once the layout is ready every plugin
\* that runs has been told, except in renderers that replaced one that failed.
EnvironmentAgreed ==
  /\ \A x \in There : Believes(x)
  /\ ~bridge.busy /\ bridge.acked = bridge.env /\ iso.at = "rest" =>
       \A x \in There : Alive(child[x]) /\ ~Busy(child[x]) /\ ~child[x].missed
                          => process[child[x].pid].env = bridge.env
  /\ iso.layout /\ iso.at = "rest" =>
       \A p \in Slots : Alive(child[p]) /\ process[child[p].pid].loaded /\ ~child[p].replaced
                          => process[child[p].pid].layout

\* The failure of a plugin is its own: a plugin stops running only when its own
\* renderer fails, or when a call unloads or loads it, unloads all, or closes.
RunsIn(p) == child[p].there /\ Alive(child[p]) /\ process[child[p].pid].loaded
FailuresStayHome ==
  [][\A p \in Plugin : RunsIn(p) /\ ~RunsIn(p)' =>
       \/ child'[p].dead # "no"
       \/ Running.kind \in {"unloadAll", "close"}
       \/ Running.kind \in {"load", "reload", "unload"} /\ Target = p]_vars

\* Every call is answered.
CallsAnswered == <>[](queue = <<>>)

\* A renderer failure main has heard of is recovered from, unless a runtime
\* has given up: the renderer is replaced, or the slot is gone.
DeadSlot(p) == child[p].there /\ child[p].open /\ child[p].pid # None /\ child[p].dead # "no"
GivenUp == \E x \in There : ~child[x].open
ExitsNoticed ==
  \A p \in Plugin : (notices > 0 /\ DeadSlot(p)) ~> (~DeadSlot(p) \/ GivenUp)
=============================================================================
