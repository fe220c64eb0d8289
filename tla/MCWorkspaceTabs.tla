--------------------------- MODULE MCWorkspaceTabs ---------------------------
(* Instance for TLC: one or two tabs, two notes, two operations at once.    *)
EXTENDS WorkspaceTabs, TLC
CONSTANTS n1, n2

Quiet == [tabs |-> {n1}, files |-> {n1}, ops |-> 0, moves |-> 0, external |-> 0, holds |-> 0,
          unknown |-> 0, faults |-> 0, edits |-> 0, restarts |-> 0, overlaps |-> 0]
Cases ==
  { [Quiet EXCEPT !.ops = 2, !.tabs = {}],
    [Quiet EXCEPT !.ops = 1, !.external = 1, !.faults = 1],
    [Quiet EXCEPT !.ops = 1, !.moves = 1],
    [Quiet EXCEPT !.ops = 1, !.holds = 1],
    [Quiet EXCEPT !.ops = 1, !.edits = 2],
    [Quiet EXCEPT !.ops = 1, !.restarts = 1],
    [Quiet EXCEPT !.external = 2, !.holds = 1, !.restarts = 1],
    [Quiet EXCEPT !.external = 1, !.unknown = 2, !.overlaps = 1],
    [Quiet EXCEPT !.holds = 1, !.unknown = 4, !.overlaps = 1],
    [Quiet EXCEPT !.tabs = {n1, n2}, !.files = {n1, n2}, !.external = 2, !.moves = 1] }
=============================================================================
