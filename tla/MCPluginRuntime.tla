---------------------------- MODULE MCPluginRuntime ----------------------------
EXTENDS PluginRuntime, TLC
CONSTANTS P1, P2

Start(loaded, spare, kinds, calls, faults) ==
  [loaded |-> loaded, spare |-> spare, kinds |-> kinds, calls |-> calls, faults |-> faults]

Environment == Start({P1, P2}, FALSE, {"env", "load"}, 2, 1)
Loading == Start({P1}, TRUE, {"load", "snapshot", "unload"}, 3, 1)
Replacing == Start({P1}, FALSE, {"reload", "call"}, 2, 2)
Views == Start({P1, P2}, FALSE, {"view", "notify", "layout"}, 2, 1)
Closing == Start({P1, P2}, FALSE, {"unloadAll", "close", "load"}, 3, 1)
Cases == {Environment, Loading, Replacing, Views, Closing}
=============================================================================
